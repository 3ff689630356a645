------------------------------- MODULE GtcdPut -------------------------------
(***************************************************************************)
(* The PUT side of one gtcd object, that is of one connection of a local    *)
(* client (src/src/gtcd/gtcd.T): an object is put in pieces by put_init,    *)
(* put_data and put_commit, or as an open file by put_fd, which the daemon  *)
(* reads when select says so while earlier pieces are still being stored.   *)
(*                                                                         *)
(* The chunker plugin is not part of the repository.  From put_object and   *)
(* commit_object it calls back at some later time, with or without an       *)
(* error, in any order; an object has the pieces that were stored when its  *)
(* commit_object was called.                                                *)
(*                                                                         *)
(* A svccb is freed by its reply and a gtcd object by the end of its        *)
(* connection: what uses them afterwards is undefined.                      *)
(***************************************************************************)
EXTENDS Naturals, FiniteSets

CONSTANTS
  PutFd,       \* the put_fd requests the client makes
  FileLen,     \* FileLen[r]: the reads of r's file that give data, then comes its end
  MaxXfers,    \* bound on the calls of put_init
  MaxPieces,   \* bound on the calls of put_data of a transfer
  MaxErrors    \* bound on the errors of reads and of the chunker

Xfer    == 1 .. MaxXfers
Session == Xfer \cup PutFd   \* one dot_sId for each

ASSUME PutAssumption == /\ FileLen \in [PutFd -> Nat]
                        /\ {MaxXfers, MaxPieces, MaxErrors} \subseteq Nat
                        /\ Xfer \cap PutFd = {}

VARIABLES
  xferTable,   \* the transfers that put_data and put_commit find
  xferCounter,
  session,     \* session[s]: the chunker's session s
  st,          \* st[r]: the putfd_state of r
  acked,       \* history: acked[x], the pieces whose put_data was answered with ok
  replies,     \* history: replies[r], the replies to r
  unread,      \* history: unread[r], the reads of r's file that failed
  errors,      \* history: all errors so far
  status       \* "up", "closed" by the client, "aborted" or "undefined"

transfers == <<xferTable, xferCounter, acked>>
vars == <<transfers, session, st, replies, unread, errors, status>>

\* given counts the pieces; a piece that is neither being stored nor stored has
\* failed.  early: pieces were being stored when commit_object was called.
NewSession == [given |-> 0, storing |-> {}, stored |-> {}, commit |-> "no", object |-> {},
               early |-> FALSE]

Init ==
  /\ xferTable = {} /\ xferCounter = 1
  /\ session = [s \in Session |-> NewSession]
  /\ st = [r \in PutFd |-> [state |-> "unborn", fd |-> FALSE, pending |-> 0]]
  /\ acked = [x \in Xfer |-> {}]
  /\ replies = [r \in PutFd |-> 0] /\ unread = [r \in PutFd |-> 0]
  /\ errors = 0 /\ status = "up"

Failed(s) == 1 .. session[s].given \ (session[s].storing \cup session[s].stored)

Error == errors < MaxErrors /\ errors' = errors + 1

-----------------------------------------------------------------------------
(* The chunker plugin, as gtcd.T uses it *)

\* put_object takes the next piece.
put_object(ses) == [ses EXCEPT !.given = @ + 1, !.storing = @ \cup {ses.given + 1}]

\* It calls back for piece k, with an error or without.
StoredIn(ses, k) == [ses EXCEPT !.storing = @ \ {k}, !.stored = @ \cup {k}]
FailedIn(ses, k) == [ses EXCEPT !.storing = @ \ {k}]

commit_object(ses) ==
  [ses EXCEPT !.commit = "asked", !.object = ses.stored, !.early = ses.storing # {}]

\* The reply to a put_fd.  A second one is made through a freed svccb.
Reply(r) ==
  /\ replies' = [replies EXCEPT ![r] = @ + 1]
  /\ status' = IF replies[r] = 0 THEN "up" ELSE "undefined"

-----------------------------------------------------------------------------
(* put_init, put_data, put_commit *)

put_init ==
  /\ status = "up" /\ xferCounter <= MaxXfers
  /\ xferTable' = xferTable \cup {xferCounter}
  /\ xferCounter' = xferCounter + 1
  /\ UNCHANGED <<acked, session, st, replies, unread, errors, status>>

\* An id that is not in the table is answered with an error and changes nothing.
\* A piece of another size than the count it comes with fails the assertion, and
\* the daemon ends.
put_data(x) ==
  /\ status = "up" /\ x \in xferTable /\ session[x].given < MaxPieces
  /\ \/ session' = [session EXCEPT ![x] = put_object(@)] /\ UNCHANGED status
     \/ status' = "aborted" /\ UNCHANGED session
  /\ UNCHANGED <<transfers, st, replies, unread, errors>>

put_data_cb(x, k) ==
  /\ status = "up" /\ k \in session[x].storing
  /\ \/ /\ session' = [session EXCEPT ![x] = StoredIn(@, k)]
        /\ acked' = [acked EXCEPT ![x] = @ \cup {k}]
        /\ UNCHANGED errors
     \/ session' = [session EXCEPT ![x] = FailedIn(@, k)] /\ Error /\ UNCHANGED acked
  /\ UNCHANGED <<xferTable, xferCounter, st, replies, unread, status>>

\* The same for a transfer that put_commit removes from the table first.
put_commit(x) ==
  /\ status = "up" /\ x \in xferTable
  /\ xferTable' = xferTable \ {x}
  /\ session' = [session EXCEPT ![x] = commit_object(@)]
  /\ UNCHANGED <<xferCounter, acked, st, replies, unread, errors, status>>

put_commit_cb(x) ==
  /\ status = "up" /\ session[x].commit = "asked"
  /\ \/ session' = [session EXCEPT ![x].commit = "ok"] /\ UNCHANGED errors
     \/ session' = [session EXCEPT ![x].commit = "error"] /\ Error
  /\ UNCHANGED <<transfers, st, replies, unread, status>>

-----------------------------------------------------------------------------
(* put_fd *)

\* Mutant: the end of the file is enough to commit.
put_fd_main_NoWait(r, t, ses) ==
  /\ st' = [st EXCEPT ![r] = t]
  /\ session' = [session EXCEPT ![r] = IF ~ t.fd THEN commit_object(ses) ELSE ses]

\* put_fd_main, with the putfd_state and the session as its caller leaves them:
\* it registers the read callback of an open file (again), or commits when
\* nothing is pending.
put_fd_main(r, t, ses) ==
  /\ st' = [st EXCEPT ![r] = t]
  /\ session' = [session EXCEPT ![r] = IF ~ t.fd /\ t.pending <= 0 THEN commit_object(ses) ELSE ses]

\* put_fd; recvfd may give no descriptor.
put_fd(r) ==
  /\ status = "up" /\ st[r].state = "unborn"
  /\ \/ /\ put_fd_main(r, [state |-> "open", fd |-> TRUE, pending |-> 0], session[r])
        /\ UNCHANGED <<replies, errors, status>>
     \/ st' = [st EXCEPT ![r].state = "refused"] /\ Error /\ Reply(r) /\ UNCHANGED session
  /\ UNCHANGED <<transfers, unread>>

\* Mutant: the read callback stays registered at the end of the file.
ReadEnd_Keep(r) ==
  /\ session[r].given = FileLen[r]
  /\ put_fd_main(r, st[r], session[r])
  /\ UNCHANGED <<replies, unread, errors, status>>

\* The three outcomes of put_fd_read: the end of the file,
ReadEnd(r) ==
  /\ session[r].given = FileLen[r]
  /\ put_fd_main(r, [st[r] EXCEPT !.fd = FALSE], session[r])
  /\ UNCHANGED <<replies, unread, errors, status>>

\* a piece of it,
ReadData(r) ==
  /\ session[r].given < FileLen[r]
  /\ st' = [st EXCEPT ![r].pending = @ + 1]
  /\ session' = [session EXCEPT ![r] = put_object(@)]
  /\ UNCHANGED <<replies, unread, errors, status>>

\* or an error, after which the read callback stays registered.
ReadError(r) ==
  /\ unread' = [unread EXCEPT ![r] = @ + 1]
  /\ Error /\ Reply(r)
  /\ UNCHANGED <<session, st>>

put_fd_read(r) ==
  /\ status = "up" /\ st[r].fd
  /\ ReadData(r) \/ ReadEnd(r) \/ ReadError(r)
  /\ UNCHANGED transfers

\* Mutant: a piece that failed is no longer pending either.
PieceFails_Counted(r, k) ==
  /\ put_fd_main(r, [st[r] EXCEPT !.pending = @ - 1], FailedIn(session[r], k))
  /\ Error /\ Reply(r)

\* put_fd_read_cb with an error: pending stays, so that put_fd_main will not commit.
PieceFails(r, k) ==
  /\ session' = [session EXCEPT ![r] = FailedIn(@, k)]
  /\ Error /\ Reply(r)
  /\ UNCHANGED st

put_fd_read_cb(r, k) ==
  /\ status = "up" /\ k \in session[r].storing
  /\ \/ PieceFails(r, k)
     \/ /\ put_fd_main(r, [st[r] EXCEPT !.pending = @ - 1], StoredIn(session[r], k))
        /\ UNCHANGED <<replies, errors, status>>
  /\ UNCHANGED <<transfers, unread>>

put_fd_commit_cb(r) ==
  /\ status = "up" /\ session[r].commit = "asked"
  /\ \/ session' = [session EXCEPT ![r].commit = "ok"] /\ UNCHANGED errors
     \/ session' = [session EXCEPT ![r].commit = "error"] /\ Error
  /\ Reply(r)
  /\ UNCHANGED <<transfers, st, unread>>

-----------------------------------------------------------------------------
\* dispatch without a request: the client has closed its connection, and the
\* gtcd object deletes itself.
Close ==
  /\ status = "up" /\ status' = "closed"
  /\ UNCHANGED <<transfers, session, st, replies, unread, errors>>

\* A callback that is due, or the one that fdcb keeps for an open file, finds
\* the object deleted.
LateCallback ==
  /\ status = "closed" /\ status' = "undefined"
  /\ \/ \E s \in Session : session[s].storing # {} \/ session[s].commit = "asked"
     \/ \E r \in PutFd : st[r].fd
  /\ UNCHANGED <<transfers, session, st, replies, unread, errors>>

Next ==
  \/ put_init
  \/ \E x \in Xfer : \/ put_data(x) \/ put_commit(x) \/ put_commit_cb(x)
                     \/ \E k \in session[x].storing : put_data_cb(x, k)
  \/ \E r \in PutFd : \/ put_fd(r) \/ put_fd_read(r) \/ put_fd_commit_cb(r)
                      \/ \E k \in session[r].storing : put_fd_read_cb(r, k)
  \/ Close \/ LateCallback

\* select reports a file that can be read, files end, and the chunker calls back.
Fairness ==
  \A r \in PutFd : /\ WF_vars(put_fd_read(r)) /\ WF_vars(put_fd_commit_cb(r))
                   /\ \A k \in 1 .. FileLen[r] : WF_vars(put_fd_read_cb(r, k))

Spec     == Init /\ [][Next]_vars
FairSpec == Spec /\ Fairness

-----------------------------------------------------------------------------
(* Properties *)

\* An object the client is told of is complete.  What was put by put_fd has
\* every piece of the file, although pieces are read before earlier ones are
\* stored and any of them may fail; what was put by put_data has the pieces
\* that were answered with ok, unless the client committed before all of them
\* were answered.
CommitComplete ==
  /\ \A r \in PutFd : session[r].commit = "ok" => session[r].object = 1 .. FileLen[r]
  /\ \A x \in Xfer  : session[x].commit = "ok" /\ ~ session[x].early =>
                        session[x].object = acked[x]

\* A put_fd is answered once, whatever order the pieces, the end of the file and
\* the commit come in.  (Unless the file cannot be read, when put_fd_read answers
\* and goes on reading, or two pieces fail, which are both answered.)
AnsweredOnce ==
  \A r \in PutFd : replies[r] > 1 => unread[r] > 0 \/ Cardinality(Failed(r)) > 1

\* Every put_fd is answered, also when the file is empty or a piece fails.
PutAnswered ==
  \A r \in PutFd : st[r].state = "open" ~> replies[r] > 0 \/ status # "up"
=============================================================================

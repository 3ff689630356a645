---------------------------- MODULE GtcdPutProofs ----------------------------
(***************************************************************************)
(* Proofs about GtcdPut, for every set of put_fd requests, every length of *)
(* their files and every number of transfers, pieces and errors.           *)
(***************************************************************************)
EXTENDS GtcdPut, Integers, FiniteSetTheorems, TLAPS

-----------------------------------------------------------------------------
(* The inductive invariant *)

SessionType ==
  [given : Nat, storing : SUBSET Nat, stored : SUBSET Nat,
   commit : {"no", "asked", "ok", "error"}, object : SUBSET Nat, early : BOOLEAN]

StateType == [state : {"unborn", "open", "refused"}, fd : BOOLEAN, pending : Int]

\* The state has its types.
PutType ==
  /\ xferTable \in SUBSET Xfer /\ xferCounter \in Nat \ {0}
  /\ session \in [Session -> SessionType]
  /\ st \in [PutFd -> StateType]
  /\ acked \in [Xfer -> SUBSET Nat]
  /\ replies \in [PutFd -> Nat] /\ unread \in [PutFd -> Nat]
  /\ errors \in Nat

\* A piece is given to the chunker before it is stored or fails, once.
PiecesGiven ==
  \A s \in Session : /\ session[s].storing \subseteq 1 .. session[s].given
                     /\ session[s].stored \subseteq 1 .. session[s].given
                     /\ session[s].storing \cap session[s].stored = {}

\* The pieces of s that are not stored.
Unstored(s) == 1 .. session[s].given \ session[s].stored

\* pending counts the pieces that are not stored, those that failed included.
PendingAccounted(r) == st[r].pending = Cardinality(Unstored(r))

\* A file that is no longer read was read to its end, and only an open put_fd
\* has pieces.
FileRead(r) ==
  /\ session[r].given <= FileLen[r]
  /\ st[r].state # "open" => session[r].given = 0 /\ session[r].commit = "no" /\ ~ st[r].fd
  /\ st[r].state = "open" /\ ~ st[r].fd => session[r].given = FileLen[r]

\* A put_fd is committed when all of its file is stored.
CommittedFile(r) ==
  session[r].commit # "no" => /\ st[r].state = "open" /\ ~ st[r].fd
                              /\ session[r].stored = 1 .. FileLen[r]
                              /\ session[r].object = 1 .. FileLen[r]

\* The replies to a put_fd: one if it was refused, one for every read and every
\* piece that failed, and one for its commit.
Refused(r) == IF st[r].state = "refused" THEN 1 ELSE 0
Told(r)    == IF session[r].commit \in {"ok", "error"} THEN 1 ELSE 0
RepliesAccounted(r) == replies[r] = Refused(r) + unread[r] + Cardinality(Failed(r)) + Told(r)

FdInv(r) == PendingAccounted(r) /\ FileRead(r) /\ CommittedFile(r) /\ RepliesAccounted(r)

\* A transfer that was committed is out of the table for good; what is stored
\* was acknowledged, and nothing is added to an object whose pieces were all
\* stored or failed when it was committed.
XferInv(x) ==
  /\ x \in xferTable => x < xferCounter
  /\ acked[x] = session[x].stored
  /\ session[x].commit # "no" => /\ x \notin xferTable /\ x < xferCounter
                                 /\ ~ session[x].early => /\ session[x].storing = {}
                                                          /\ session[x].object = session[x].stored

IInv == /\ PutType /\ PiecesGiven
        /\ \A r \in PutFd : FdInv(r)
        /\ \A x \in Xfer : XferInv(x)

-----------------------------------------------------------------------------
(* Sets of pieces *)

\* Between two states of the chunker's session s: the pieces not stored, and
\* those that failed, when s is left alone.
LEMMA SameSession ==
  ASSUME NEW s, session'[s] = session[s]
  PROVE  Unstored(s)' = Unstored(s) /\ Failed(s)' = Failed(s)
  BY DEF Unstored, Failed

\* The pieces of a session are finitely many, and those that failed are not stored.
LEMMA PiecesFinite ==
  ASSUME NEW s \in Session, PutType, PiecesGiven
  PROVE  /\ IsFiniteSet(Unstored(s)) /\ Cardinality(Unstored(s)) \in Nat
         /\ IsFiniteSet(Failed(s)) /\ Cardinality(Failed(s)) \in Nat
         /\ Failed(s) \subseteq Unstored(s)
<1>1. session[s].given \in Nat
  BY DEF PutType, SessionType
<1>2. IsFiniteSet(1 .. session[s].given)
  BY <1>1, FS_Interval
<1>3. Unstored(s) \in SUBSET (1 .. session[s].given) /\ Failed(s) \in SUBSET (1 .. session[s].given)
      /\ Failed(s) \subseteq Unstored(s)
  BY DEF Unstored, Failed
<1>4. IsFiniteSet(Unstored(s)) /\ IsFiniteSet(Failed(s))
  BY <1>2, <1>3, FS_Subset
<1>5. QED
  BY <1>3, <1>4, FS_CardinalityType

\* put_object: one more piece that is not stored.
LEMMA PutObjectPieces ==
  ASSUME NEW s \in Session, PutType, PiecesGiven, session'[s] = put_object(session[s])
  PROVE  /\ Cardinality(Unstored(s)') = Cardinality(Unstored(s)) + 1
         /\ Failed(s)' = Failed(s)
<1> DEFINE n == session[s].given
<1>1. /\ n \in Nat
      /\ session[s].storing \subseteq 1 .. n /\ session[s].stored \subseteq 1 .. n
      /\ session[s] \in SessionType
  BY DEF PutType, PiecesGiven, SessionType
<1>2. /\ session'[s].given = n + 1 /\ session'[s].stored = session[s].stored
      /\ session'[s].storing = session[s].storing \cup {n + 1}
  BY <1>1 DEF put_object, SessionType
<1>3. Unstored(s)' = Unstored(s) \cup {n + 1} /\ n + 1 \notin Unstored(s)
  BY <1>1, <1>2 DEF Unstored
<1>4. Failed(s)' = Failed(s)
  BY <1>1, <1>2 DEF Failed
<1>5. QED
  BY <1>3, <1>4, PiecesFinite, FS_AddElement

\* A piece that is stored is no longer not stored.
LEMMA StoredInPieces ==
  ASSUME NEW s \in Session, PutType, PiecesGiven, NEW k \in session[s].storing,
         NEW new, new = StoredIn(session[s], k)
  PROVE  /\ Cardinality(1 .. new.given \ new.stored) = Cardinality(Unstored(s)) - 1
         /\ 1 .. new.given \ (new.storing \cup new.stored) = Failed(s)
<1>1. /\ session[s].storing \subseteq 1 .. session[s].given
      /\ session[s].storing \cap session[s].stored = {}
      /\ session[s] \in SessionType
  BY DEF PutType, PiecesGiven
<1>2. /\ new.given = session[s].given
      /\ new.stored = session[s].stored \cup {k}
      /\ new.storing = session[s].storing \ {k}
  BY <1>1 DEF StoredIn, SessionType
<1>3. 1 .. new.given \ new.stored = Unstored(s) \ {k} /\ k \in Unstored(s)
  BY <1>1, <1>2 DEF Unstored
<1>4. 1 .. new.given \ (new.storing \cup new.stored) = Failed(s)
  BY <1>1, <1>2 DEF Failed
<1>5. QED
  BY <1>3, <1>4, PiecesFinite, FS_RemoveElement

\* A piece that fails is one more that failed, and stays not stored.
LEMMA FailedInPieces ==
  ASSUME NEW s \in Session, PutType, PiecesGiven, NEW k \in session[s].storing,
         session'[s] = FailedIn(session[s], k)
  PROVE  /\ Unstored(s)' = Unstored(s)
         /\ Cardinality(Failed(s)') = Cardinality(Failed(s)) + 1
<1>1. /\ session[s].storing \subseteq 1 .. session[s].given
      /\ session[s].storing \cap session[s].stored = {}
      /\ session[s] \in SessionType
  BY DEF PutType, PiecesGiven
<1>2. /\ session'[s].given = session[s].given /\ session'[s].stored = session[s].stored
      /\ session'[s].storing = session[s].storing \ {k}
  BY <1>1 DEF FailedIn, SessionType
<1>3. Unstored(s)' = Unstored(s)
  BY <1>2 DEF Unstored
<1>4. Failed(s)' = Failed(s) \cup {k} /\ k \notin Failed(s)
  BY <1>1, <1>2 DEF Failed
<1>5. QED
  BY <1>3, <1>4, PiecesFinite, FS_AddElement

-----------------------------------------------------------------------------
(* The invariant is inductive *)

\* The sessions of transfers and of put_fd are apart.
LEMMA SessionFacts ==
  /\ Xfer \subseteq Session /\ PutFd \subseteq Session /\ Xfer \subseteq Nat
  /\ \A x \in Xfer : \A r \in PutFd : x # r
  /\ FileLen \in [PutFd -> Nat] /\ MaxXfers \in Nat
  BY PutAssumption DEF Session, Xfer

\* It holds when the daemon starts.
LEMMA InitIInv == Init => IInv
<1> SUFFICES ASSUME Init PROVE IInv
  OBVIOUS
<1> USE SessionFacts
<1>1. PutType
  BY DEF Init, PutType, NewSession, SessionType, StateType
<1>2. \A s \in Session : session[s] = NewSession
  BY DEF Init
<1>3. \A s \in Session : /\ session[s].given = 0 /\ session[s].storing = {}
                         /\ session[s].stored = {} /\ session[s].commit = "no"
  BY <1>2 DEF NewSession
<1>4. \A s \in Session : Unstored(s) = {} /\ Failed(s) = {}
  BY <1>3 DEF Unstored, Failed
<1>5. \A s \in Session : Cardinality(Unstored(s)) = 0 /\ Cardinality(Failed(s)) = 0
  BY <1>4, FS_EmptySet
<1>6. PiecesGiven
  BY <1>3 DEF PiecesGiven
<1>7. \A x \in Xfer : XferInv(x)
  BY <1>3 DEF Init, XferInv
<1>8. ASSUME NEW r \in PutFd PROVE FdInv(r)
  <2>1. /\ st[r].state = "unborn" /\ st[r].fd = FALSE /\ st[r].pending = 0
        /\ replies[r] = 0 /\ unread[r] = 0
    BY DEF Init
  <2>2. Refused(r) = 0 /\ Told(r) = 0
    BY <2>1, <1>3 DEF Refused, Told
  <2>3. QED
    BY <2>1, <2>2, <1>3, <1>5 DEF FdInv, PendingAccounted, FileRead, CommittedFile, RepliesAccounted
<1>9. QED
  BY <1>1, <1>6, <1>7, <1>8 DEF IInv

\* A put_fd that a step leaves alone.
LEMMA FdSame ==
  ASSUME NEW r \in PutFd, FdInv(r), session'[r] = session[r], st'[r] = st[r],
         replies'[r] = replies[r], unread'[r] = unread[r]
  PROVE  FdInv(r)'
<1>1. Unstored(r)' = Unstored(r) /\ Failed(r)' = Failed(r)
  BY SameSession
<1>2. Refused(r)' = Refused(r) /\ Told(r)' = Told(r)
  BY DEF Refused, Told
<1>3. QED
  BY <1>1, <1>2 DEF FdInv, PendingAccounted, FileRead, CommittedFile, RepliesAccounted

\* put_data, put_commit and their callbacks change one transfer only: what is
\* left to show is that its types, its pieces and its own part of the invariant
\* are kept.
LEMMA XferStep ==
  ASSUME IInv, NEW x \in Xfer, NEW ses \in SessionType,
         session' = [session EXCEPT ![x] = ses],
         ses.storing \subseteq 1 .. ses.given, ses.stored \subseteq 1 .. ses.given,
         ses.storing \cap ses.stored = {},
         xferTable' \in SUBSET xferTable, acked' \in [Xfer -> SUBSET Nat],
         \A y \in Xfer : y # x => acked'[y] = acked[y],
         XferInv(x)', errors' \in Nat,
         UNCHANGED <<xferCounter, st, replies, unread>>
  PROVE  IInv'
<1> USE SessionFacts
<1>1. PutType'
  BY DEF IInv, PutType
<1>2. session'[x] = ses /\ \A s \in Session : s # x => session'[s] = session[s]
  BY DEF IInv, PutType
<1>3. PiecesGiven'
  BY <1>2 DEF IInv, PiecesGiven
<1>4. \A r \in PutFd : FdInv(r)'
  BY <1>2, FdSame DEF IInv
<1>5. \A y \in Xfer : XferInv(y)'
  <2> SUFFICES ASSUME NEW y \in Xfer, y # x PROVE XferInv(y)'
    OBVIOUS
  <2>1. QED
    BY <1>2 DEF IInv, XferInv
<1>6. QED
  BY <1>1, <1>3, <1>4, <1>5 DEF IInv

\* put_fd and its callbacks change one put_fd only.
LEMMA FdStep ==
  ASSUME IInv, NEW r \in PutFd,
         session'[r] \in SessionType, session' = [session EXCEPT ![r] = session'[r]],
         st'[r] \in StateType, st' = [st EXCEPT ![r] = st'[r]],
         replies'[r] \in Nat, replies' = [replies EXCEPT ![r] = replies'[r]],
         unread'[r] \in Nat, unread' = [unread EXCEPT ![r] = unread'[r]],
         session'[r].storing \subseteq 1 .. session'[r].given,
         session'[r].stored \subseteq 1 .. session'[r].given,
         session'[r].storing \cap session'[r].stored = {},
         FdInv(r)', errors' \in Nat,
         UNCHANGED transfers
  PROVE  IInv'
<1> USE SessionFacts
<1>1. PutType'
  BY DEF IInv, PutType, transfers
<1>2. \A s \in Session : s # r => session'[s] = session[s]
  BY DEF IInv, PutType
<1>3. PiecesGiven'
  BY <1>2 DEF IInv, PiecesGiven
<1>4. \A q \in PutFd : FdInv(q)'
  <2> SUFFICES ASSUME NEW q \in PutFd, q # r PROVE FdInv(q)'
    OBVIOUS
  <2>1. st'[q] = st[q] /\ replies'[q] = replies[q] /\ unread'[q] = unread[q]
    BY DEF IInv, PutType
  <2>2. QED
    BY <1>2, <2>1, FdSame DEF IInv
<1>5. \A x \in Xfer : XferInv(x)'
  BY <1>2 DEF IInv, XferInv, transfers
<1>6. QED
  BY <1>1, <1>3, <1>4, <1>5 DEF IInv

\* What the invariant says of one session.
LEMMA SessionOK ==
  ASSUME IInv, NEW s \in Session
  PROVE  /\ session[s] \in SessionType
         /\ session[s].storing \subseteq 1 .. session[s].given
         /\ session[s].stored \subseteq 1 .. session[s].given
         /\ session[s].storing \cap session[s].stored = {}
  BY DEF IInv, PutType, PiecesGiven

\* The chunker's operations keep the types of a session, and its pieces apart.
LEMMA ChunkerSteps ==
  ASSUME NEW ses \in SessionType, NEW k \in ses.storing,
         ses.storing \subseteq 1 .. ses.given, ses.stored \subseteq 1 .. ses.given,
         ses.storing \cap ses.stored = {},
         NEW new \in {StoredIn(ses, k), FailedIn(ses, k)}
  PROVE  /\ new \in SessionType
         /\ new.storing \subseteq 1 .. new.given /\ new.stored \subseteq 1 .. new.given
         /\ new.storing \cap new.stored = {}
         /\ new.storing = ses.storing \ {k}
         /\ new.given = ses.given /\ new.commit = ses.commit /\ new.object = ses.object
         /\ new.early = ses.early
<1>1. k \in Nat
  BY DEF SessionType
<1>2. CASE new = StoredIn(ses, k)
  <2>1. /\ new \in SessionType
        /\ new.storing = ses.storing \ {k} /\ new.stored = ses.stored \cup {k}
        /\ new.given = ses.given /\ new.commit = ses.commit /\ new.object = ses.object
        /\ new.early = ses.early
    BY <1>1, <1>2 DEF StoredIn, SessionType
  <2>2. QED
    BY <2>1
<1>3. CASE new = FailedIn(ses, k)
  <2>1. /\ new \in SessionType
        /\ new.storing = ses.storing \ {k} /\ new.stored = ses.stored
        /\ new.given = ses.given /\ new.commit = ses.commit /\ new.object = ses.object
        /\ new.early = ses.early
    BY <1>1, <1>3 DEF FailedIn, SessionType
  <2>2. QED
    BY <2>1
<1>4. QED
  BY <1>2, <1>3

\* So does put_object, which gives the session one piece more.
LEMMA PutObjectStep ==
  ASSUME NEW ses \in SessionType,
         ses.storing \subseteq 1 .. ses.given, ses.stored \subseteq 1 .. ses.given,
         ses.storing \cap ses.stored = {},
         NEW new, new = put_object(ses)
  PROVE  /\ new \in SessionType
         /\ new.storing \subseteq 1 .. new.given /\ new.stored \subseteq 1 .. new.given
         /\ new.storing \cap new.stored = {}
         /\ new.given = ses.given + 1 /\ new.stored = ses.stored
         /\ new.commit = ses.commit /\ new.object = ses.object
<1>0. ses.given + 1 \in Nat /\ ses.storing \cup {ses.given + 1} \in SUBSET Nat
  BY DEF SessionType
<1>1. /\ new \in SessionType /\ ses.given \in Nat
      /\ new.given = ses.given + 1 /\ new.storing = ses.storing \cup {ses.given + 1}
      /\ new.stored = ses.stored /\ new.commit = ses.commit /\ new.object = ses.object
  BY <1>0 DEF put_object, SessionType
<1>2. 1 .. ses.given \subseteq 1 .. new.given /\ ses.given + 1 \notin 1 .. ses.given
      /\ ses.given + 1 \in 1 .. new.given
  BY <1>1
<1>3. QED
  BY <1>1, <1>2

\* commit_object fixes the object and changes no piece.
LEMMA CommitObjectStep ==
  ASSUME NEW ses \in SessionType, NEW new, new = commit_object(ses)
  PROVE  /\ new \in SessionType
         /\ new.storing = ses.storing /\ new.stored = ses.stored /\ new.given = ses.given
         /\ new.commit = "asked" /\ new.object = ses.stored
         /\ new.early = (ses.storing # {})
  BY DEF commit_object, SessionType

\* The status is not part of the invariant.
LEMMA OnlyStatus ==
  ASSUME IInv, UNCHANGED <<transfers, session, st, replies, unread, errors>>
  PROVE  IInv'
<1>1. /\ \A r \in PutFd : FdInv(r)' <=> FdInv(r)
      /\ \A x \in Xfer : XferInv(x)' <=> XferInv(x)
  BY DEF FdInv, XferInv, PendingAccounted, FileRead, CommittedFile, RepliesAccounted,
         Refused, Told, Failed, Unstored, transfers
<1>2. QED
  BY <1>1 DEF IInv, PutType, PiecesGiven, transfers

\* The calls of a transfer.
LEMMA XferActions ==
  ASSUME IInv, NEW x \in Xfer,
         \/ put_data(x) \/ put_commit(x) \/ put_commit_cb(x)
         \/ \E k \in session[x].storing : put_data_cb(x, k)
  PROVE  IInv'
<1> USE SessionFacts
<1>0. /\ x \in Session /\ session[x] \in SessionType /\ x \in Nat
      /\ session[x].storing \subseteq 1 .. session[x].given
      /\ session[x].stored \subseteq 1 .. session[x].given
      /\ session[x].storing \cap session[x].stored = {}
      /\ XferInv(x) /\ errors \in Nat /\ xferCounter \in Nat /\ xferTable \in SUBSET Xfer
      /\ acked \in [Xfer -> SUBSET Nat] /\ session \in [Session -> SessionType]
  BY SessionOK DEF IInv, PutType
<1>5. CASE put_data(x) /\ UNCHANGED session
  <2>1. UNCHANGED <<transfers, session, st, replies, unread, errors>>
    BY <1>5 DEF put_data
  <2>2. QED
    BY <2>1, OnlyStatus
<1>1. CASE put_data(x) /\ ~ UNCHANGED session
  <2> DEFINE new == put_object(session[x])
  <2>1. session' = [session EXCEPT ![x] = new] /\ session'[x] = new /\ x \in xferTable
    BY <1>0, <1>1 DEF put_data
  <2>2. /\ new \in SessionType
        /\ new.storing \subseteq 1 .. new.given /\ new.stored \subseteq 1 .. new.given
        /\ new.storing \cap new.stored = {}
        /\ new.stored = session[x].stored
        /\ new.commit = session[x].commit
    BY <1>0, PutObjectStep
  <2>3. UNCHANGED <<xferTable, xferCounter, acked, st, replies, unread, errors>>
    BY <1>1 DEF put_data, transfers
  <2> HIDE DEF new
  <2>4. XferInv(x)'
    BY <1>0, <2>1, <2>2, <2>3 DEF XferInv
  <2>5. QED
    BY <1>0, <2>1, <2>2, <2>3, <2>4, XferStep
<1>2. CASE put_commit(x)
  <2> DEFINE new == commit_object(session[x])
  <2>1. session' = [session EXCEPT ![x] = new] /\ session'[x] = new /\ x \in xferTable
        /\ xferTable' = xferTable \ {x}
    BY <1>0, <1>2 DEF put_commit
  <2>2. /\ new \in SessionType
        /\ new.storing = session[x].storing /\ new.stored = session[x].stored
        /\ new.given = session[x].given /\ new.object = session[x].stored
        /\ new.early = (session[x].storing # {})
    BY <1>0, CommitObjectStep
  <2>3. UNCHANGED <<xferCounter, acked, st, replies, unread, errors>>
    BY <1>2 DEF put_commit
  <2> HIDE DEF new
  <2>4. XferInv(x)'
    BY <1>0, <2>1, <2>2, <2>3 DEF XferInv
  <2>5. QED
    BY <1>0, <2>1, <2>2, <2>3, <2>4, XferStep
<1>3. CASE put_commit_cb(x)
  <2>1. PICK c \in {"ok", "error"} :
          session' = [session EXCEPT ![x] = [session[x] EXCEPT !.commit = c]]
    BY <1>3 DEF put_commit_cb
  <2> DEFINE new == [session[x] EXCEPT !.commit = c]
  <2>2. /\ session'[x] = new
        /\ new \in SessionType
        /\ new.storing = session[x].storing /\ new.stored = session[x].stored
        /\ new.given = session[x].given /\ new.object = session[x].object
        /\ new.early = session[x].early
    BY <1>0, <2>1 DEF SessionType
  <2>3. /\ UNCHANGED <<xferTable, xferCounter, acked, st, replies, unread>>
        /\ errors' \in Nat /\ session[x].commit = "asked"
    BY <1>0, <1>3 DEF put_commit_cb, Error, transfers
  <2> HIDE DEF new
  <2>4. XferInv(x)'
    BY <1>0, <2>2, <2>3 DEF XferInv
  <2>5. session' = [session EXCEPT ![x] = new]
    BY <2>1 DEF new
  <2>6. QED
    BY <1>0, <2>2, <2>3, <2>4, <2>5, XferStep
<1>4. ASSUME NEW k \in session[x].storing, put_data_cb(x, k)
      PROVE  IInv'
  <2>0. /\ UNCHANGED <<xferTable, xferCounter, st, replies, unread>>
        /\ errors' \in Nat
    BY <1>0, <1>4 DEF put_data_cb, Error
  <2>1. CASE session' = [session EXCEPT ![x] = StoredIn(session[x], k)]
             /\ acked' = [acked EXCEPT ![x] = @ \cup {k}]
    <3> DEFINE new == StoredIn(session[x], k)
    <3>1. /\ new \in SessionType
          /\ new.storing \subseteq 1 .. new.given /\ new.stored \subseteq 1 .. new.given
          /\ new.storing \cap new.stored = {} /\ new.storing = session[x].storing \ {k}
          /\ new.commit = session[x].commit /\ new.object = session[x].object
          /\ new.early = session[x].early
      BY <1>0, ChunkerSteps
    <3>2. new.stored = session[x].stored \cup {k}
      BY <1>0 DEF StoredIn, SessionType
    <3>3. session' = [session EXCEPT ![x] = new] /\ session'[x] = new
      BY <1>0, <2>1
    <3> HIDE DEF new
    <3>4. XferInv(x)'
      BY <1>0, <2>0, <2>1, <3>1, <3>2, <3>3 DEF XferInv
    <3>5. /\ acked' \in [Xfer -> SUBSET Nat]
          /\ \A y \in Xfer : y # x => acked'[y] = acked[y]
      BY <1>0, <2>1 DEF SessionType
    <3>6. QED
      BY <1>0, <2>0, <3>1, <3>3, <3>4, <3>5, XferStep
  <2>2. CASE session' = [session EXCEPT ![x] = FailedIn(session[x], k)] /\ UNCHANGED acked
    <3> DEFINE new == FailedIn(session[x], k)
    <3>1. /\ new \in SessionType
          /\ new.storing \subseteq 1 .. new.given /\ new.stored \subseteq 1 .. new.given
          /\ new.storing \cap new.stored = {} /\ new.storing = session[x].storing \ {k}
          /\ new.commit = session[x].commit /\ new.object = session[x].object
          /\ new.early = session[x].early
      BY <1>0, ChunkerSteps
    <3>2. new.stored = session[x].stored
      BY <1>0 DEF FailedIn, SessionType
    <3>3. session' = [session EXCEPT ![x] = new] /\ session'[x] = new
      BY <1>0, <2>2
    <3> HIDE DEF new
    <3>4. XferInv(x)'
      BY <1>0, <2>0, <2>2, <3>1, <3>2, <3>3 DEF XferInv
    <3>5. QED
      BY <1>0, <2>0, <2>2, <3>1, <3>3, <3>4, XferStep
  <2>3. QED
    BY <1>4, <2>1, <2>2 DEF put_data_cb
<1>6. QED
  BY <1>1, <1>2, <1>3, <1>4, <1>5

\* What the invariant says of one put_fd.
LEMMA FdFacts ==
  ASSUME IInv, NEW r \in PutFd
  PROVE  /\ r \in Session /\ session \in [Session -> SessionType] /\ st \in [PutFd -> StateType]
         /\ session[r] \in SessionType /\ st[r] \in StateType
         /\ replies \in [PutFd -> Nat] /\ unread \in [PutFd -> Nat]
         /\ FileLen[r] \in Nat /\ errors \in Nat /\ PutType /\ PiecesGiven
         /\ PendingAccounted(r) /\ FileRead(r) /\ CommittedFile(r) /\ RepliesAccounted(r)
  BY SessionFacts DEF IInv, FdInv, PutType

\* put_fd_main keeps the invariant if its caller left the putfd_state t and the
\* session ses right: pending counts what is not stored, so that it commits only
\* when all of the file is stored.
LEMMA FdMain ==
  ASSUME IInv, NEW r \in PutFd, NEW t \in StateType, NEW ses \in SessionType,
         put_fd_main(r, t, ses), UNCHANGED <<transfers, replies, unread, errors>>,
         t.state = "open", st[r].state # "refused",
         ses.given <= FileLen[r], ~ t.fd => ses.given = FileLen[r],
         session[r].commit = "no", ses.commit = "no",
         ses.storing \subseteq 1 .. ses.given, ses.stored \subseteq 1 .. ses.given,
         ses.storing \cap ses.stored = {},
         t.pending = Cardinality(1 .. ses.given \ ses.stored),
         Cardinality(1 .. ses.given \ (ses.storing \cup ses.stored)) = Cardinality(Failed(r))
  PROVE  IInv'
<1> DEFINE new == IF ~ t.fd /\ t.pending <= 0 THEN commit_object(ses) ELSE ses
<1>0. /\ r \in Session /\ session \in [Session -> SessionType] /\ st \in [PutFd -> StateType]
      /\ replies \in [PutFd -> Nat] /\ unread \in [PutFd -> Nat]
      /\ FileLen[r] \in Nat /\ errors \in Nat /\ RepliesAccounted(r)
  BY FdFacts
<1>1. /\ session' = [session EXCEPT ![r] = new] /\ st' = [st EXCEPT ![r] = t]
      /\ session'[r] = new /\ st'[r] = t
  BY <1>0 DEF put_fd_main
<1>2. /\ commit_object(ses) \in SessionType
      /\ commit_object(ses).storing = ses.storing /\ commit_object(ses).stored = ses.stored
      /\ commit_object(ses).given = ses.given /\ commit_object(ses).commit = "asked"
      /\ commit_object(ses).object = ses.stored
  BY CommitObjectStep
<1>3. /\ new \in SessionType
      /\ new.storing = ses.storing /\ new.stored = ses.stored /\ new.given = ses.given
      /\ new.commit \in {"no", "asked"}
      /\ new.commit # "no" => ~ t.fd /\ t.pending <= 0 /\ new.object = ses.stored
  BY <1>2
<1> HIDE DEF new
<1>4. ses.given \in Nat /\ t.pending \in Int
  BY DEF SessionType, StateType
<1>5. new.commit # "no" => new.stored = 1 .. FileLen[r] /\ new.object = 1 .. FileLen[r]
  <2> SUFFICES ASSUME new.commit # "no" PROVE ses.stored = 1 .. FileLen[r]
    BY <1>3
  <2>1. ~ t.fd /\ t.pending <= 0 /\ ses.given = FileLen[r]
    BY <1>3
  <2>2. IsFiniteSet(1 .. ses.given)
    BY <1>4, FS_Interval
  <2>3. IsFiniteSet(1 .. ses.given \ ses.stored)
    BY <2>2, FS_Difference
  <2>4. Cardinality(1 .. ses.given \ ses.stored) \in Nat
    BY <2>3, FS_CardinalityType
  <2>5. Cardinality(1 .. ses.given \ ses.stored) = 0
    BY <2>1, <2>4
  <2>6. 1 .. ses.given \ ses.stored = {}
    BY <2>3, <2>5, FS_EmptySet
  <2>7. QED
    BY <2>1, <2>6
<1>6. Unstored(r)' = 1 .. ses.given \ ses.stored
      /\ Failed(r)' = 1 .. ses.given \ (ses.storing \cup ses.stored)
  BY <1>1, <1>3 DEF Unstored, Failed
<1>7. PendingAccounted(r)' /\ FileRead(r)' /\ CommittedFile(r)'
  BY <1>1, <1>3, <1>5, <1>6 DEF PendingAccounted, FileRead, CommittedFile
<1>8. Told(r)' = Told(r) /\ Refused(r)' = Refused(r)
  BY <1>1, <1>3 DEF Told, Refused
<1>9. RepliesAccounted(r)'
  BY <1>0, <1>6, <1>8 DEF RepliesAccounted
<1>10. QED
  <2>1. /\ replies' = [replies EXCEPT ![r] = replies'[r]] /\ replies'[r] \in Nat
        /\ unread' = [unread EXCEPT ![r] = unread'[r]] /\ unread'[r] \in Nat
    BY <1>0
  <2>2. /\ session' = [session EXCEPT ![r] = session'[r]] /\ session'[r] \in SessionType
        /\ st' = [st EXCEPT ![r] = st'[r]] /\ st'[r] \in StateType
    BY <1>1, <1>3
  <2>5. /\ session'[r].storing \subseteq 1 .. session'[r].given
        /\ session'[r].stored \subseteq 1 .. session'[r].given
        /\ session'[r].storing \cap session'[r].stored = {}
    BY <1>1, <1>3
  <2>3. FdInv(r)'
    BY <1>7, <1>9 DEF FdInv
  <2>4. QED
    BY <1>0, <2>1, <2>2, <2>3, <2>5, FdStep

\* A step of put_fd r that leaves its session and its putfd_state alone, up to
\* their parts named here, and does not commit.
LEMMA FdReply ==
  ASSUME IInv, NEW r \in PutFd, UNCHANGED transfers, errors' \in Nat,
         replies' = [replies EXCEPT ![r] = @ + 1],
         unread' = [unread EXCEPT ![r] = unread'[r]], unread'[r] \in Nat,
         session' = [session EXCEPT ![r] = session'[r]], session'[r] \in SessionType,
         session'[r].storing \subseteq session[r].storing,
         session'[r].stored = session[r].stored, session'[r].given = session[r].given,
         session'[r].object = session[r].object,
         session[r].commit = "no" => session'[r].commit = "no",
         st' = [st EXCEPT ![r] = st'[r]], st'[r] \in StateType,
         st'[r].fd = st[r].fd, st'[r].pending = st[r].pending,
         st[r].state = "open" => st'[r].state = "open",
         st'[r].state = "open" => st[r].state = "open",
         Refused(r)' + unread'[r] + Cardinality(Failed(r)') + Told(r)'
           = Refused(r) + unread[r] + Cardinality(Failed(r)) + Told(r) + 1
  PROVE  IInv'
<1>0. /\ r \in Session /\ session \in [Session -> SessionType] /\ st \in [PutFd -> StateType]
      /\ replies \in [PutFd -> Nat] /\ unread \in [PutFd -> Nat]
      /\ PendingAccounted(r) /\ FileRead(r) /\ CommittedFile(r) /\ RepliesAccounted(r)
  BY FdFacts
<1>1. /\ session[r].storing \subseteq 1 .. session[r].given
      /\ session[r].stored \subseteq 1 .. session[r].given
      /\ session[r].storing \cap session[r].stored = {}
  BY <1>0, SessionOK
<1>2. replies'[r] = replies[r] + 1 /\ replies'[r] \in Nat
      /\ replies' = [replies EXCEPT ![r] = replies'[r]]
  BY <1>0
<1>3. RepliesAccounted(r)'
  BY <1>0, <1>2 DEF RepliesAccounted
<1>4. Unstored(r)' = Unstored(r)
  BY DEF Unstored
<1>5. PendingAccounted(r)'
  BY <1>0, <1>4 DEF PendingAccounted
<1>6. FileRead(r)' /\ CommittedFile(r)'
  BY <1>0 DEF FileRead, CommittedFile
<1>7. /\ session'[r].storing \subseteq 1 .. session'[r].given
      /\ session'[r].stored \subseteq 1 .. session'[r].given
      /\ session'[r].storing \cap session'[r].stored = {}
  BY <1>1
<1>8. FdInv(r)'
  BY <1>3, <1>5, <1>6 DEF FdInv
<1>9. QED
  BY <1>0, <1>2, <1>7, <1>8, FdStep

\* put_fd, with a descriptor or without.
LEMMA PutFdStep ==
  ASSUME IInv, NEW r \in PutFd, put_fd(r)
  PROVE  IInv'
<1>0. /\ r \in Session /\ session \in [Session -> SessionType] /\ st \in [PutFd -> StateType]
      /\ session[r] \in SessionType /\ st[r] \in StateType
      /\ replies \in [PutFd -> Nat] /\ unread \in [PutFd -> Nat]
      /\ FileLen[r] \in Nat /\ errors \in Nat /\ PutType /\ PiecesGiven
      /\ PendingAccounted(r) /\ FileRead(r) /\ CommittedFile(r) /\ RepliesAccounted(r)
  BY FdFacts
<1>1. st[r].state = "unborn" /\ UNCHANGED <<transfers, unread>>
  BY DEF put_fd
<1>2. session[r].given = 0 /\ session[r].commit = "no" /\ ~ st[r].fd
  BY <1>0, <1>1 DEF FileRead
<1>3. Unstored(r) = {} /\ Cardinality(Unstored(r)) = 0
  BY <1>2, FS_EmptySet DEF Unstored
<1>4. /\ session[r].storing \subseteq 1 .. session[r].given
      /\ session[r].stored \subseteq 1 .. session[r].given
      /\ session[r].storing \cap session[r].stored = {}
  BY <1>0, SessionOK
<1>5. CASE put_fd_main(r, [state |-> "open", fd |-> TRUE, pending |-> 0], session[r])
           /\ UNCHANGED <<replies, errors>>
  <2> DEFINE t == [state |-> "open", fd |-> TRUE, pending |-> 0]
  <2>1. t \in StateType /\ t.state = "open" /\ t.fd /\ t.pending = 0
    BY DEF StateType
  <2>2. put_fd_main(r, t, session[r]) /\ UNCHANGED <<transfers, replies, unread, errors>>
    BY <1>1, <1>5
  <2> HIDE DEF t
  <2>3. t.pending = Cardinality(1 .. session[r].given \ session[r].stored)
    BY <1>3, <2>1 DEF Unstored
  <2>4. Cardinality(1 .. session[r].given \ (session[r].storing \cup session[r].stored))
          = Cardinality(Failed(r))
    BY DEF Failed
  <2>5. QED
    BY <1>0, <1>1, <1>2, <1>4, <2>1, <2>2, <2>3, <2>4, FdMain
<1>6. CASE st' = [st EXCEPT ![r].state = "refused"] /\ Error /\ Reply(r) /\ UNCHANGED session
  <2>1. st'[r] = [st[r] EXCEPT !.state = "refused"] /\ st' = [st EXCEPT ![r] = st'[r]]
    BY <1>0, <1>6
  <2>2. st'[r].state = "refused" /\ st'[r].fd = st[r].fd /\ st'[r].pending = st[r].pending
        /\ st'[r] \in StateType
    BY <1>0, <2>1 DEF StateType
  <2>3. replies' = [replies EXCEPT ![r] = @ + 1] /\ errors' \in Nat
    BY <1>0, <1>6 DEF Reply, Error
  <2>4. session' = [session EXCEPT ![r] = session'[r]] /\ session'[r] = session[r]
        /\ unread' = [unread EXCEPT ![r] = unread'[r]] /\ unread'[r] = unread[r]
    BY <1>0, <1>1, <1>6
  <2>5. Failed(r)' = Failed(r) /\ Cardinality(Failed(r)) \in Nat
    BY <1>0, <2>4, SameSession, PiecesFinite
  <2>6. Refused(r)' = 1 /\ Refused(r) = 0 /\ Told(r)' = 0 /\ Told(r) = 0
    BY <1>1, <1>2, <2>2, <2>4 DEF Refused, Told
  <2>7. Refused(r)' + unread'[r] + Cardinality(Failed(r)') + Told(r)'
           = Refused(r) + unread[r] + Cardinality(Failed(r)) + Told(r) + 1
    BY <1>0, <2>4, <2>5, <2>6
  <2>8. QED
    BY <1>0, <1>1, <2>1, <2>2, <2>3, <2>4, <2>7, FdReply
<1>7. QED
  BY <1>5, <1>6 DEF put_fd

\* put_fd_read: a piece, the end of the file, or an error.
LEMMA PutFdReadStep ==
  ASSUME IInv, NEW r \in PutFd, put_fd_read(r)
  PROVE  IInv'
<1>0. /\ r \in Session /\ session \in [Session -> SessionType] /\ st \in [PutFd -> StateType]
      /\ session[r] \in SessionType /\ st[r] \in StateType
      /\ replies \in [PutFd -> Nat] /\ unread \in [PutFd -> Nat]
      /\ FileLen[r] \in Nat /\ errors \in Nat /\ PutType /\ PiecesGiven
      /\ PendingAccounted(r) /\ FileRead(r) /\ CommittedFile(r) /\ RepliesAccounted(r)
  BY FdFacts
<1>1. st[r].fd /\ UNCHANGED transfers
  BY DEF put_fd_read
<1>2. st[r].state = "open" /\ session[r].commit = "no"
  BY <1>0, <1>1 DEF FileRead, CommittedFile
<1>3. /\ session[r].storing \subseteq 1 .. session[r].given
      /\ session[r].stored \subseteq 1 .. session[r].given
      /\ session[r].storing \cap session[r].stored = {}
  BY <1>0, SessionOK
<1>4. Cardinality(Unstored(r)) \in Nat /\ Cardinality(Failed(r)) \in Nat
  BY <1>0, PiecesFinite
<1>5. CASE ReadData(r)
  <2>1. /\ session'[r] = put_object(session[r]) /\ session' = [session EXCEPT ![r] = session'[r]]
        /\ UNCHANGED <<replies, unread, errors>>
    BY <1>0, <1>5 DEF ReadData
  <2>2. /\ session'[r] \in SessionType
        /\ session'[r].storing \subseteq 1 .. session'[r].given
        /\ session'[r].stored \subseteq 1 .. session'[r].given
        /\ session'[r].storing \cap session'[r].stored = {}
        /\ session'[r].given = session[r].given + 1 /\ session'[r].commit = "no"
    BY <1>0, <1>2, <1>3, <2>1, PutObjectStep
  <2>3. st'[r] = [st[r] EXCEPT !.pending = @ + 1] /\ st' = [st EXCEPT ![r] = st'[r]]
    BY <1>0, <1>5 DEF ReadData
  <2>4. /\ st'[r].pending = st[r].pending + 1 /\ st'[r].state = "open" /\ st'[r].fd
        /\ st'[r] \in StateType
    BY <1>0, <1>1, <1>2, <2>3 DEF StateType
  <2>5. /\ Cardinality(Unstored(r)') = Cardinality(Unstored(r)) + 1
        /\ Failed(r)' = Failed(r)
    BY <1>0, <2>1, PutObjectPieces
  <2>6. PendingAccounted(r)'
    BY <1>0, <2>4, <2>5 DEF PendingAccounted
  <2>7. FileRead(r)' /\ CommittedFile(r)'
    BY <1>0, <1>5, <2>2, <2>4 DEF FileRead, CommittedFile, ReadData, SessionType
  <2>8. Told(r)' = Told(r) /\ Refused(r)' = Refused(r)
    BY <1>2, <2>2, <2>4 DEF Told, Refused
  <2>9. FdInv(r)'
    BY <1>0, <2>1, <2>5, <2>6, <2>7, <2>8 DEF FdInv, RepliesAccounted
  <2>10. /\ replies' = [replies EXCEPT ![r] = replies'[r]] /\ replies'[r] \in Nat
         /\ unread' = [unread EXCEPT ![r] = unread'[r]] /\ unread'[r] \in Nat /\ errors' \in Nat
    BY <1>0, <2>1
  <2>11. QED
    BY <1>1, <2>1, <2>2, <2>3, <2>4, <2>9, <2>10, FdStep
<1>6. CASE ReadEnd(r)
  <2> DEFINE t == [st[r] EXCEPT !.fd = FALSE]
  <2>1. t \in StateType /\ t.state = "open" /\ ~ t.fd /\ t.pending = st[r].pending
    BY <1>0, <1>2 DEF StateType
  <2>2. /\ put_fd_main(r, t, session[r]) /\ UNCHANGED <<transfers, replies, unread, errors>>
        /\ session[r].given = FileLen[r]
    BY <1>1, <1>6 DEF ReadEnd
  <2> HIDE DEF t
  <2>3. t.pending = Cardinality(1 .. session[r].given \ session[r].stored)
    BY <1>0, <2>1 DEF Unstored, PendingAccounted
  <2>4. Cardinality(1 .. session[r].given \ (session[r].storing \cup session[r].stored))
          = Cardinality(Failed(r))
    BY DEF Failed
  <2>5. session[r].given <= FileLen[r]
    BY <1>0 DEF FileRead
  <2>6. QED
    BY <1>0, <1>2, <1>3, <2>1, <2>2, <2>3, <2>4, <2>5, FdMain
<1>7. CASE ReadError(r)
  <2>1. /\ replies' = [replies EXCEPT ![r] = @ + 1] /\ errors' \in Nat
        /\ unread' = [unread EXCEPT ![r] = unread'[r]] /\ unread'[r] = unread[r] + 1
        /\ unread'[r] \in Nat
    BY <1>0, <1>7 DEF ReadError, Reply, Error
  <2>2. /\ session' = [session EXCEPT ![r] = session'[r]] /\ session'[r] = session[r]
        /\ st' = [st EXCEPT ![r] = st'[r]] /\ st'[r] = st[r]
    BY <1>0, <1>7 DEF ReadError
  <2>3. Failed(r)' = Failed(r)
    BY <2>2, SameSession
  <2>4. Refused(r)' = 0 /\ Refused(r) = 0 /\ Told(r)' = 0 /\ Told(r) = 0
    BY <1>2, <2>2 DEF Refused, Told
  <2>5. Refused(r)' + unread'[r] + Cardinality(Failed(r)') + Told(r)'
           = Refused(r) + unread[r] + Cardinality(Failed(r)) + Told(r) + 1
    BY <1>0, <1>4, <2>1, <2>3, <2>4
  <2>6. QED
    BY <1>0, <1>1, <2>1, <2>2, <2>5, FdReply
<1>8. QED
  BY <1>5, <1>6, <1>7 DEF put_fd_read

\* put_fd_read_cb: a piece fails or is stored.  No piece is being stored once
\* the object is committed.
LEMMA PutFdReadCbStep ==
  ASSUME IInv, NEW r \in PutFd, NEW k \in session[r].storing, put_fd_read_cb(r, k)
  PROVE  IInv'
<1>0. /\ r \in Session /\ session \in [Session -> SessionType] /\ st \in [PutFd -> StateType]
      /\ session[r] \in SessionType /\ st[r] \in StateType
      /\ replies \in [PutFd -> Nat] /\ unread \in [PutFd -> Nat]
      /\ FileLen[r] \in Nat /\ errors \in Nat /\ PutType /\ PiecesGiven
      /\ PendingAccounted(r) /\ FileRead(r) /\ CommittedFile(r) /\ RepliesAccounted(r)
  BY FdFacts
<1>1. UNCHANGED <<transfers, unread>>
  BY DEF put_fd_read_cb
<1>2. /\ session[r].storing \subseteq 1 .. session[r].given
      /\ session[r].stored \subseteq 1 .. session[r].given
      /\ session[r].storing \cap session[r].stored = {}
      /\ session[r].given \in Nat
  BY <1>0, SessionOK DEF SessionType
<1>3. k \in 1 .. session[r].given /\ k \notin session[r].stored
  BY <1>2
<1>4. st[r].state = "open" /\ session[r].commit = "no"
  <2>1. st[r].state = "open" /\ session[r].given <= FileLen[r]
    BY <1>0, <1>3 DEF FileRead
  <2>2. k \in 1 .. FileLen[r]
    BY <1>0, <1>2, <1>3, <2>1
  <2>3. QED
    BY <1>0, <1>3, <2>1, <2>2 DEF CommittedFile
<1>5. Cardinality(Unstored(r)) \in Nat /\ Cardinality(Failed(r)) \in Nat
  BY <1>0, PiecesFinite
<1>6. CASE PieceFails(r, k)
  <2>1. /\ session'[r] = FailedIn(session[r], k) /\ session' = [session EXCEPT ![r] = session'[r]]
        /\ replies' = [replies EXCEPT ![r] = @ + 1] /\ errors' \in Nat
    BY <1>0, <1>6 DEF PieceFails, Reply, Error
  <2>2. /\ session'[r] \in SessionType /\ session'[r].storing = session[r].storing \ {k}
        /\ session'[r].given = session[r].given /\ session'[r].object = session[r].object
        /\ session'[r].commit = "no"
    BY <1>0, <1>2, <1>4, <2>1, ChunkerSteps
  <2>3. session'[r].stored = session[r].stored
    BY <1>0, <2>1 DEF FailedIn, SessionType
  <2>4. /\ st' = [st EXCEPT ![r] = st'[r]] /\ st'[r] = st[r]
        /\ unread' = [unread EXCEPT ![r] = unread'[r]] /\ unread'[r] = unread[r]
    BY <1>0, <1>1, <1>6 DEF PieceFails
  <2>5. Cardinality(Failed(r)') = Cardinality(Failed(r)) + 1
    BY <1>0, <2>1, FailedInPieces
  <2>6. Refused(r)' = 0 /\ Refused(r) = 0 /\ Told(r)' = 0 /\ Told(r) = 0
    BY <1>4, <2>2, <2>4 DEF Refused, Told
  <2>7. Refused(r)' + unread'[r] + Cardinality(Failed(r)') + Told(r)'
           = Refused(r) + unread[r] + Cardinality(Failed(r)) + Told(r) + 1
    BY <1>0, <1>5, <2>4, <2>5, <2>6
  <2>8. unread'[r] \in Nat
    BY <1>0, <2>4
  <2>9. QED
    BY <1>0, <1>1, <1>4, <2>1, <2>2, <2>3, <2>4, <2>7, <2>8, FdReply
<1>7. CASE put_fd_main(r, [st[r] EXCEPT !.pending = @ - 1], StoredIn(session[r], k))
           /\ UNCHANGED <<replies, errors>>
  <2> DEFINE t   == [st[r] EXCEPT !.pending = @ - 1]
             ses == StoredIn(session[r], k)
  <2>1. t \in StateType /\ t.state = "open" /\ t.fd = st[r].fd /\ t.pending = st[r].pending - 1
    BY <1>0, <1>4 DEF StateType
  <2>2. put_fd_main(r, t, ses) /\ UNCHANGED <<transfers, replies, unread, errors>>
    BY <1>1, <1>7
  <2>3. /\ ses \in SessionType
        /\ ses.storing \subseteq 1 .. ses.given /\ ses.stored \subseteq 1 .. ses.given
        /\ ses.storing \cap ses.stored = {}
        /\ ses.given = session[r].given /\ ses.commit = "no"
    BY <1>0, <1>2, <1>4, ChunkerSteps
  <2>4. /\ Cardinality(1 .. ses.given \ ses.stored) = Cardinality(Unstored(r)) - 1
        /\ 1 .. ses.given \ (ses.storing \cup ses.stored) = Failed(r)
    BY <1>0, StoredInPieces
  <2> HIDE DEF t, ses
  <2>5. t.pending = Cardinality(1 .. ses.given \ ses.stored)
    BY <1>0, <2>1, <2>4 DEF PendingAccounted
  <2>6. ses.given <= FileLen[r] /\ (~ t.fd => ses.given = FileLen[r])
    BY <1>0, <1>4, <2>1, <2>3 DEF FileRead
  <2>7. Cardinality(1 .. ses.given \ (ses.storing \cup ses.stored)) = Cardinality(Failed(r))
    BY <2>4
  <2>8. QED
    BY <1>0, <1>4, <2>1, <2>2, <2>3, <2>5, <2>6, <2>7, FdMain
<1>8. QED
  BY <1>6, <1>7 DEF put_fd_read_cb

\* put_fd_commit_cb.
LEMMA PutFdCommitCbStep ==
  ASSUME IInv, NEW r \in PutFd, put_fd_commit_cb(r)
  PROVE  IInv'
<1>0. /\ r \in Session /\ session \in [Session -> SessionType] /\ st \in [PutFd -> StateType]
      /\ session[r] \in SessionType /\ st[r] \in StateType
      /\ replies \in [PutFd -> Nat] /\ unread \in [PutFd -> Nat]
      /\ errors \in Nat /\ PutType /\ PiecesGiven
  BY FdFacts
<1>1. /\ session[r].commit = "asked" /\ UNCHANGED <<transfers, st, unread>>
      /\ replies' = [replies EXCEPT ![r] = @ + 1] /\ errors' \in Nat
  BY <1>0 DEF put_fd_commit_cb, Reply, Error
<1>2. PICK c \in {"ok", "error"} :
        session' = [session EXCEPT ![r] = [session[r] EXCEPT !.commit = c]]
  BY DEF put_fd_commit_cb
<1>3. session'[r] = [session[r] EXCEPT !.commit = c] /\ session' = [session EXCEPT ![r] = session'[r]]
  BY <1>0, <1>2
<1>4. /\ session'[r] \in SessionType
      /\ session'[r].storing = session[r].storing /\ session'[r].stored = session[r].stored
      /\ session'[r].given = session[r].given /\ session'[r].object = session[r].object
      /\ session'[r].commit = c
  BY <1>0, <1>3 DEF SessionType
<1>5. /\ st' = [st EXCEPT ![r] = st'[r]] /\ st'[r] = st[r]
      /\ unread' = [unread EXCEPT ![r] = unread'[r]] /\ unread'[r] = unread[r] /\ unread'[r] \in Nat
  BY <1>0, <1>1
<1>6. Failed(r)' = Failed(r) /\ Cardinality(Failed(r)) \in Nat
  BY <1>0, <1>4, PiecesFinite DEF Failed
<1>7. Told(r)' = 1 /\ Told(r) = 0 /\ Refused(r)' = Refused(r) /\ Refused(r) \in Nat
  BY <1>1, <1>4, <1>5 DEF Told, Refused
<1>8. Refused(r)' + unread'[r] + Cardinality(Failed(r)') + Told(r)'
         = Refused(r) + unread[r] + Cardinality(Failed(r)) + Told(r) + 1
  BY <1>0, <1>5, <1>6, <1>7
<1>9. QED
  BY <1>0, <1>1, <1>3, <1>4, <1>5, <1>8, FdReply

\* Every step keeps the invariant.
LEMMA NextIInv == IInv /\ [Next]_vars => IInv'
<1> SUFFICES ASSUME IInv, [Next]_vars PROVE IInv'
  OBVIOUS
<1> USE SessionFacts
<1>1. CASE put_init
  <2>1. /\ xferCounter \in Xfer /\ xferCounter' \in Nat \ {0}
        /\ xferTable' = xferTable \cup {xferCounter} /\ xferCounter' = xferCounter + 1
        /\ UNCHANGED <<acked, session, st, replies, unread, errors>>
    BY <1>1 DEF put_init, IInv, PutType, Xfer
  <2>2. PutType' /\ PiecesGiven'
    BY <2>1 DEF IInv, PutType, PiecesGiven
  <2>3. \A r \in PutFd : FdInv(r)'
    BY <2>1, FdSame DEF IInv
  <2>4. ASSUME NEW x \in Xfer PROVE XferInv(x)'
    BY <2>1 DEF IInv, XferInv
  <2>5. QED
    BY <2>2, <2>3, <2>4 DEF IInv
<1>2. CASE \E x \in Xfer : \/ put_data(x) \/ put_commit(x) \/ put_commit_cb(x)
                           \/ \E k \in session[x].storing : put_data_cb(x, k)
  BY <1>2, XferActions
<1>3. ASSUME NEW r \in PutFd, put_fd(r) \/ put_fd_read(r) \/ put_fd_commit_cb(r)
                                \/ \E k \in session[r].storing : put_fd_read_cb(r, k)
      PROVE  IInv'
  BY <1>3, PutFdStep, PutFdReadStep, PutFdCommitCbStep, PutFdReadCbStep
<1>4. CASE Close \/ LateCallback \/ UNCHANGED vars
  <2>1. UNCHANGED <<transfers, session, st, replies, unread, errors>>
    BY <1>4 DEF Close, LateCallback, vars
  <2>2. QED
    BY <2>1, OnlyStatus
<1>5. QED
  BY <1>1, <1>2, <1>3, <1>4 DEF Next

\* It holds in every reachable state.
LEMMA AlwaysIInv == Spec => []IInv
  BY InitIInv, NextIInv, PTL DEF Spec

-----------------------------------------------------------------------------
(* The theorems *)

\* The invariant makes committed objects complete.
LEMMA IInvComplete == IInv => CommitComplete
<1> SUFFICES ASSUME IInv PROVE CommitComplete
  OBVIOUS
<1>1. \A r \in PutFd : CommittedFile(r)
  BY DEF IInv, FdInv
<1>2. \A x \in Xfer : XferInv(x)
  BY DEF IInv
<1>3. QED
  BY <1>1, <1>2 DEF CommitComplete, CommittedFile, XferInv

\* Of the four kinds of replies that it counts, a refusal and a commit exclude
\* each other and pieces that failed.
LEMMA IInvAnsweredOnce == IInv => AnsweredOnce
<1> SUFFICES ASSUME IInv, NEW r \in PutFd, replies[r] > 1, ~ (unread[r] > 0)
             PROVE  Cardinality(Failed(r)) > 1
  BY DEF AnsweredOnce
<1>0. /\ r \in Session /\ session[r] \in SessionType
      /\ FileLen[r] \in Nat /\ PutType /\ PiecesGiven
      /\ FileRead(r) /\ CommittedFile(r) /\ RepliesAccounted(r)
  BY FdFacts
<1>1. Cardinality(Failed(r)) \in Nat
  BY <1>0, PiecesFinite
<1>2. Refused(r) + Cardinality(Failed(r)) + Told(r) > 1
  <2>1. unread[r] = 0
    BY DEF IInv, PutType
  <2>2. QED
    BY <1>0, <1>1, <2>1 DEF RepliesAccounted, Refused, Told
<1>3. st[r].state = "refused" => session[r].commit = "no" /\ Failed(r) = {}
  BY <1>0 DEF FileRead, Failed
<1>4. session[r].commit # "no" => st[r].state = "open" /\ Failed(r) = {}
  BY <1>0 DEF FileRead, CommittedFile, Failed
<1>5. Failed(r) = {} => Cardinality(Failed(r)) = 0
  BY FS_EmptySet
<1>6. QED
  BY <1>1, <1>2, <1>3, <1>4, <1>5 DEF Refused, Told

\* For every number of put_fd requests and every length of their files, an
\* object the client is told of is complete, in whatever order select, the
\* chunker and the client act and whatever pieces fail.
THEOREM CommittedObjectsComplete == Spec => []CommitComplete
  BY AlwaysIInv, IInvComplete, PTL

\* And every put_fd is answered once, but for the two double answers that
\* AnsweredOnce names.
THEOREM PutFdAnsweredOnce == Spec => []AnsweredOnce
  BY AlwaysIInv, IInvAnsweredOnce, PTL

=============================================================================

---------------------------- MODULE MCGtcdStart ----------------------------
(***************************************************************************)
(* Three processes, at most two alive at once, on two Unix sockets and one  *)
(* port.  The files: the shape of src/src/test/gcp_test.conf; the same      *)
(* with no port; that of gcp_test_opt.conf with a [sniffer] section; one    *)
(* with two lists, the gtc plugin and a line of [sniffer] that is not read; *)
(* and bad ones.                                                            *)
(***************************************************************************)
EXTENDS GtcdStart

Sniffer == <<Header("sniffer"), Words("tcp", << >>, "sniff")>>
Plain == <<Header("storage"), Words("disk", << >>, Blank),
           Header("transfer"), Words("gtc", << >>, "12000")>> \o Sniffer
NoPort == SubSeq(Plain, 1, 3) \o <<Words("gtc", << >>, Blank)>> \o Sniffer
Opt == <<Header("storage"), Words("net", <<"disk">>, Blank), Words("disk", << >>, Blank),
         Header("transfer"), Words("opt", <<"msrc", "portable">>, Blank),
         Words("msrc", <<"gtc">>, Blank), Words("gtc", << >>, "12000"),
         Words("portable", << >>, Blank)>> \o Sniffer
Middle == <<Header("storage"), Words("disk", << >>, Blank),
            Header("transfer"), Words("net", <<"opt">>, Blank),
            Words("opt", <<"gtc", "portable">>, Blank), Words("gtc", <<"msrc">>, "12000"),
            Words("portable", <<"msrc", "msrc">>, Blank), Words("msrc", << >>, Blank)>>
             \o Sniffer \o <<Words("tcp", << >>, "unread")>>
Bad == {SubSeq(Plain, 1, 4),                            \* no [sniffer]
        SubSeq(Plain, 1, 2) \o Sniffer,                 \* no [transfer]
        Plain \o Sniffer,                               \* two [sniffer]
        SubSeq(Plain, 2, 6),                            \* a line in no section
        SubSeq(Plain, 1, 4) \o <<Header("sniffer"), Header("routing")>>,
        <<Header("storage"), Words("disk", <<"net">>, Blank), Words("net", <<"disk">>, Blank),
          Header("transfer")>> \o Sniffer,              \* a cycle of plugins
        SubSeq(Plain, 1, 3) \o <<Words("gtc", << >>, "none")>> \o Sniffer,
        SubSeq(Plain, 1, 3) \o <<Words("gtc", <<"portable">>, "12000"),
                                 Words("portable", << >>, Blank)>> \o Sniffer,
        SubSeq(Plain, 1, 3) \o <<Words("smoke", << >>, Blank)>> \o Sniffer,
        SubSeq(Plain, 1, 3) \o <<Plain[4], Plain[4]>> \o Sniffer,     \* one port twice
        <<Plain[1], Words("net", <<"disk", "disk">>, Blank)>> \o Tail(Plain),
        SubSeq(Plain, 1, 5) \o <<Words("tcp", << >>, Blank)>>,         \* no socket
        SubSeq(Plain, 1, 5) \o <<Words("smoke", << >>, "tcp")>>,       \* words astray
        SubSeq(Plain, 1, 5) \o <<Words("tcp", << >>, "gtcd")>>}        \* its own socket
NoSniffer == SubSeq(Plain, 1, 4)
MCStarts ==
    [d \in 1..3 |-> [listen : {"gtcd"},
                     file : CASE d = 1 -> {Plain, NoPort, Opt, Middle, SubSeq(Plain, 1, 5)} \cup Bad
                              [] d = 2 -> {Plain, Opt, NoSniffer}
                              [] OTHER -> {Plain}]]
MCSock == {"gtcd", "sniff"}
MCPort == {"12000"}
MCDefaultPort == "12000"
MCStoragePlugins == {"disk", "net"}
MCXferPlugins == {"gtc", "msrc", "net", "opt", "portable"}
=============================================================================

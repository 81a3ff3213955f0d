----------------------------- MODULE MCNodeHome -----------------------------
(* Small instances of NodeHome.                                            *)
EXTENDS NodeHome

CONSTANTS s1, s2, t1, t2, w1, w2, c1, c2, p1, p2, p3, key, other

(* Without a word on keys all patches set the same one.                    *)
Setting(sets, faults, commands, foreground, settling, fresh) ==
  [faults |-> faults, commands |-> commands, foreground |-> foreground,
   settling |-> settling, strangers |-> {p3}, fresh |-> fresh, sets |-> sets]

Under(faults, commands, foreground, settling, fresh) ==
  Setting([c \in Setter |-> key], faults, commands, foreground, settling, fresh)

(* Two patches of different keys, and of which the first sets no known one.*)
Apart == [c \in Setter |-> IF c = c1 THEN key ELSE other]
Stripped == [c \in Setter |-> IF c = c1 THEN NoKey ELSE key]

(* Starts and stops in any order with everything failing, with a node in   *)
(* the foreground, with ids of different length; starts and stops, and     *)
(* commands that write files, one at a time with crashes, among them two   *)
(* patches of one key, of two keys, and of a key that is stripped; files   *)
(* written by several commands at once; nothing failing.                   *)
FromHostileToCalm ==
  { Under(Fault \ {"digits"}, Starter \cup Stopper, {}, TRUE, FALSE),
    Under({"overlap", "impatient", "crash"}, {s1, s2, t1}, {s2}, FALSE, FALSE),
    Under({"overlap", "impatient", "digits"}, {s1, s2, t1}, {}, FALSE, FALSE),
    Under({"crash", "refuse", "reuse"}, {s1, s2, t1, t2, w1}, {}, TRUE, TRUE),
    Under({"crash", "refuse"}, {s1, w1, w2}, {}, TRUE, TRUE),
    Under({"crash", "refuse"}, {s1, w1, c1, c2}, {}, TRUE, TRUE),
    Setting(Apart, {"crash", "refuse"}, {s1, w1, c1, c2}, {}, TRUE, TRUE),
    Setting(Stripped, {"crash"}, {s1, w1, c1, c2}, {}, TRUE, TRUE),
    Under({"overlap"}, {s1, w1, w2}, {}, TRUE, FALSE),
    Setting(Apart, {"overlap"}, {s1, c1, c2}, {}, TRUE, TRUE),
    Under({}, {s1, s2, t1, t2, w1, c1}, {}, FALSE, FALSE) }

(* One node after the other, nothing failing but ids coming round again.   *)
IdsComeRound == { Under({"reuse"}, {s1, t1}, {}, FALSE, FALSE) }

(* One node, nothing failing.                                              *)
OneNode == { Under({}, {s1}, {}, FALSE, FALSE) }
=============================================================================

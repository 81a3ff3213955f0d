---------------------------- MODULE MCDistribute ----------------------------
(* Small instances of Distribute.                                          *)
EXTENDS Distribute

CONSTANTS w1, w2, w3, r1, r2, r3

(* With or without a fixed pool: 3 units do not divide evenly.             *)
EitherPool == {NoPool, 3}

Under(faults, pools, chunkSize) ==
  [faults |-> faults, pools |-> pools, chunkSize |-> chunkSize]

(* From one dependable pass at a time to every fault at once.  A chunk of  *)
(* one plan gives several transactions, a chunk of two several plans in    *)
(* one transaction; a chunk of none and one that is not a number are what  *)
(* a mistyped --chunk gives.                                               *)
FromCalmToHostile ==
  { Under({"rpc"}, {NoPool}, 1),
    Under({"rpc"}, {NoPool}, 2),
    Under({"rpc", "crash", "overlap"}, EitherPool, 2),
    Under({"rpc", "overlap"}, EitherPool, 1),
    Under({"rpc", "confirm", "busy", "crash"}, {NoPool}, 2),
    Under(PayFault, EitherPool, 2),
    Under({"rpc", "overlap"}, EitherPool, NaN),
    Under({"rpc", "overlap"}, EitherPool, 0) }

(* Transactions that are rejected, statements that fail, a pass that dies. *)
Interrupted == { Under({"busy", "crash"}, EitherPool, 2) }

(* A confirmation that times out, then a rerun.                            *)
LostConfirmation == { Under({"confirm"}, {NoPool}, 2) }

(* Nothing fails.                                                          *)
Flawless == { Under({}, {NoPool}, 2) }
=============================================================================

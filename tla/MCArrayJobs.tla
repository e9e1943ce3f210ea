----------------------------- MODULE MCArrayJobs -----------------------------
(* Small instances of ArrayJobs: arrays of one and two tasks. *)
EXTENDS ArrayJobs, TLC

MCSortedKeys == <<"LR", "batch-size", "lr", "seed">>
MCUpper == ("batch-size" :> "BATCH-SIZE") @@ [LR |-> "LR", lr |-> "LR", seed |-> "SEED"]
MCShellNames == {"LR", "SEED"}

MCSweeps == {
    <<Flag("seed"), List(<<"8", "9">>), Flag("lr"), List(<<"a", "b">>), Flag("seed"), List(<<"1">>)>>,
    <<Flag("lr"), List(<<"a">>), Flag("LR"), List(<<"c">>), Flag("seed")>>,
    <<Flag("lr"), Flag("seed"), List(<<"1", "2">>)>>,
    <<Flag("batch-size"), List(<<"8", "16">>), Flag("seed"), List(<<"1">>)>>}
==============================================================================

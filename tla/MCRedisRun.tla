----------------------------- MODULE MCRedisRun -----------------------------
(* Instances of RedisRun.                                                  *)
EXTENDS RedisRun, TLC

Config(batch_size, distribution, nr_warmup_op, nr_op, refuses) ==
  [batch_size |-> batch_size, request_distribution |-> distribution,
   nr_warmup_op |-> nr_warmup_op, nr_op |-> nr_op, refuses |-> refuses]

SixConfigs ==
  {Config(1, "uniform", 0, 2, TRUE), Config(2, "uniform", 0, 3, TRUE),
   Config(1, "latest", 0, 3, FALSE), Config(2, "latest", 0, 3, FALSE),
   Config(2, "latest", 1, 3, FALSE), Config(3, "latest", 0, 4, FALSE)}
OneBatching == {Config(2, "uniform", 0, 2, FALSE)}

TwoKeys   == 0 :> 1 @@ 1 :> 0 @@ 2 :> 1
AllKinds  == {"READ", "UPDATE", "SCAN"}
ReadWrite == {"READ", "UPDATE"}
=============================================================================

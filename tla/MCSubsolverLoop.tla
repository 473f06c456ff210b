-------------------------- MODULE MCSubsolverLoop --------------------------
(* A synchronization agent, a full solver and a neighborhood search.       *)
EXTENDS SubsolverLoop

CONSTANTS t1, t2, agent, fs, lns

MCOrder == <<agent, fs, lns>>

Parallel == [loop |-> "non_deterministic", threads |-> {t1, t2},
             split_in_chunks |-> FALSE, batch_size |-> 1,
             max_num_batches |-> 0]
Batches == [Parallel EXCEPT !.loop = "deterministic", !.split_in_chunks = TRUE,
                            !.batch_size = 3]

(* Two threads, or one with a single batch; and no thread but the main one.*)
MCLoops ==
  { Parallel,
    Batches,
    [Batches EXCEPT !.threads = {t1}, !.max_num_batches = 1],
    [Parallel EXCEPT !.loop = "sequential", !.threads = {},
                     !.split_in_chunks = TRUE] }
=============================================================================

-------------------------------- MODULE MCBenchmark --------------------------------
(* Sizes that leave a short last range, an empty one and one that would    *)
(* begin beyond the end; a pool of no threads and one of too many.  Three  *)
(* workers: one may hash or fail while the others still start.             *)
EXTENDS Benchmark

MCSizes == {[items |-> 4, threads |-> 3], [items |-> 5, threads |-> 4],
            [items |-> 7, threads |-> 9], [items |-> 3, threads |-> 0]}
=============================================================================

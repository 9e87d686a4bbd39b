------------------------------- MODULE Redist -------------------------------
(***************************************************************************)
(* The arithmetic behind moving a mini-batch between groups of ranks: how  *)
(* a batch is cut into micro-batches ("splits") and a split into the rows  *)
(* of each rank (src/src/Common.cpp), and which rows every source rank     *)
(* sends to every destination rank (src/src/comm/SComm.cpp).               *)
(*                                                                         *)
(* A tensor is abstracted to its first dimension, the rows: the code       *)
(* multiplies every count by the product of the remaining dimensions,      *)
(* which is the same on all ranks.  Ranks are natural numbers, a rank set  *)
(* is always walked in ascending order (std::sort in the code).            *)
(***************************************************************************)
EXTENDS Integers, FiniteSets, SequencesExt

\* Number of ranks of S before r in ascending order: r's index in vec_ranks.
Position(r, S) == Cardinality({q \in S : q < r})

Ascending(S) == SetToSortSeq(S, <)

(***************************************************************************)
(* getSplitBatchSizes(batch_size, ranks, split_index).  The ranks that get *)
(* one row more than the others move on from split to split, by the number *)
(* of rows that the earlier splits, taken to be as large as this one,      *)
(* occupy.                                                                 *)
(***************************************************************************)
RankBatchSizes(batch_size, ranks, split_index) ==
    LET n      == Cardinality(ranks)
        offset == (split_index * batch_size) % n
    IN  [r \in ranks |->
            batch_size \div n
              + IF (Position(r, ranks) + n - offset) % n < batch_size % n
                THEN 1 ELSE 0]

\* getSplitBatchSizes(batch_size, split_num): rows of each split of a pass.
SplitBatchSizes(batch_size, split_num) ==
    RankBatchSizes(batch_size, 0..(split_num - 1), 0)

\* std::ceil(a / (double) b) for b > 0.
CeilDiv(a, b) == -((-a) \div b)

\* Mutant of the next definition: every split starts with rank 0 again.
LocalSplitBatchSizes_NoCarry(split_batch_sizes, world_size, rank) ==
    [i \in DOMAIN split_batch_sizes |->
        CeilDiv(split_batch_sizes[i] - rank, world_size)]

(***************************************************************************)
(* getLocalSplitBatchSizes: how many of its own rows a rank slices off for *)
(* every split, when the rows of all ranks are dealt out round-robin.      *)
(***************************************************************************)
LocalSplitBatchSizes(split_batch_sizes, world_size, rank) ==
    LET offset[i \in DOMAIN split_batch_sizes] ==
          IF i = 0 THEN rank
          ELSE offset[i - 1] - split_batch_sizes[i - 1]
                 + world_size * CeilDiv(split_batch_sizes[i - 1] - offset[i - 1],
                                        world_size)
    IN  [i \in DOMAIN split_batch_sizes |->
            CeilDiv(split_batch_sizes[i] - offset[i], world_size)]

\* calcDistBatchDims: the rows of a tensor with dim rows held by each rank.
DistBatchRows(batch_size, dim, ranks, split_index) ==
    LET bs == RankBatchSizes(batch_size, ranks, split_index)
    IN  [r \in ranks |-> (dim * bs[r]) \div batch_size]

\* Mutant of the next definition: the displacement of a peer is lost.
PeerStep_NoDispl(from, to, peer_rows, acc, p) ==
    LET peer_to == acc.peer_from + peer_rows[p]
        at      == from + acc.offset
        shared  == IF to - at < peer_to - at THEN to - at ELSE peer_to - at
        taken   == IF at <= peer_to
                   THEN [acc EXCEPT !.count[p] = shared,
                                    !.offset   = acc.offset + shared]
                   ELSE acc
        moved   == [taken EXCEPT !.peer_from = peer_to]
    IN  IF acc.done THEN acc
        ELSE [moved EXCEPT !.done = (from + moved.offset = to)]

(***************************************************************************)
(* One side of the redistribution, the loop that getRedistArgsSend and     *)
(* getRedistArgsRecv share: my rank owns the rows from..to of the global   *)
(* tensor, the peers own consecutive ranges of their own.  The loop walks  *)
(* the peers in ascending order, takes from each the rows it shares with   *)
(* me, and stops once all my rows are accounted for.                       *)
(*   count[p]  rows exchanged with peer p   (sendcounts / recvcounts)      *)
(*   displ[p]  where they lie in my buffer  (sdispls / rdispls)            *)
(***************************************************************************)
PeerStep(from, to, peer_rows, acc, p) ==
    LET peer_to == acc.peer_from + peer_rows[p]
        at      == from + acc.offset
        shared  == IF to - at < peer_to - at THEN to - at ELSE peer_to - at
        taken   == IF at <= peer_to
                   THEN [acc EXCEPT !.count[p] = shared,
                                    !.displ[p] = acc.offset,
                                    !.offset   = acc.offset + shared]
                   ELSE acc
        moved   == [taken EXCEPT !.peer_from = peer_to]
    IN  IF acc.done THEN acc
        ELSE [moved EXCEPT !.done = (from + moved.offset = to)]

WalkPeers(me, my_rows, peer_rows) ==
    LET mine  == DOMAIN my_rows
        peers == DOMAIN peer_rows
        from  == SumFunctionOnSet(my_rows, {r \in mine : r < me})
        to    == from + my_rows[me]
        start == [count     |-> [p \in peers |-> 0],
                  displ     |-> [p \in peers |-> 0],
                  offset    |-> 0,
                  peer_from |-> 0,
                  done      |-> FALSE]
    IN  FoldLeft(LAMBDA acc, p : PeerStep(from, to, peer_rows, acc, p),
                 start, Ascending(peers))

\* getRedistArgs for a source rank: what it sends to every destination.
RedistArgsSend(me, batch_size, dim, srcs, dests, split_index) ==
    WalkPeers(me, DistBatchRows(batch_size, dim, srcs, split_index),
                  DistBatchRows(batch_size, dim, dests, split_index))

\* Mutant of the next definition: the split is not taken into account.
RedistArgsRecv_FirstSplit(me, batch_size, dim, srcs, dests, split_index) ==
    WalkPeers(me, DistBatchRows(batch_size, dim, dests, 0),
                  DistBatchRows(batch_size, dim, srcs, 0))

\* getRedistArgs for a destination rank: what it expects from every source.
RedistArgsRecv(me, batch_size, dim, srcs, dests, split_index) ==
    WalkPeers(me, DistBatchRows(batch_size, dim, dests, split_index),
                  DistBatchRows(batch_size, dim, srcs, split_index))

=============================================================================

---------------------------- MODULE InsertionSet ----------------------------
(***************************************************************************)
(* The Insertion Set of spec.md section 4.3 (DFGInsertionSet.h, which is  *)
(* not part of this repository).  The fixup phase queues new nodes with   *)
(* insertNode(m_indexInBlock, ...) while it walks a block, and            *)
(* execute(block) materialises the queue once the walk is over.           *)
(*                                                                         *)
(* An insertion is a record [pos |-> p, node |-> n]: node n goes in front *)
(* of the node that had index p (0-based) in the block before the flush.  *)
(* Insertions with the same position keep the order they were queued in. *)
(***************************************************************************)
EXTENDS Naturals, Sequences, SequencesExt

\* The nodes queued at pre-flush position p, first queued first.
NodesQueuedAt(insertions, p) ==
    LET AtP(r) == r.pos = p
        rs     == SelectSeq(insertions, AtP)
    IN  [k \in 1..Len(rs) |-> rs[k].node]

\* InsertionSet::execute: the block after all queued nodes are placed.
Execute(block, insertions) ==
    FlattenSeq([i \in 1..Len(block) + 1 |->
                  NodesQueuedAt(insertions, i - 1)
                  \o (IF i <= Len(block) THEN <<block[i]>> ELSE <<>>)])
=============================================================================

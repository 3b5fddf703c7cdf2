------------------------------ MODULE PushLoop -------------------------------
(***************************************************************************)
(* ThreadPool::push_loop (utils/thread_pool.h): a range of indices is cut  *)
(* into blocks, and each block is pushed as a task of its own: the loop    *)
(* function with the first index of the block and the index after its      *)
(* last.                                                                   *)
(*                                                                         *)
(* The ends may be of two integer types; both are converted to the common  *)
(* one, T, in which the ends of the blocks are computed.  When T is signed *)
(* it must hold the length of the range too: a longer one overflows        *)
(* index_after_last - first_index, which is undefined.                     *)
(***************************************************************************)
EXTENDS Integers, Sequences

CONSTANTS
  thread_count,   \* of the pool
  Width,          \* 2 to the number of bits of T
  Types,          \* what T is: signed or unsigned
  Indices,        \* what first_index_ and index_after_last_ are taken from
  BlockCounts,    \* what num_blocks is taken from; 0 is the default
  LoopArguments   \* how the callers pass the loop function

ASSUME LoopAssumption ==
  /\ thread_count \in Nat \ {0}
  /\ Width \in Nat \ {0}
  /\ Width % 2 = 0
  /\ Types \subseteq {"signed", "unsigned"}
  /\ Indices \subseteq Int
  /\ BlockCounts \subseteq Nat
  /\ LoopArguments \subseteq {"lvalue", "rvalue"}

VARIABLES
  call,     \* the arguments: first, after, num_blocks, argument, and T (type)
  range,    \* first_index, index_after_last, block_size, num_blocks
  i,        \* the index of the block to push next
  loop,     \* the loop function: whole, or what a move leaves of it
  blocks,   \* the tasks pushed: from, to, loop
  pc

vars == <<call, range, i, loop, blocks, pc>>

(* static_cast<T>; a sum in T, or in the int a narrow T is promoted to and *)
(* the loop function takes a T from, is converted too.                     *)
InT(type) ==
  IF type = "unsigned" THEN 0 .. Width - 1
  ELSE -(Width \div 2) .. (Width \div 2) - 1
Convert(x) ==
  IF call.type = "unsigned" THEN x % Width
  ELSE ((x + (Width \div 2)) % Width) - (Width \div 2)

(* Faulty variants: the division is rounded up; an empty range has no      *)
(* block; the last block is as long as the others.                         *)
BlockSizeUp(total, num) == (total + num - 1) \div num
FewBlocksOrNone(total) == total
BlockEndEven(r, k) == Convert(Convert((k + 1) * r.size) + r.first)

(* block_size as it is divided; num_blocks where there are fewer indices   *)
(* than blocks; the index after the k-th block's last.                     *)
BlockSize(total, num) == total \div num
FewBlocks(total) == IF total > 1 THEN total ELSE 1
BlockEnd(r, k) ==
  IF k = r.num - 1 THEN r.after ELSE Convert(Convert((k + 1) * r.size) + r.first)

first_index == Convert(call.first)
index_after_last == Convert(call.after)
Lower == IF index_after_last < first_index THEN index_after_last ELSE first_index
Upper == IF index_after_last < first_index THEN first_index ELSE index_after_last
MaxBlocks == IF call.num_blocks = 0 THEN thread_count ELSE call.num_blocks

(* The lines before the loop.                                              *)
Split ==
  LET total == Upper - Lower
      size == BlockSize(total, MaxBlocks)
  IN [first |-> Lower, after |-> Upper,
      size |-> IF size = 0 THEN 1 ELSE size,
      num |-> IF size = 0 THEN FewBlocks(total) ELSE MaxBlocks]

push_loop ==
  /\ pc = "call"
  /\ range' = Split
  /\ pc' = IF Upper - Lower > 0 THEN "push" ELSE "done"
  /\ UNCHANGED <<call, i, loop, blocks>>

(* push_task binds std::forward<F>(loop): a copy of an lvalue; an rvalue   *)
(* is moved into the task, and a moved-from function is what the caller's  *)
(* loop then holds (of a type whose moves do leave something else behind). *)
push_block ==
  /\ pc = "push"
  /\ blocks' = Append(blocks,
       [from |-> Convert(Convert(i * range.size) + range.first),
        to |-> BlockEnd(range, i),
        loop |-> loop])
  /\ loop' = IF call.argument = "rvalue" THEN "moved_from" ELSE loop
  /\ i' = i + 1
  /\ pc' = IF i' < range.num THEN "push" ELSE "done"
  /\ UNCHANGED <<call, range>>

Terminating == pc = "done" /\ UNCHANGED vars

(* A signed T holds both ends, as it is the type of one of them and at     *)
(* least as wide as the other's, and the length.                           *)
Calls ==
  {c \in [first : Indices, after : Indices, num_blocks : BlockCounts,
          argument : LoopArguments, type : Types] :
     c.type = "signed" =>
       {c.first, c.after, c.first - c.after, c.after - c.first} \subseteq InT("signed")}

Init ==
  /\ call \in Calls
  /\ range = [first |-> 0, after |-> 0, size |-> 1, num |-> 1]
  /\ i = 0
  /\ loop = "whole"
  /\ blocks = <<>>
  /\ pc = "call"

Next == push_loop \/ push_block \/ Terminating

Spec == Init /\ [][Next]_vars
-----------------------------------------------------------------------------
(* Every variable has its type; the loop pushes at most num_blocks blocks. *)
TypeOK ==
  /\ call \in Calls
  /\ range \in [first : Int, after : Int, size : Nat \ {0}, num : Nat \ {0}]
  /\ i \in 0 .. range.num
  /\ loop \in {"whole", "moved_from"}
  /\ blocks \in Seq([from : Int, to : Int, loop : {"whole", "moved_from"}])
  /\ pc \in {"call", "push", "done"}

(* Every index of the range, whichever end was given first, is in exactly  *)
(* one block, and no block is empty: each begins where the one before it   *)
(* ends (thread_pool.h:76-93).                                             *)
BlocksTile ==
  /\ \A k \in 1 .. Len(blocks) :
       /\ blocks[k].from < blocks[k].to
       /\ blocks[k].from = IF k = 1 THEN Lower ELSE blocks[k - 1].to
  /\ pc = "done" => IF blocks = <<>> THEN Lower = Upper
                    ELSE blocks[Len(blocks)].to = Upper

(* There are never more blocks than asked for, none is smaller than the    *)
(* others but the last, and the last takes what the division leaves        *)
(* (thread_pool.h:71, 83-92).                                              *)
BlocksBalanced ==
  /\ Len(blocks) <= MaxBlocks
  /\ \A k \in 1 .. Len(blocks) :
       LET size == blocks[k].to - blocks[k].from IN
       IF k < range.num THEN size = range.size
       ELSE range.size <= size /\ size < range.size + MaxBlocks

(* "The function to loop through. Will be called once per block"           *)
(* (thread_pool.h:70): every block has the function.                       *)
BlocksCallable == \A k \in 1 .. Len(blocks) : blocks[k].loop = "whole"

(* "It will be equivalent to for (T i = first_index; i < index_after_last; *)
(* ++i)" (thread_pool.h:69): the blocks have no other index.               *)
LoopsAsFor ==
  \A k \in 1 .. Len(blocks) :
    \A x \in blocks[k].from .. blocks[k].to - 1 :
      first_index <= x /\ x < index_after_last
=============================================================================

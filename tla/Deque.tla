------------------------------- MODULE Deque -------------------------------
(***************************************************************************)
(* What kqueue.h promises: a queue that elements are inserted into and     *)
(* removed from at both ends, from which the users of its iterators remove *)
(* the first occurrence of an element.                                     *)
(***************************************************************************)
EXTENDS Naturals, Sequences, SequencesExt

CONSTANTS
    Values,         \* the elements
    Nothing         \* what a pop returns from an empty queue: `false'

VARIABLES
    contents,       \* the elements, from the front to the back
    popped          \* the result of the last pop

Init == contents = <<>> /\ popped = Nothing

PushFront(v) == contents' = <<v>> \o contents /\ UNCHANGED popped
PushBack(v) == contents' = Append(contents, v) /\ UNCHANGED popped

PopEmpty == contents = <<>> /\ popped' = Nothing /\ UNCHANGED contents
PopFront ==
    /\ contents # <<>>
    /\ popped' = Head(contents)
    /\ contents' = Tail(contents)
PopBack ==
    /\ contents # <<>>
    /\ popped' = contents[Len(contents)]
    /\ contents' = SubSeq(contents, 1, Len(contents) - 1)

RemoveValue(v) ==
    /\ contents' = RemoveFirst(contents, v)
    /\ UNCHANGED popped

Clear == contents' = <<>> /\ UNCHANGED popped

Next ==
    \/ \E v \in Values : PushFront(v) \/ PushBack(v) \/ RemoveValue(v)
    \/ PopEmpty \/ PopFront \/ PopBack \/ Clear

Spec == Init /\ [][Next]_<<contents, popped>>
=============================================================================

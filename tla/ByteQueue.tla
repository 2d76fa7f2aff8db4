------------------------------- MODULE ByteQueue -------------------------------
(***************************************************************************)
(* What Buffer promises its users: a sequence of bytes, appended at the    *)
(* end, taken or put back at the front, without a thought of where in      *)
(* memory they are.  call is what the last call put in or gave out.        *)
(***************************************************************************)
EXTENDS Integers, Sequences

CONSTANT Data           \* the sequences of bytes that are put in

VARIABLES content, call

Init == /\ content = <<>>
        /\ call = <<"new">>

Put(data) == /\ content' = content \o data
             /\ call' = <<"put", data>>

Take(n) == /\ content' = SubSeq(content, n + 1, Len(content))
           /\ call' = <<"take", SubSeq(content, 1, n)>>

Unput(n) == /\ content' = SubSeq(content, 1, Len(content) - n)
            /\ call' = <<"unput", n>>

Untake(data) == /\ content' = data \o content
                /\ call' = <<"untake", data>>

Arrange == /\ UNCHANGED content
           /\ call' = <<"arrange">>

Next == \/ \E data \in Data : Put(data) \/ Untake(data)
        \/ \E n \in 0 .. Len(content) : Take(n) \/ Unput(n)
        \/ Arrange

Spec == Init /\ [][Next]_<<content, call>>
================================================================================

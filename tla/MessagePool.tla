----------------------------- MODULE MessagePool ----------------------------
(***************************************************************************)
(* MessagePool: acquire and the release that the last shared_ptr's deleter *)
(* calls.  A holder is one acquisition with all the copies of its          *)
(* shared_ptr; objects are numbered as new returns them, 0 is none.  Both  *)
(* operations run under mutex_ and are one step each.                      *)
(***************************************************************************)
EXTENDS Integers, Sequences, FiniteSets

CONSTANTS
    Holders,        \* acquisitions that may be live at a time
    Values,         \* contents of a message
    NoValue         \* written[h] before the first acquisition

VARIABLES
    pool_,          \* objects to be reused, the last one first
    made,           \* objects made by new
    content,        \* per object its fields
    held,           \* per holder its object
    written         \* history: per holder what it last put into its message

vars == <<pool_, made, content, held, written>>

Live == {h \in Holders : held[h] # 0}

Init ==
    /\ pool_ = <<>> /\ made = 0
    /\ content = <<>>
    /\ held = [h \in Holders |-> 0]
    /\ written = [h \in Holders |-> NoValue]

-----------------------------------------------------------------------------

\* pool_.empty().
Empty == pool_ = <<>>

\* acquire, the pool being empty: new.
AcquireNew(h, v) ==
    /\ held[h] = 0 /\ Empty
    /\ made' = made + 1
    /\ content' = [o \in 1..made' |-> IF o = made' THEN v ELSE content[o]]
    /\ held' = [held EXCEPT ![h] = made']
    /\ written' = [written EXCEPT ![h] = v]
    /\ UNCHANGED pool_

\* pop_back.
Rest(p) == SubSeq(p, 1, Len(p) - 1)

\* ~Message and the placement new with the arguments.
Constructed(o, v) == [content EXCEPT ![o] = v]

\* acquire from the pool: the object released last.
AcquirePooled(h, v) ==
    /\ held[h] = 0 /\ pool_ # <<>>
    /\ pool_' = Rest(pool_)
    /\ content' = Constructed(pool_[Len(pool_)], v)
    /\ held' = [held EXCEPT ![h] = pool_[Len(pool_)]]
    /\ written' = [written EXCEPT ![h] = v]
    /\ UNCHANGED made

\* A holder changes its message's fields: Agent and AgentTcpSession reuse theirs.
Write(h, v) ==
    /\ held[h] # 0
    /\ content' = [content EXCEPT ![held[h]] = v]
    /\ written' = [written EXCEPT ![h] = v]
    /\ UNCHANGED <<pool_, made, held>>

\* push_back.
Released(o) == Append(pool_, o)

\* The last shared_ptr goes: release, which leaves the fields.
Release(h) ==
    /\ held[h] # 0
    /\ pool_' = Released(held[h])
    /\ held' = [held EXCEPT ![h] = 0]
    /\ UNCHANGED <<made, content, written>>

Next == \E h \in Holders :
    \/ Release(h)
    \/ \E v \in Values : AcquireNew(h, v) \/ AcquirePooled(h, v) \/ Write(h, v)

Spec == Init /\ [][Next]_vars

-----------------------------------------------------------------------------
(* Properties.                                                              *)

\* A holder's message is its own: it has what the holder last put there, never the
\* fields of the message that was in this memory before, nor another holder's.
OwnMessage == \A h \in Live : content[held[h]] = written[h]

\* The pool does not grow by use: no more objects are ever made than messages can be
\* live at a time, although it frees none.
PoolIsBounded == made <= Cardinality(Holders)
=============================================================================

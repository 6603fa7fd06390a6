------------------------ MODULE JsonPatching_proofs ------------------------
(* The caller's objects are left alone and the working document is a tree,   *)
(* for every heap, target, patch and merge patch a caller can pass.          *)
EXTENDS JsonPatching, FiniteSetTheorems, SequenceTheorems, NaturalsInduction,
        WellFoundedInduction, TLAPS

-----------------------------------------------------------------------------
(* What is true of the heap at every moment.                                 *)

(* A value: one that was given, or a reference.                              *)
Value == Nat \cup CallerValue
Nodes ==
    [kind : {"array"}, items : Seq(Value)]
    \cup UNION {[kind : {"object"}, items : [names -> Value]] : names \in SUBSET Token}

(* A number leads to a node, so that no new node is found by an old value.   *)
Known(heap, v) == v \in Nat => v \in DOMAIN heap

TypedHeap(heap) ==
    /\ heap \in Seq(Nodes)
    /\ \A r \in DOMAIN heap : \A key \in DOMAIN heap[r].items : Known(heap, heap[r].items[key])

KeepsCaller(heap) ==
    Len(CallerHeap) <= Len(heap) /\ \A r \in DOMAIN CallerHeap : heap[r] = CallerHeap[r]

(* The nodes the code made.  None of them leads to one of the caller's, and  *)
(* there is one way at most to each.                                         *)
Own(heap) == DOMAIN heap \ DOMAIN CallerHeap
OwnItems(heap) ==
    \A r \in Own(heap) : \A key \in DOMAIN heap[r].items :
        heap[r].items[key] \notin DOMAIN CallerHeap
HeldOnce(heap) ==
    \A r, s \in Own(heap) : \A key \in DOMAIN heap[r].items, other \in DOMAIN heap[s].items :
        heap[r].items[key] = heap[s].items[other] /\ heap[r].items[key] \in DOMAIN heap
            => r = s /\ key = other

Sound(heap) == TypedHeap(heap) /\ KeepsCaller(heap) /\ OwnItems(heap) /\ HeldOnce(heap)

Held(heap, v) == \E r \in Own(heap) : \E key \in DOMAIN heap[r].items : heap[r].items[key] = v

(* A value that can be put somewhere: it is nowhere yet.                     *)
Loose(heap, v) ==
    /\ v \in Value /\ Known(heap, v) /\ v \notin DOMAIN CallerHeap
    /\ v \in DOMAIN heap => ~Held(heap, v)

(* A value that a handler can be given: one of the caller's, or of the heap. *)
Usable(heap, v) == v \in Value /\ Known(heap, v)

(* An array has a sequence of items, an object a function from names.        *)
LEMMA NodeFacts ==
    ASSUME NEW node \in Nodes
    PROVE  /\ node.items \in [DOMAIN node.items -> Value]
           /\ node = [kind |-> node.kind, items |-> node.items]
           /\ \/ node.kind = "array" /\ node.items \in Seq(Value)
              \/ node.kind = "object" /\ DOMAIN node.items \in SUBSET Token
<1>1. CASE node \in [kind : {"array"}, items : Seq(Value)]
  <2>1. node.kind = "array" /\ node.items \in Seq(Value)
        /\ node = [kind |-> node.kind, items |-> node.items]
    BY <1>1
  <2> QED BY <2>1
<1>2. CASE node \notin [kind : {"array"}, items : Seq(Value)]
  <2>1. PICK names \in SUBSET Token : node \in [kind : {"object"}, items : [names -> Value]]
    BY <1>2 DEF Nodes
  <2>2. node.kind = "object" /\ node.items \in [names -> Value]
        /\ node = [kind |-> node.kind, items |-> node.items]
    BY <2>1
  <2> QED BY <2>2
<1> QED BY <1>1, <1>2

(* What is a node.                                                           *)
LEMMA NodesFromParts ==
    /\ \A items \in Seq(Value) : [kind |-> "array", items |-> items] \in Nodes
    /\ \A names \in SUBSET Token : \A items \in [names -> Value] :
          [kind |-> "object", items |-> items] \in Nodes
BY DEF Nodes

(* The caller's objects are nodes of its values.                             *)
LEMMA ValuesAreGiven ==
    /\ Missing \in Value /\ Missing \notin Nat /\ Null \in Value
    /\ \A r \in DOMAIN CallerHeap : CallerHeap[r] \in Nodes
    /\ CallerHeap \in Seq(Nodes) /\ DOMAIN CallerHeap = 1..Len(CallerHeap) /\ Len(CallerHeap) \in Nat
    /\ CallerValue \subseteq Value
    /\ \A v \in CallerValue : v \in Nat => v \in DOMAIN CallerHeap
<1>1. Missing \in CallerValue /\ Null \in CallerValue /\ CallerValue \subseteq Value
  BY DEF CallerValue, Value
<1>2. ASSUME NEW r \in DOMAIN CallerHeap PROVE CallerHeap[r] \in Nodes
  <2>1. IsNode(CallerHeap[r], CallerValue)
    BY CallerAssumption
  <2>2. Seq(CallerValue) \subseteq Seq(Value)
    BY <1>1
  <2>3. CASE CallerHeap[r] \in [kind : {"array"}, items : Seq(CallerValue)]
    BY <2>2, <2>3 DEF Nodes
  <2>4. ASSUME NEW names \in SUBSET Token,
               CallerHeap[r] \in [kind : {"object"}, items : [names -> CallerValue]]
        PROVE  CallerHeap[r] \in Nodes
    <3>1. CallerHeap[r] \in [kind : {"object"}, items : [names -> Value]]
      BY <1>1, <2>4
    <3> QED BY <3>1 DEF Nodes
  <2> QED BY <2>1, <2>3, <2>4 DEF IsNode
<1>3. DOMAIN CallerHeap = 1..Len(CallerHeap) /\ Len(CallerHeap) \in Nat
  <2>1. CallerHeap = [r \in 1..Len(CallerHeap) |-> CallerHeap[r]]
    BY CallerAssumption
  <2>2. DOMAIN CallerHeap = DOMAIN [r \in 1..Len(CallerHeap) |-> CallerHeap[r]]
    BY <2>1
  <2> QED BY <2>2, CallerAssumption
<1>4. CallerHeap \in Seq(Nodes)
  <2> DEFINE n == Len(CallerHeap)
  <2>1. CallerHeap = [r \in 1..n |-> CallerHeap[r]] /\ n \in Nat
    BY CallerAssumption
  <2>2. \A r \in 1..n : CallerHeap[r] \in Nodes
    BY <1>2, <1>3
  <2> HIDE DEF n
  <2>3. [r \in 1..n |-> CallerHeap[r]] \in Seq(Nodes)
    BY <2>1, <2>2
  <2> QED BY <2>1, <2>3
<1> QED BY <1>1, <1>2, <1>3, <1>4, CallerAssumption

(* What is in a sound heap.                                                  *)
LEMMA SoundFacts ==
    ASSUME NEW heap, Sound(heap)
    PROVE  /\ heap \in Seq(Nodes) /\ DOMAIN heap = 1..Len(heap) /\ Len(heap) \in Nat
           /\ DOMAIN CallerHeap \subseteq DOMAIN heap
           /\ \A r \in DOMAIN heap : heap[r] \in Nodes
           /\ \A r \in DOMAIN heap : \A key \in DOMAIN heap[r].items :
                 heap[r].items[key] \in Value /\ Known(heap, heap[r].items[key])
<1>1. /\ heap \in Seq(Nodes) /\ DOMAIN heap = 1..Len(heap) /\ Len(heap) \in Nat
      /\ \A r \in DOMAIN heap : heap[r] \in Nodes
  BY DEF Sound, TypedHeap
<1>2. DOMAIN CallerHeap \subseteq DOMAIN heap
  BY <1>1, ValuesAreGiven DEF Sound, KeepsCaller
<1>3. ASSUME NEW r \in DOMAIN heap, NEW key \in DOMAIN heap[r].items
      PROVE  heap[r].items[key] \in Value
  <2>1. heap[r].items \in [DOMAIN heap[r].items -> Value]
    BY <1>1, NodeFacts
  <2> QED BY <2>1
<1> QED BY <1>1, <1>2, <1>3 DEF Sound, TypedHeap

(* New nodes that lead to each other only, once to each, change nothing.     *)
LEMMA Extended ==
    ASSUME NEW heap, Sound(heap), NEW new \in Seq(Nodes),
           \A n \in DOMAIN new : \A key \in DOMAIN new[n].items :
              \/ new[n].items[key] \notin Nat
              \/ new[n].items[key] \in (Len(heap) + 1)..(Len(heap) + Len(new)),
           \A n, m \in DOMAIN new :
              \A key \in DOMAIN new[n].items, other \in DOMAIN new[m].items :
                 new[n].items[key] = new[m].items[other] /\ new[n].items[key] \in Nat
                     => n = m /\ key = other
    PROVE  /\ Sound(heap \o new)
           /\ DOMAIN heap \subseteq DOMAIN (heap \o new)
           /\ \A v : Usable(heap, v) => Usable(heap \o new, v)
           /\ \A v : Loose(heap, v) => Loose(heap \o new, v)
           /\ \A v \in (Len(heap) + 1)..(Len(heap) + Len(new)) :
                 (\A n \in DOMAIN new : \A key \in DOMAIN new[n].items : new[n].items[key] # v)
                     => Loose(heap \o new, v)
<1> DEFINE more == heap \o new
<1>1. /\ heap \in Seq(Nodes) /\ DOMAIN heap = 1..Len(heap) /\ Len(heap) \in Nat
      /\ DOMAIN CallerHeap \subseteq DOMAIN heap
      /\ \A r \in DOMAIN heap : \A key \in DOMAIN heap[r].items :
            heap[r].items[key] \in Value /\ Known(heap, heap[r].items[key])
  BY SoundFacts
<1>2. DOMAIN new = 1..Len(new) /\ Len(new) \in Nat
  OBVIOUS
<1>3. /\ more \in Seq(Nodes) /\ DOMAIN more = 1..(Len(heap) + Len(new))
      /\ Len(more) = Len(heap) + Len(new)
      /\ \A r \in DOMAIN heap : more[r] = heap[r]
      /\ \A r \in DOMAIN more : r \notin DOMAIN heap =>
            r - Len(heap) \in DOMAIN new /\ more[r] = new[r - Len(heap)]
  BY <1>1, <1>2
<1> HIDE DEF more
<1>4. /\ DOMAIN heap \subseteq DOMAIN more
      /\ \A v \in (Len(heap) + 1)..(Len(heap) + Len(new)) :
            v \in DOMAIN more /\ v \notin DOMAIN heap /\ v \in Nat
  BY <1>1, <1>2, <1>3
<1>5. DOMAIN CallerHeap \subseteq Nat /\ DOMAIN heap \subseteq Nat
  BY <1>1
<1>6. \A r \in DOMAIN more : \A key \in DOMAIN more[r].items : Known(more, more[r].items[key])
  <2> SUFFICES ASSUME NEW r \in DOMAIN more, NEW key \in DOMAIN more[r].items
      PROVE  Known(more, more[r].items[key])
    OBVIOUS
  <2>1. CASE r \in DOMAIN heap
    BY <1>1, <1>3, <1>4, <2>1 DEF Known
  <2>2. CASE r \notin DOMAIN heap
    BY <1>3, <1>4, <2>2 DEF Known
  <2> QED BY <2>1, <2>2
<1>7. TypedHeap(more)
  BY <1>3, <1>6 DEF TypedHeap
<1>8. KeepsCaller(more)
  BY <1>1, <1>2, <1>3, ValuesAreGiven DEF Sound, KeepsCaller
<1>9. OwnItems(more)
  <2> SUFFICES ASSUME NEW r \in Own(more), NEW key \in DOMAIN more[r].items
      PROVE  more[r].items[key] \notin DOMAIN CallerHeap
    BY DEF OwnItems
  <2>1. CASE r \in DOMAIN heap
    BY <1>3, <2>1 DEF Own, Sound, OwnItems
  <2>2. CASE r \notin DOMAIN heap
    <3>1. r - Len(heap) \in DOMAIN new /\ more[r] = new[r - Len(heap)]
      BY <1>3, <2>2 DEF Own
    <3> QED BY <1>1, <1>4, <1>5, <3>1
  <2> QED BY <2>1, <2>2
<1>10. HeldOnce(more)
  <2> SUFFICES ASSUME NEW r \in Own(more), NEW s \in Own(more),
                      NEW key \in DOMAIN more[r].items, NEW other \in DOMAIN more[s].items,
                      more[r].items[key] = more[s].items[other], more[r].items[key] \in DOMAIN more
      PROVE  r = s /\ key = other
    BY DEF HeldOnce
  <2>1. r \in DOMAIN more /\ s \in DOMAIN more /\ r \notin DOMAIN CallerHeap /\ s \notin DOMAIN CallerHeap
    BY DEF Own
  <2>2. more[r].items[key] \in Nat
    BY <1>1, <1>2, <1>3
  <2>3. CASE r \in DOMAIN heap /\ s \in DOMAIN heap
    <3>1. more[r] = heap[r] /\ more[s] = heap[s]
      BY <1>3, <2>3
    <3>2. heap[r].items[key] \in DOMAIN heap
      BY <1>1, <2>2, <2>3, <3>1 DEF Known
    <3> QED BY <2>1, <2>3, <3>1, <3>2 DEF Sound, HeldOnce, Own
  <2>4. CASE r \in DOMAIN heap /\ s \notin DOMAIN heap
    <3>1. more[r] = heap[r] /\ s - Len(heap) \in DOMAIN new /\ more[s] = new[s - Len(heap)]
      BY <1>3, <2>1, <2>4
    <3>2. heap[r].items[key] \in DOMAIN heap
      BY <1>1, <2>2, <2>4, <3>1 DEF Known
    <3> QED BY <1>4, <2>2, <3>1, <3>2
  <2>5. CASE r \notin DOMAIN heap /\ s \in DOMAIN heap
    <3>1. more[s] = heap[s] /\ r - Len(heap) \in DOMAIN new /\ more[r] = new[r - Len(heap)]
      BY <1>3, <2>1, <2>5
    <3>2. heap[s].items[other] \in DOMAIN heap
      BY <1>1, <2>2, <2>5, <3>1 DEF Known
    <3> QED BY <1>4, <2>2, <3>1, <3>2
  <2>6. CASE r \notin DOMAIN heap /\ s \notin DOMAIN heap
    <3>1. /\ r - Len(heap) \in DOMAIN new /\ more[r] = new[r - Len(heap)]
          /\ s - Len(heap) \in DOMAIN new /\ more[s] = new[s - Len(heap)]
      BY <1>3, <2>1, <2>6
    <3>2. r - Len(heap) = s - Len(heap) /\ key = other
      BY <2>2, <3>1
    <3> QED BY <1>1, <1>3, <2>1, <3>2
  <2> QED BY <2>3, <2>4, <2>5, <2>6
<1>11. Sound(more)
  BY <1>7, <1>8, <1>9, <1>10 DEF Sound
<1>12. ASSUME NEW v, Usable(heap, v) PROVE Usable(more, v)
  BY <1>4, <1>12 DEF Usable, Known
<1>13. ASSUME NEW v, Loose(heap, v) PROVE Loose(more, v)
  <2>1. v \in Value /\ Known(more, v) /\ v \notin DOMAIN CallerHeap
    BY <1>4, <1>13 DEF Loose, Known
  <2>2. ASSUME v \in DOMAIN more, NEW r \in Own(more), NEW key \in DOMAIN more[r].items,
               more[r].items[key] = v
        PROVE  FALSE
    <3>1. v \in Nat
      BY <1>1, <1>2, <1>3, <2>2
    <3>2. v \in DOMAIN heap
      BY <1>13, <3>1 DEF Loose, Known
    <3>3. CASE r \in DOMAIN heap
      BY <1>3, <1>13, <2>2, <3>2, <3>3 DEF Loose, Held, Own
    <3>4. CASE r \notin DOMAIN heap
      BY <1>3, <1>4, <2>2, <3>1, <3>2, <3>4 DEF Own
    <3> QED BY <3>3, <3>4
  <2> QED BY <2>1, <2>2 DEF Loose, Held
<1>14. ASSUME NEW v \in (Len(heap) + 1)..(Len(heap) + Len(new)),
              \A n \in DOMAIN new : \A key \in DOMAIN new[n].items : new[n].items[key] # v
       PROVE  Loose(more, v)
  <2>1. v \in Value /\ Known(more, v) /\ v \notin DOMAIN CallerHeap /\ v \notin DOMAIN heap /\ v \in Nat
    BY <1>1, <1>4 DEF Value, Known
  <2>2. ASSUME NEW r \in Own(more), NEW key \in DOMAIN more[r].items, more[r].items[key] = v
        PROVE  FALSE
    <3>1. CASE r \in DOMAIN heap
      BY <1>1, <1>3, <2>1, <2>2, <3>1 DEF Known
    <3>2. CASE r \notin DOMAIN heap
      BY <1>3, <1>14, <2>2, <3>2 DEF Own
    <3> QED BY <3>1, <3>2
  <2> QED BY <2>1, <2>2 DEF Loose, Held
<1> QED BY <1>4, <1>11, <1>12, <1>13, <1>14 DEF more


(* The items of one node of the code's own change: each is one it had, or a  *)
(* value that was nowhere, and none is there twice.                          *)
CanEdit(heap, at, v, items) ==
    /\ Sound(heap) /\ at \in Own(heap) /\ Loose(heap, v)
    /\ [kind |-> heap[at].kind, items |-> items] \in Nodes
    /\ \A key \in DOMAIN items :
          items[key] = v \/ \E old \in DOMAIN heap[at].items : items[key] = heap[at].items[old]
    /\ \A key, other \in DOMAIN items :
          items[key] = items[other] /\ items[key] \in DOMAIN heap => key = other

IsEdited(heap, at, items, edited) == edited = [heap EXCEPT ![at].items = items]

(* A node edited so leaves the heap sound; what was loose stays so, but for  *)
(* the value that was put there, and what is in the node no more gets loose. *)
LEMMA Edited ==
    ASSUME NEW heap, NEW at, NEW v, NEW items, CanEdit(heap, at, v, items),
           NEW edited, IsEdited(heap, at, items, edited)
    PROVE  /\ Sound(edited) /\ DOMAIN edited = DOMAIN heap
           /\ \A r \in DOMAIN heap : r # at => edited[r] = heap[r]
           /\ edited[at] = [kind |-> heap[at].kind, items |-> items]
           /\ \A w : Usable(heap, w) => Usable(edited, w)
           /\ \A w : Loose(heap, w) /\ (w \in DOMAIN heap => w # v) => Loose(edited, w)
           /\ \A w : /\ w \in Value /\ Known(heap, w) /\ w \notin DOMAIN CallerHeap
                     /\ \A key \in DOMAIN items : items[key] # w
                     /\ \A r \in Own(heap) : r # at =>
                           \A key \in DOMAIN heap[r].items : heap[r].items[key] # w
                     => Loose(edited, w)
<1>0. /\ Sound(heap) /\ at \in Own(heap) /\ Loose(heap, v)
      /\ [kind |-> heap[at].kind, items |-> items] \in Nodes
      /\ \A key \in DOMAIN items :
            items[key] = v \/ \E old \in DOMAIN heap[at].items : items[key] = heap[at].items[old]
      /\ \A key, other \in DOMAIN items :
            items[key] = items[other] /\ items[key] \in DOMAIN heap => key = other
  BY DEF CanEdit
<1>1. /\ heap \in Seq(Nodes) /\ DOMAIN heap = 1..Len(heap) /\ Len(heap) \in Nat
      /\ DOMAIN CallerHeap \subseteq DOMAIN heap
      /\ \A r \in DOMAIN heap : heap[r] \in Nodes
      /\ \A r \in DOMAIN heap : \A key \in DOMAIN heap[r].items :
            heap[r].items[key] \in Value /\ Known(heap, heap[r].items[key])
  BY <1>0, SoundFacts
<1>2. at \in DOMAIN heap /\ at \notin DOMAIN CallerHeap
  BY <1>0 DEF Own
<1>3. heap[at] = [kind |-> heap[at].kind, items |-> heap[at].items]
  BY <1>0, <1>1, <1>2, NodeFacts
<1>4. edited = [heap EXCEPT ![at] = [kind |-> heap[at].kind, items |-> items]]
  <2>1. [heap[at] EXCEPT !.items = items] = [kind |-> heap[at].kind, items |-> items]
    BY <1>3
  <2> QED BY <2>1 DEF IsEdited
<1>5. /\ edited \in Seq(Nodes) /\ DOMAIN edited = DOMAIN heap /\ Len(edited) = Len(heap)
      /\ \A r \in DOMAIN heap : r # at => edited[r] = heap[r]
      /\ edited[at] = [kind |-> heap[at].kind, items |-> items]
      /\ edited[at].items = items
  <2>1. PICK node \in Nodes : node = [kind |-> heap[at].kind, items |-> items]
    BY <1>0, Zenon
  <2>2. edited = [heap EXCEPT ![at] = node]
    BY <1>4, <2>1
  <2>3. /\ edited \in Seq(Nodes) /\ DOMAIN edited = DOMAIN heap /\ Len(edited) = Len(heap)
        /\ \A r \in DOMAIN heap : r # at => edited[r] = heap[r]
        /\ edited[at] = node
    BY <1>1, <1>2, <2>2
  <2>4. node.items = items
    BY <2>1
  <2> QED BY <2>1, <2>3, <2>4, Zenon
<1>6. Own(edited) = Own(heap)
  BY <1>0, <1>5 DEF Own
<1>7. \A key \in DOMAIN items :
        items[key] \in Value /\ Known(heap, items[key]) /\ items[key] \notin DOMAIN CallerHeap
  BY <1>0, <1>1, <1>2 DEF Sound, OwnItems, Loose
<1>8. TypedHeap(edited)
  <2>1. ASSUME NEW r \in DOMAIN edited, NEW key \in DOMAIN edited[r].items
        PROVE  Known(edited, edited[r].items[key])
    <3>1. CASE r = at
      BY <1>0, <1>5, <1>7, <3>1 DEF Known
    <3>2. CASE r # at
      BY <1>0, <1>1, <1>5, <3>2 DEF Known
    <3> QED BY <1>0, <3>1, <3>2
  <2> QED BY <1>0, <1>5, <2>1 DEF TypedHeap
<1>9. KeepsCaller(edited)
  BY <1>0, <1>1, <1>2, <1>5 DEF Sound, KeepsCaller
<1>10. OwnItems(edited)
  <2> SUFFICES ASSUME NEW r \in Own(edited), NEW key \in DOMAIN edited[r].items
      PROVE  edited[r].items[key] \notin DOMAIN CallerHeap
    BY <1>0 DEF OwnItems
  <2>1. CASE r = at
    BY <1>0, <1>5, <1>7, <2>1
  <2>2. CASE r # at
    BY <1>0, <1>5, <1>6, <2>2 DEF Own, Sound, OwnItems
  <2> QED BY <1>0, <2>1, <2>2
<1>11. ASSUME NEW s \in Own(heap), s # at, NEW key \in DOMAIN items,
              NEW other \in DOMAIN heap[s].items,
              items[key] = heap[s].items[other], items[key] \in DOMAIN heap
       PROVE  FALSE
  <2>1. CASE items[key] = v
    BY <1>0, <1>11, <2>1 DEF Loose, Held
  <2>2. ASSUME NEW old \in DOMAIN heap[at].items, items[key] = heap[at].items[old]
        PROVE  FALSE
    BY <1>0, <1>11, <2>2 DEF Sound, HeldOnce
  <2> QED BY <1>0, <2>1, <2>2
<1>12. HeldOnce(edited)
  <2> SUFFICES ASSUME NEW r \in Own(edited), NEW s \in Own(edited),
                      NEW key \in DOMAIN edited[r].items, NEW other \in DOMAIN edited[s].items,
                      edited[r].items[key] = edited[s].items[other],
                      edited[r].items[key] \in DOMAIN edited
      PROVE  r = s /\ key = other
    BY DEF HeldOnce
  <2>1. r \in Own(heap) /\ s \in Own(heap) /\ r \in DOMAIN heap /\ s \in DOMAIN heap
    BY <1>0, <1>6 DEF Own
  <2>2. CASE r = at /\ s = at
    BY <1>0, <1>5, <2>2
  <2>3. CASE r = at /\ s # at
    BY <1>0, <1>5, <1>11, <2>1, <2>3
  <2>4. CASE r # at /\ s = at
    BY <1>0, <1>5, <1>11, <2>1, <2>4
  <2>5. CASE r # at /\ s # at
    BY <1>0, <1>5, <2>1, <2>5 DEF Sound, HeldOnce
  <2> QED BY <1>0, <2>2, <2>3, <2>4, <2>5
<1>13. Sound(edited)
  BY <1>0, <1>8, <1>9, <1>10, <1>12 DEF Sound
<1>14. ASSUME NEW w, Usable(heap, w) PROVE Usable(edited, w)
  BY <1>0, <1>5, <1>14 DEF Usable, Known
<1>15. ASSUME NEW w, w \in Value, Known(heap, w), w \notin DOMAIN CallerHeap,
              \A key \in DOMAIN items : items[key] # w,
              \A r \in Own(heap) : r # at => \A key \in DOMAIN heap[r].items : heap[r].items[key] # w
       PROVE  Loose(edited, w)
  <2>1. ~Held(edited, w)
    <3> SUFFICES ASSUME NEW r \in Own(edited), NEW key \in DOMAIN edited[r].items,
                        edited[r].items[key] = w
        PROVE  FALSE
      BY <1>0 DEF Held
    <3>1. CASE r = at
      BY <1>0, <1>5, <1>15, <3>1
    <3>2. CASE r # at
      BY <1>0, <1>5, <1>6, <1>15, <3>2 DEF Own
    <3> QED BY <1>0, <3>1, <3>2
  <2> QED BY <1>0, <1>5, <1>15, <2>1 DEF Loose, Known
<1>16. ASSUME NEW w, Loose(heap, w), w \in DOMAIN heap => w # v PROVE Loose(edited, w)
  <2>1. CASE w \in DOMAIN heap
    <3>1. \A r \in Own(heap) : \A key \in DOMAIN heap[r].items : heap[r].items[key] # w
      BY <1>0, <1>16, <2>1 DEF Loose, Held
    <3>2. \A key \in DOMAIN items : items[key] # w
      BY <1>0, <1>16, <2>1, <3>1
    <3> QED BY <1>0, <1>15, <1>16, <3>1, <3>2 DEF Loose
  <2>2. CASE w \notin DOMAIN heap
    BY <1>0, <1>5, <1>16, <2>2 DEF Loose, Known
  <2> QED BY <1>0, <2>1, <2>2
<1> QED BY <1>0, <1>5, <1>13, <1>14, <1>15, <1>16


-----------------------------------------------------------------------------
(* Induction and recursion over the numbers, on sets and functions.          *)
LEMMA LeastNat ==
    ASSUME NEW T \in SUBSET Nat, T # {}
    PROVE  \E m \in T : \A n \in T : m <= n
<1>1. PICK R : IsWellFoundedOn(R, Nat) /\ \A x, y \in Nat : <<x, y>> \in R <=> x < y
  <2>1. IsWellFoundedOn(OpToRel(<, Nat), Nat)
    BY NatLessThanWellFounded
  <2>2. \A x, y \in Nat : <<x, y>> \in OpToRel(<, Nat) <=> x < y
    BY DEF OpToRel
  <2> QED BY <2>1, <2>2, Zenon
<1>2. T \subseteq Nat
  OBVIOUS
<1>3. PICK x \in T : \A y \in T : ~ (<<y, x>> \in R)
  <2>1. IsWellFoundedOn(R, Nat)
    BY <1>1
  <2>2. \E x \in T : \A y \in T : ~ (<<y, x>> \in R)
    BY <2>1, <1>2, WFMin
  <2> QED BY <2>2
<1>4. ASSUME NEW y \in T PROVE x <= y
  <2>1. x \in Nat /\ y \in Nat
    OBVIOUS
  <2>2. ~ (y < x)
    BY <1>1, <1>3, <2>1, Zenon
  <2> QED BY <2>1, <2>2
<1> QED BY <1>3, <1>4

(* Induction over the naturals.                                              *)
LEMMA InductionOver ==
    ASSUME NEW S, 0 \in S, \A n \in Nat : n \in S => n + 1 \in S
    PROVE  Nat \subseteq S
<1> SUFFICES ASSUME NEW x \in Nat, x \notin S PROVE FALSE
  OBVIOUS
<1> DEFINE C == {n \in Nat : n \notin S}
<1>1. PICK m \in C : \A k \in C : m <= k
  <2>1. C \in SUBSET Nat /\ C # {}
    OBVIOUS
  <2> QED BY <2>1, LeastNat
<1>2. m # 0 /\ m - 1 \in Nat /\ m - 1 \notin C
  BY <1>1
<1>3. m - 1 \in S /\ (m - 1) + 1 = m
  BY <1>2
<1> QED BY <1>1, <1>2, <1>3

(* A recursion over 1..n, with a function for every step, has a solution.    *)
Follows(f, n, base, step) == f[0] = base /\ \A k \in 1..n : f[k] = step[k][f[k - 1]]

(* A recursive function exists.                                              *)
LEMMA RecursionExists ==
    ASSUME NEW X, NEW base \in X, NEW n \in Nat, NEW step \in [1..n -> [X -> X]]
    PROVE  \E f \in [0..n -> X] : Follows(f, n, base, step)
<1> DEFINE Solves(f, m) == f[0] = base /\ \A k \in 1..m : f[k] = step[k][f[k - 1]]
           S == {m \in Nat : m <= n => \E f \in [0..m -> X] : Solves(f, m)}
<1>1. 0 \in S
  <2>1. [k \in 0..0 |-> base] \in [0..0 -> X] /\ Solves([k \in 0..0 |-> base], 0)
    OBVIOUS
  <2> QED BY <2>1
<1>2. ASSUME NEW m \in Nat, m \in S PROVE m + 1 \in S
  <2> SUFFICES ASSUME m + 1 <= n PROVE \E f \in [0..(m + 1) -> X] : Solves(f, m + 1)
    OBVIOUS
  <2>1. PICK f \in [0..m -> X] : Solves(f, m)
    BY <1>2
  <2> DEFINE last == step[m + 1][f[m]]
             g == [k \in 0..(m + 1) |-> IF k = m + 1 THEN last ELSE f[k]]
  <2>2. last \in X
    <3>1. f[m] \in X /\ step[m + 1] \in [X -> X]
      OBVIOUS
    <3> QED BY <3>1
  <2>3. g \in [0..(m + 1) -> X]
    BY <2>2
  <2>4. ASSUME NEW k \in 1..(m + 1) PROVE g[k] = step[k][g[k - 1]]
    <3>1. CASE k = m + 1
      <4>1. k \in 0..(m + 1) /\ k - 1 = m /\ m \in 0..(m + 1) /\ m # m + 1
        BY <3>1
      <4>2. g[k] = last /\ g[k - 1] = f[m]
        BY <3>1, <4>1
      <4> QED BY <3>1, <4>1, <4>2
    <3>2. CASE k # m + 1
      <4>1. k \in 1..m /\ k \in 0..(m + 1) /\ k - 1 \in 0..(m + 1) /\ k - 1 # m + 1
        BY <3>2
      <4>2. g[k] = f[k] /\ g[k - 1] = f[k - 1]
        BY <3>2, <4>1
      <4> QED BY <2>1, <4>1, <4>2
    <3> QED BY <3>1, <3>2
  <2>5. g[0] = base
    BY <2>1
  <2> QED BY <2>3, <2>4, <2>5
<1> HIDE DEF S
<1>3. n \in S
  BY <1>1, <1>2, InductionOver
<1> USE DEF S
<1> QED BY <1>3 DEF Follows

-----------------------------------------------------------------------------
(* What a pointer leads to.                                                  *)

(* The values on the way.                                                    *)
Way(f, heap, root, path) ==
    f[0] = root /\ \A k \in 1..Len(path) : f[k] = Child(heap, f[k - 1], path[k])

(* getAtPath's walk exists.                                                  *)
LEMMA WayExists ==
    ASSUME NEW heap, NEW root, NEW S, NEW path \in Seq(S)
    PROVE  \E f : Way(f, heap, root, path) /\ GetAtPath(heap, root, path) = f[Len(path)]
<1> DEFINE X == {root, Missing} \cup
                UNION {{heap[r].items[key] : key \in DOMAIN heap[r].items} : r \in DOMAIN heap}
           n == Len(path)
           next == [k \in 1..n |-> [v \in X |-> Child(heap, v, path[k])]]
           Solves(f) == f = [k \in 0..n |-> IF k = 0 THEN root ELSE Child(heap, f[k - 1], path[k])]
<1>1. \A v, token : Child(heap, v, token) \in X
  BY DEF Child, IsRef
<1>2. n \in Nat /\ root \in X
  OBVIOUS
<1> HIDE DEF X, n
<1>3. next \in [1..n -> [X -> X]] /\ \A k \in 1..n, v \in X : next[k][v] = Child(heap, v, path[k])
  BY <1>1
<1> HIDE DEF next
<1>4. PICK f \in [0..n -> X] : Follows(f, n, root, next)
  BY <1>2, <1>3, RecursionExists
<1>5. ASSUME NEW k \in 0..n
      PROVE  f[k] = IF k = 0 THEN root ELSE Child(heap, f[k - 1], path[k])
  <2>1. CASE k = 0
    BY <1>4, <2>1 DEF Follows
  <2>2. CASE k # 0
    <3>1. k \in 1..n /\ k - 1 \in 0..n
      BY <1>2, <2>2
    <3>2. f[k - 1] \in X /\ f[k] = next[k][f[k - 1]]
      BY <1>4, <3>1 DEF Follows
    <3> QED BY <1>3, <2>2, <3>1, <3>2
  <2> QED BY <2>1, <2>2
<1>6. Solves(f)
  BY <1>5
<1>7. Solves(CHOOSE g : Solves(g))
  BY <1>6
<1>8. PICK g : Solves(g) /\ GetAtPath(heap, root, path) = g[n]
  <2>1. GetAtPath(heap, root, path) = (CHOOSE g : Solves(g))[n]
    BY DEF GetAtPath, n
  <2> QED BY <1>7, <2>1
<1>9. g[0] = root /\ \A k \in 1..n : g[k] = Child(heap, g[k - 1], path[k])
  <2>1. \A k \in 0..n : g[k] = IF k = 0 THEN root ELSE Child(heap, g[k - 1], path[k])
    BY <1>8
  <2>2. 0 \in 0..n /\ \A k \in 1..n : k \in 0..n /\ k # 0
    BY <1>2
  <2> QED BY <2>1, <2>2
<1> QED BY <1>8, <1>9 DEF Way, n

(* There is one such walk only.                                              *)
LEMMA WayIsOne ==
    ASSUME NEW heap, NEW root, NEW S, NEW path \in Seq(S), NEW f, Way(f, heap, root, path)
    PROVE  GetAtPath(heap, root, path) = f[Len(path)]
<1>1. PICK g : Way(g, heap, root, path) /\ GetAtPath(heap, root, path) = g[Len(path)]
  BY WayExists
<1> DEFINE T == {k \in Nat : k <= Len(path) => f[k] = g[k]}
<1>2. 0 \in T
  BY <1>1 DEF Way
<1>3. ASSUME NEW k \in Nat, k \in T PROVE k + 1 \in T
  <2> SUFFICES ASSUME k + 1 <= Len(path) PROVE f[k + 1] = g[k + 1]
    OBVIOUS
  <2>1. k + 1 \in 1..Len(path) /\ (k + 1) - 1 = k /\ f[k] = g[k]
    BY <1>3
  <2> QED BY <1>1, <2>1 DEF Way
<1> HIDE DEF T
<1>4. Nat \subseteq T
  BY <1>2, <1>3, InductionOver
<1> USE DEF T
<1>5. Len(path) \in T
  BY <1>4
<1> QED BY <1>1, <1>5

(* SubSeq is a sequence of what it is cut from.                              *)
LEMMA CutIs ==
    ASSUME NEW S, NEW s \in Seq(S), NEW from \in Nat, NEW upto \in Nat,
           1 <= from, from <= upto + 1, upto <= Len(s)
    PROVE  \E cut \in Seq(S) :
              /\ cut = SubSeq(s, from, upto) /\ Len(cut) = upto - from + 1
              /\ \A i \in 1..(upto - from + 1) : cut[i] = s[from + i - 1]
<1>1. from \in Int /\ upto \in Int /\ \A i \in from..upto : s[i] \in S
  OBVIOUS
<1>2. PICK cut : cut = SubSeq(s, from, upto)
  OBVIOUS
<1>3. /\ SubSeq(s, from, upto) \in Seq(S)
      /\ Len(SubSeq(s, from, upto)) = IF from <= upto THEN upto - from + 1 ELSE 0
      /\ \A i \in 1..(upto - from + 1) : SubSeq(s, from, upto)[i] = s[from + i - 1]
  BY <1>1, SubSeqProperties
<1>4. /\ cut \in Seq(S)
      /\ Len(cut) = IF from <= upto THEN upto - from + 1 ELSE 0
      /\ \A i \in 1..(upto - from + 1) : cut[i] = s[from + i - 1]
  BY <1>2, <1>3, Zenon
<1>5. Len(cut) = upto - from + 1
  BY <1>4
<1> QED BY <1>2, <1>4, <1>5, Zenon

(* All but the last of a sequence, and the last.                             *)
LEMMA FrontIs ==
    ASSUME NEW S, NEW s \in Seq(S), s # <<>>
    PROVE  /\ Front(s) \in Seq(S) /\ Len(Front(s)) = Len(s) - 1
           /\ \A k \in 1..(Len(s) - 1) : Front(s)[k] = s[k]
           /\ Last(s) = s[Len(s)] /\ Last(s) \in S
<1>1. PICK n \in Nat : Len(s) = n + 1
  <2>1. Len(s) \in Nat /\ Len(s) # 0
    OBVIOUS
  <2>2. Len(s) - 1 \in Nat /\ Len(s) = (Len(s) - 1) + 1
    BY <2>1
  <2> QED BY <2>2
<1>2. PICK from \in Nat : from = 1
  OBVIOUS
<1>3. 1 <= from /\ from <= n + 1 /\ n <= Len(s)
  BY <1>1, <1>2
<1>4. PICK front \in Seq(S) : /\ front = SubSeq(s, from, n) /\ Len(front) = n - from + 1
                              /\ \A i \in 1..(n - from + 1) : front[i] = s[from + i - 1]
  BY <1>3, CutIs
<1>6. Len(front) = n /\ \A i \in 1..n : front[i] = s[i]
  <2>1. Len(front) = n - from + 1 /\ \A i \in 1..(n - from + 1) : front[i] = s[from + i - 1]
    BY <1>4
  <2> QED BY <1>2, <2>1
<1>7. Front(s) = front
  <2>1. Len(s) - 1 = n
    BY <1>1
  <2> QED BY <1>2, <1>4, <2>1, Zenon DEF Front
<1>8. Last(s) = s[Len(s)] /\ Last(s) \in S /\ Len(s) - 1 = n
  BY <1>1 DEF Last
<1> QED BY <1>4, <1>6, <1>7, <1>8

(* One token after the other.                                                *)
LEMMA PathsLead ==
    ASSUME NEW heap, NEW root, NEW path \in Seq(Token)
    PROVE  /\ path = <<>> => GetAtPath(heap, root, path) = root
           /\ path # <<>> =>
                 /\ Front(path) \in Seq(Token) /\ Len(Front(path)) = Len(path) - 1
                 /\ Last(path) \in Token /\ path = Append(Front(path), Last(path))
                 /\ GetAtPath(heap, root, path) =
                       Child(heap, GetAtPath(heap, root, Front(path)), Last(path))
<1>1. PICK f : Way(f, heap, root, path) /\ GetAtPath(heap, root, path) = f[Len(path)]
  BY WayExists
<1>2. CASE path = <<>>
  BY <1>1, <1>2 DEF Way
<1>3. CASE path # <<>>
  <2>1. Len(path) \in Nat /\ Len(path) >= 1
    BY <1>3
  <2>2. /\ Front(path) \in Seq(Token) /\ Len(Front(path)) = Len(path) - 1
        /\ \A k \in 1..(Len(path) - 1) : Front(path)[k] = path[k]
        /\ Last(path) = path[Len(path)] /\ Last(path) \in Token
    BY <1>3, FrontIs
  <2>3. path = Append(Front(path), Last(path))
    BY <2>1, <2>2
  <2>4. Way(f, heap, root, Front(path))
    BY <1>1, <2>1, <2>2 DEF Way
  <2>5. GetAtPath(heap, root, Front(path)) = f[Len(path) - 1]
    BY <2>2, <2>4, WayIsOne
  <2>6. f[Len(path)] = Child(heap, f[Len(path) - 1], path[Len(path)])
    BY <1>1, <2>1 DEF Way
  <2> QED BY <1>1, <1>3, <2>2, <2>3, <2>5, <2>6
<1> QED BY <1>2, <1>3

(* A child is what a node holds under a key, and nothing if there is none.   *)
KeyOf(heap, v, token) == IF heap[v].kind = "array" THEN Position(token) ELSE token

(* What a step of resolveParent and getAtPath leads to.                      *)
LEMMA ChildIs ==
    ASSUME NEW heap, NEW v, NEW token
    PROVE  \/ Child(heap, v, token) = Missing
           \/ /\ v \in DOMAIN heap /\ KeyOf(heap, v, token) \in DOMAIN heap[v].items
              /\ Child(heap, v, token) = heap[v].items[KeyOf(heap, v, token)]
BY DEF Child, KeyOf, IsRef

(* It can be used, and is none of the caller's if its node is not.           *)
LEMMA ChildIsUsable ==
    ASSUME NEW heap, Sound(heap), NEW v, Usable(heap, v), NEW token
    PROVE  /\ Usable(heap, Child(heap, v, token))
           /\ v \notin DOMAIN CallerHeap => Child(heap, v, token) \notin DOMAIN CallerHeap
<1>1. CASE Child(heap, v, token) = Missing
  BY <1>1, ValuesAreGiven DEF Usable, Known
<1>2. CASE /\ v \in DOMAIN heap /\ KeyOf(heap, v, token) \in DOMAIN heap[v].items
           /\ Child(heap, v, token) = heap[v].items[KeyOf(heap, v, token)]
  BY <1>2, SoundFacts DEF Usable, Sound, OwnItems, Own
<1> QED BY <1>1, <1>2, ChildIs

(* From a node of the code's own, a pointer never leads to the caller's.     *)
LEMMA ReachedIsUsable ==
    ASSUME NEW heap, Sound(heap), NEW root, Usable(heap, root), NEW S, NEW path \in Seq(S)
    PROVE  /\ Usable(heap, GetAtPath(heap, root, path))
           /\ root \notin DOMAIN CallerHeap => GetAtPath(heap, root, path) \notin DOMAIN CallerHeap
<1>1. PICK f : Way(f, heap, root, path) /\ GetAtPath(heap, root, path) = f[Len(path)]
  BY WayExists
<1> DEFINE T == {k \in Nat : k <= Len(path) =>
                    /\ Usable(heap, f[k])
                    /\ root \notin DOMAIN CallerHeap => f[k] \notin DOMAIN CallerHeap}
<1>2. 0 \in T
  BY <1>1 DEF Way
<1>3. ASSUME NEW k \in Nat, k \in T PROVE k + 1 \in T
  <2> SUFFICES ASSUME k + 1 <= Len(path)
      PROVE  /\ Usable(heap, f[k + 1])
             /\ root \notin DOMAIN CallerHeap => f[k + 1] \notin DOMAIN CallerHeap
    OBVIOUS
  <2>1. /\ k + 1 \in 1..Len(path) /\ (k + 1) - 1 = k /\ Usable(heap, f[k])
        /\ root \notin DOMAIN CallerHeap => f[k] \notin DOMAIN CallerHeap
    BY <1>3
  <2>2. f[k + 1] = Child(heap, f[k], path[k + 1])
    BY <1>1, <2>1 DEF Way
  <2> QED BY <2>1, <2>2, ChildIsUsable
<1> HIDE DEF T
<1>4. Nat \subseteq T
  BY <1>2, <1>3, InductionOver
<1> USE DEF T
<1>5. Len(path) \in T
  BY <1>4
<1> QED BY <1>1, <1>5


-----------------------------------------------------------------------------
(* The places of the arrays and objects in a value.                          *)

(* SetToSeq lists a finite set, each element once.                           *)
LEMMA ListOfSet ==
    ASSUME NEW S, IsFiniteSet(S)
    PROVE  /\ SetToSeq(S) \in Seq(S) /\ DOMAIN SetToSeq(S) = 1..Len(SetToSeq(S))
           /\ \A x \in S : \E n \in DOMAIN SetToSeq(S) : SetToSeq(S)[n] = x
           /\ \A n, m \in DOMAIN SetToSeq(S) : SetToSeq(S)[n] = SetToSeq(S)[m] => n = m
<1>1. PICK n \in Nat : n = Cardinality(S)
  BY FS_CardinalityType
<1>2. ExistsBijection(1..n, S)
  BY <1>1, FS_CardinalityType
<1>3. PICK g : g \in Bijection(1..n, S)
  BY <1>2 DEF ExistsBijection
<1>4. g \in [1..n -> S] /\ IsInjective(g)
  BY <1>3 DEF Bijection, Injection, IsInjective
<1> DEFINE Fits(f) == f \in [1..n -> S] /\ IsInjective(f)
<1>5. PICK f : f = SetToSeq(S)
  OBVIOUS
<1>6. f = CHOOSE h \in [1..n -> S] : IsInjective(h)
  BY <1>1, <1>5 DEF SetToSeq
<1>7. f \in [1..n -> S] /\ IsInjective(f)
  BY <1>4, <1>6
<1>8. f \in Injection(1..n, S)
  BY <1>7 DEF IsInjective, Injection
<1>9. IsFiniteSet(1..n) /\ Cardinality(1..n) = Cardinality(S)
  BY <1>1, FS_Interval
<1>10. f \in Surjection(1..n, S)
  BY <1>8, <1>9, FS_Injection
<1>11. f \in Seq(S) /\ DOMAIN f = 1..Len(f)
  BY <1>7
<1>12. \A x \in S : \E k \in DOMAIN f : f[k] = x
  BY <1>7, <1>10 DEF Surjection
<1>13. \A k, m \in DOMAIN f : f[k] = f[m] => k = m
  BY <1>7 DEF IsInjective
<1> QED BY <1>5, <1>11, <1>12, <1>13

(* Finitely many finite sets have a finite union.                            *)
LEMMA UnionIsFinite ==
    ASSUME NEW S, IsFiniteSet(S), NEW F, \A x \in S : IsFiniteSet(F[x])
    PROVE  IsFiniteSet(UNION {F[x] : x \in S})
<1> DEFINE parts == {F[x] : x \in S}
           part == [x \in S |-> F[x]]
<1>1. part \in Surjection(S, parts)
  BY DEF Surjection
<1>2. IsFiniteSet(parts)
  BY <1>1, FS_Surjection
<1>3. \A T \in parts : IsFiniteSet(T)
  OBVIOUS
<1> HIDE DEF parts
<1>4. IsFiniteSet(UNION parts)
  BY <1>2, <1>3, FS_UNION
<1> QED BY <1>4 DEF parts

(* From one level to the next.                                               *)
Deeper(heap, value, places) ==
    UNION {{deeper \in {Step(heap, value, place, key) : key \in Keys(heap, value, place)} :
               IsRef(heap, At(heap, value, deeper))} : place \in places}

(* The lists of steps that end at a node.                                    *)
AllKeys(heap) == UNION {DOMAIN heap[r].items : r \in DOMAIN heap}
Steps(heap) ==
    {step \in (DOMAIN heap) \X AllKeys(heap) : step[2] \in DOMAIN heap[step[1]].items}
Ends(heap, value) == {place \in Seq(Steps(heap)) : IsRef(heap, At(heap, value, place))}

(* A step from a place is a place.                                           *)
LEMMA StepLeads ==
    ASSUME NEW heap, NEW value, NEW place \in Ends(heap, value), NEW key \in Keys(heap, value, place)
    PROVE  /\ Step(heap, value, place, key) \in Seq(Steps(heap))
           /\ Len(Step(heap, value, place, key)) = Len(place) + 1
           /\ Step(heap, value, place, key) # <<>>
           /\ Last(Step(heap, value, place, key)) = <<At(heap, value, place), key>>
           /\ At(heap, value, Step(heap, value, place, key)) =
                 heap[At(heap, value, place)].items[key]
<1> DEFINE at == At(heap, value, place)
           step == <<at, key>>
<1>1. place \in Seq(Steps(heap)) /\ at \in DOMAIN heap /\ key \in DOMAIN heap[at].items
  BY DEF Ends, IsRef, Keys
<1>2. step \in Steps(heap)
  <2>1. key \in AllKeys(heap)
    BY <1>1 DEF AllKeys
  <2> QED BY <1>1, <2>1 DEF Steps
<1>3. Step(heap, value, place, key) = Append(place, step)
  BY DEF Step
<1> HIDE DEF step
<1>4. /\ Append(place, step) \in Seq(Steps(heap)) /\ Append(place, step) # <<>>
      /\ Len(Append(place, step)) = Len(place) + 1
      /\ Last(Append(place, step)) = step
  BY <1>1, <1>2 DEF Last
<1>5. At(heap, value, Append(place, step)) = heap[step[1]].items[step[2]]
  BY <1>4 DEF At
<1> QED BY <1>3, <1>4, <1>5 DEF step

(* A place is reached by one step only.                                      *)
LEMMA StepsAreOne ==
    ASSUME NEW heap, NEW value, NEW p \in Ends(heap, value), NEW q \in Ends(heap, value),
           NEW key, NEW other, Step(heap, value, p, key) = Step(heap, value, q, other)
    PROVE  p = q /\ key = other
<1>1. p \in Seq(Steps(heap)) /\ q \in Seq(Steps(heap))
  BY DEF Ends
<1> DEFINE s == <<At(heap, value, p), key>>
           t == <<At(heap, value, q), other>>
<1>2. Append(p, s) = Append(q, t)
  BY DEF Step
<1>3. p = q /\ s = t
  <2> HIDE DEF s, t
  <2>1. Len(p) \in Nat /\ Len(q) \in Nat /\ Len(Append(p, s)) = Len(p) + 1
        /\ Len(Append(q, t)) = Len(q) + 1
    BY <1>1
  <2>2. Len(p) = Len(q)
    BY <1>2, <2>1
  <2>3. \A i \in 1..Len(p) : Append(p, s)[i] = p[i] /\ Append(q, t)[i] = q[i]
    BY <1>1, <2>1, <2>2
  <2>4. Append(p, s)[Len(p) + 1] = s /\ Append(q, t)[Len(p) + 1] = t
    BY <1>1, <2>1, <2>2
  <2>5. \A i \in 1..Len(p) : p[i] = q[i]
    BY <1>2, <2>3
  <2>6. p = q
    BY <1>1, <2>2, <2>5
  <2> QED BY <1>2, <2>4, <2>6
<1> QED BY <1>3

(* A level below places that end at nodes is one of such places.             *)
LEMMA DeeperEnds ==
    ASSUME NEW heap, NEW value, NEW places \in SUBSET Ends(heap, value)
    PROVE  Deeper(heap, value, places) \in SUBSET Ends(heap, value)
<1> SUFFICES ASSUME NEW place \in places, NEW key \in Keys(heap, value, place),
                    IsRef(heap, At(heap, value, Step(heap, value, place, key)))
    PROVE  Step(heap, value, place, key) \in Ends(heap, value)
  BY DEF Deeper
<1> QED BY StepLeads DEF Ends

(* The levels of a value, from its root down.                                *)
LEMMA LevelsAre ==
    ASSUME NEW heap, NEW value
    PROVE  /\ Level(heap, value)[0] = {place \in {<<>>} : IsRef(heap, value)}
           /\ \A d \in 1..MaxDepth :
                 Level(heap, value)[d] = Deeper(heap, value, Level(heap, value)[d - 1])
           /\ \A d \in 0..MaxDepth : Level(heap, value)[d] \in SUBSET Ends(heap, value)
<1> DEFINE X == SUBSET Ends(heap, value)
           root == {place \in {<<>>} : IsRef(heap, value)}
           n == MaxDepth
           next == [k \in 1..n |-> [places \in X |-> Deeper(heap, value, places)]]
           Solves(f) == f = [k \in 0..n |-> IF k = 0 THEN root ELSE Deeper(heap, value, f[k - 1])]
<1>1. n \in Nat
  BY JsonPatchingAssumption
<1>2. root \in X
  <2>1. <<>> \in Seq(Steps(heap)) /\ At(heap, value, <<>>) = value
    BY DEF At
  <2> QED BY <2>1 DEF Ends
<1>3. \A places \in X : Deeper(heap, value, places) \in X
  BY DeeperEnds
<1> HIDE DEF X, n, root
<1>4. next \in [1..n -> [X -> X]]
      /\ \A k \in 1..n, places \in X : next[k][places] = Deeper(heap, value, places)
  BY <1>3
<1> HIDE DEF next
<1>5. PICK f \in [0..n -> X] : Follows(f, n, root, next)
  BY <1>1, <1>2, <1>4, RecursionExists
<1>6. ASSUME NEW k \in 0..n
      PROVE  f[k] = IF k = 0 THEN root ELSE Deeper(heap, value, f[k - 1])
  <2>1. CASE k = 0
    BY <1>5, <2>1 DEF Follows
  <2>2. CASE k # 0
    <3>1. k \in 1..n /\ k - 1 \in 0..n
      BY <1>1, <2>2
    <3>2. f[k - 1] \in X /\ f[k] = next[k][f[k - 1]]
      BY <1>5, <3>1 DEF Follows
    <3> QED BY <1>4, <2>2, <3>1, <3>2
  <2> QED BY <2>1, <2>2
<1>7. Solves(f)
  BY <1>6
<1>8. Solves(CHOOSE g : Solves(g))
  BY <1>7
<1>9. PICK g : Solves(g) /\ Level(heap, value) = g
  <2>1. Level(heap, value) = CHOOSE g : Solves(g)
    BY DEF Level, Deeper, n, root
  <2> QED BY <1>8, <2>1
<1>10. g[0] = root /\ \A k \in 1..n : g[k] = Deeper(heap, value, g[k - 1])
  <2>1. \A k \in 0..n : g[k] = IF k = 0 THEN root ELSE Deeper(heap, value, g[k - 1])
    BY <1>9
  <2>2. 0 \in 0..n /\ \A k \in 1..n : k \in 0..n /\ k # 0
    BY <1>1
  <2> QED BY <2>1, <2>2
<1> DEFINE T == {k \in Nat : k <= n => g[k] \in X}
<1>11. 0 \in T
  BY <1>2, <1>10
<1>12. ASSUME NEW k \in Nat, k \in T PROVE k + 1 \in T
  <2> SUFFICES ASSUME k + 1 <= n PROVE g[k + 1] \in X
    OBVIOUS
  <2>1. k + 1 \in 1..n /\ (k + 1) - 1 = k /\ g[k] \in X
    BY <1>1, <1>12
  <2> QED BY <1>3, <1>10, <2>1
<1> HIDE DEF T
<1>13. Nat \subseteq T
  BY <1>11, <1>12, InductionOver
<1> USE DEF T
<1>14. \A k \in 0..n : g[k] \in X
  BY <1>1, <1>13
<1> QED BY <1>9, <1>10, <1>14 DEF X, n, root

(* An array or object has finitely many items.                               *)
LEMMA KeysAreFinite ==
    ASSUME NEW heap, Sound(heap), NEW value, NEW place \in Ends(heap, value)
    PROVE  IsFiniteSet(Keys(heap, value, place))
<1> DEFINE node == heap[At(heap, value, place)]
<1>1. node \in Nodes
  BY SoundFacts DEF Ends, IsRef
<1>2. Keys(heap, value, place) = DOMAIN node.items
  BY DEF Keys
<1> HIDE DEF node
<1>3. CASE node.items \in Seq(Value)
  <2>1. DOMAIN node.items = 1..Len(node.items) /\ Len(node.items) \in Nat
    BY <1>3
  <2> QED BY <1>2, <2>1, FS_Interval
<1>4. CASE DOMAIN node.items \in SUBSET Token
  BY JsonPatchingAssumption, <1>2, <1>4, FS_Subset
<1> QED BY <1>1, <1>3, <1>4, NodeFacts

(* cloneJsonValue comes to finitely many places.                             *)
LEMMA LevelsAreFinite ==
    ASSUME NEW heap, Sound(heap), NEW value
    PROVE  /\ \A d \in 0..MaxDepth : IsFiniteSet(Level(heap, value)[d])
           /\ IsFiniteSet(Containers(heap, value))
<1> DEFINE level == Level(heap, value)
<1>1. MaxDepth \in Nat /\ IsFiniteSet(Token)
  BY JsonPatchingAssumption
<1>2. ASSUME NEW place \in Ends(heap, value) PROVE IsFiniteSet(Keys(heap, value, place))
  BY <1>2, KeysAreFinite
<1>3. ASSUME NEW places \in SUBSET Ends(heap, value), IsFiniteSet(places)
      PROVE  IsFiniteSet(Deeper(heap, value, places))
  <2> DEFINE all(place) == {Step(heap, value, place, key) : key \in Keys(heap, value, place)}
             some(place) == {deeper \in all(place) : IsRef(heap, At(heap, value, deeper))}
             F == [place \in places |-> some(place)]
  <2>1. ASSUME NEW place \in places PROVE IsFiniteSet(F[place])
    <3> DEFINE f == [key \in Keys(heap, value, place) |-> Step(heap, value, place, key)]
    <3>1. f \in Surjection(Keys(heap, value, place), all(place))
      BY DEF Surjection
    <3>2. IsFiniteSet(Keys(heap, value, place))
      BY <1>2
    <3>3. IsFiniteSet(all(place))
      BY <3>1, <3>2, FS_Surjection
    <3>4. F[place] = some(place) /\ some(place) \in SUBSET all(place)
      OBVIOUS
    <3> HIDE DEF F, all, some
    <3> QED BY <3>3, <3>4, FS_Subset
  <2>2. Deeper(heap, value, places) = UNION {F[place] : place \in places}
    BY DEF Deeper
  <2> HIDE DEF F
  <2> QED BY <1>3, <2>1, <2>2, UnionIsFinite
<1> DEFINE T == {d \in Nat : d <= MaxDepth => IsFiniteSet(level[d])}
<1>4. 0 \in T
  <2>1. level[0] \in SUBSET {<<>>}
    BY LevelsAre
  <2>2. IsFiniteSet({<<>>})
    BY FS_Singleton
  <2> QED BY <2>1, <2>2, FS_Subset
<1>5. ASSUME NEW d \in Nat, d \in T PROVE d + 1 \in T
  <2> SUFFICES ASSUME d + 1 <= MaxDepth PROVE IsFiniteSet(level[d + 1])
    OBVIOUS
  <2>1. d + 1 \in 1..MaxDepth /\ (d + 1) - 1 = d /\ d \in 0..MaxDepth /\ IsFiniteSet(level[d])
    BY <1>1, <1>5
  <2>2. level[d + 1] = Deeper(heap, value, level[d]) /\ level[d] \in SUBSET Ends(heap, value)
    BY <2>1, LevelsAre
  <2> QED BY <1>3, <2>1, <2>2
<1> HIDE DEF T, level
<1>6. Nat \subseteq T
  BY <1>4, <1>5, InductionOver
<1> USE DEF T
<1>7. \A d \in 0..MaxDepth : IsFiniteSet(level[d])
  BY <1>1, <1>6
<1>8. IsFiniteSet(0..MaxDepth)
  BY <1>1, FS_Interval
<1>9. Containers(heap, value) = UNION {level[d] : d \in 0..MaxDepth}
  BY DEF Containers, level
<1>10. IsFiniteSet(Containers(heap, value))
  <2> DEFINE S == 0..MaxDepth
  <2>1. IsFiniteSet(S) /\ \A d \in S : IsFiniteSet(level[d])
    BY <1>7, <1>8
  <2> HIDE DEF S
  <2>2. IsFiniteSet(UNION {level[d] : d \in S})
    BY <2>1, UnionIsFinite
  <2> QED BY <1>9, <2>2 DEF S
<1> QED BY <1>7, <1>10 DEF level

(* Where nothing is too deep, every node in a value has a place of its own.  *)
LEMMA ContainersAreClosed ==
    ASSUME NEW heap, NEW value, WithinDepth(heap, value)
    PROVE  /\ Containers(heap, value) \in SUBSET Ends(heap, value)
           /\ IsRef(heap, value) => <<>> \in Containers(heap, value)
           /\ \A place \in Containers(heap, value) : \A key :
                 key \in Keys(heap, value, place) /\ IsRef(heap, heap[At(heap, value, place)].items[key])
                     => Step(heap, value, place, key) \in Containers(heap, value)
<1>1. MaxDepth \in Nat
  BY JsonPatchingAssumption
<1>2. PICK level : level = Level(heap, value)
  OBVIOUS
<1>3. /\ level[0] = {place \in {<<>>} : IsRef(heap, value)}
      /\ \A d \in 1..MaxDepth : level[d] = Deeper(heap, value, level[d - 1])
      /\ \A d \in 0..MaxDepth : level[d] \in SUBSET Ends(heap, value)
  BY <1>2, LevelsAre
<1>4. Containers(heap, value) = UNION {level[d] : d \in 0..MaxDepth}
  BY <1>2 DEF Containers
<1>5. IsRef(heap, value) => <<>> \in Containers(heap, value)
  BY <1>1, <1>3, <1>4
<1>6. ASSUME NEW place \in Containers(heap, value), NEW key \in Keys(heap, value, place),
             IsRef(heap, heap[At(heap, value, place)].items[key])
      PROVE  Step(heap, value, place, key) \in Containers(heap, value)
  <2>1. PICK d \in 0..MaxDepth : place \in level[d]
    BY <1>4
  <2>2. d # MaxDepth
    BY <1>2, <1>6, <2>1 DEF WithinDepth
  <2>3. d + 1 \in 1..MaxDepth /\ (d + 1) - 1 = d /\ d + 1 \in 0..MaxDepth
    BY <1>1, <2>2
  <2>4. place \in Ends(heap, value)
    BY <1>3, <2>1
  <2>5. IsRef(heap, At(heap, value, Step(heap, value, place, key)))
    BY <1>6, <2>4, StepLeads
  <2>6. Step(heap, value, place, key) \in Deeper(heap, value, level[d])
    BY <2>1, <2>5 DEF Deeper
  <2>7. Step(heap, value, place, key) \in level[d + 1]
    BY <1>3, <2>3, <2>6
  <2> QED BY <1>4, <2>3, <2>7
<1> QED BY <1>3, <1>4, <1>5, <1>6


(* A copy is new, nowhere yet, and what was there before stays as it was.    *)
Extends(heap, more) ==
    /\ Sound(more) /\ DOMAIN heap \subseteq DOMAIN more
    /\ \A r \in DOMAIN heap : more[r] = heap[r]
    /\ \A v : Usable(heap, v) => Usable(more, v)
    /\ \A v : Loose(heap, v) => Loose(more, v)

(* cloneJsonValue: the copy is loose, with all its nodes new.                *)
LEMMA CloneIsNew ==
    ASSUME NEW heap, Sound(heap), NEW value, Usable(heap, value)
    PROVE  LET copy == CloneJsonValue(heap, value)
           IN  /\ Extends(heap, copy.heap) /\ Loose(copy.heap, copy.value)
               /\ copy.value \notin DOMAIN heap
<1>1. /\ heap \in Seq(Nodes) /\ DOMAIN heap = 1..Len(heap) /\ Len(heap) \in Nat
      /\ \A r \in DOMAIN heap : heap[r] \in Nodes
      /\ \A r \in DOMAIN heap : \A key \in DOMAIN heap[r].items :
            heap[r].items[key] \in Value /\ Known(heap, heap[r].items[key])
  BY SoundFacts
<1>2. CASE ~WithinDepth(heap, value)
  <2>1. CloneJsonValue(heap, value) = [heap |-> heap, value |-> Missing]
    BY <1>2 DEF CloneJsonValue
  <2>2. Extends(heap, heap)
    BY DEF Extends
  <2>3. Missing \notin DOMAIN heap /\ Loose(heap, Missing)
    BY <1>1, ValuesAreGiven DEF Loose, Known
  <2> QED BY <2>1, <2>2, <2>3
<1>3. CASE WithinDepth(heap, value)
  <2> DEFINE list == SetToSeq(Containers(heap, value))
             Ref(place) == Len(heap) + CHOOSE n \in DOMAIN list : list[n] = place
             item(place, key) == heap[At(heap, value, place)].items[key]
             OfItem(place, key) ==
                IF IsRef(heap, item(place, key)) THEN Ref(Step(heap, value, place, key))
                ELSE item(place, key)
             OfNode(place) ==
                [kind |-> heap[At(heap, value, place)].kind,
                 items |-> [key \in Keys(heap, value, place) |-> OfItem(place, key)]]
             new == [n \in DOMAIN list |-> OfNode(list[n])]
             result == IF IsRef(heap, value) THEN Ref(<<>>) ELSE value
  <2>1. CloneJsonValue(heap, value) = [heap |-> heap \o new, value |-> result]
    BY <1>3 DEF CloneJsonValue
  <2>2. /\ list \in Seq(Containers(heap, value)) /\ DOMAIN list = 1..Len(list) /\ Len(list) \in Nat
        /\ \A x \in Containers(heap, value) : \E n \in DOMAIN list : list[n] = x
        /\ \A n, m \in DOMAIN list : list[n] = list[m] => n = m
    <3>1. IsFiniteSet(Containers(heap, value))
      BY LevelsAreFinite
    <3>2. /\ list \in Seq(Containers(heap, value)) /\ DOMAIN list = 1..Len(list)
          /\ \A x \in Containers(heap, value) : \E n \in DOMAIN list : list[n] = x
          /\ \A n, m \in DOMAIN list : list[n] = list[m] => n = m
      BY <3>1, ListOfSet
    <3> QED BY <3>2
  <2> HIDE DEF list
  <2>3. /\ Containers(heap, value) \in SUBSET Ends(heap, value)
        /\ IsRef(heap, value) => <<>> \in Containers(heap, value)
        /\ \A place \in Containers(heap, value) : \A key :
              key \in Keys(heap, value, place) /\ IsRef(heap, item(place, key))
                  => Step(heap, value, place, key) \in Containers(heap, value)
    BY <1>3, ContainersAreClosed
  <2>4. /\ \A p \in Containers(heap, value) : Ref(p) \in (Len(heap) + 1)..(Len(heap) + Len(list))
        /\ \A p, q \in Containers(heap, value) : Ref(p) = Ref(q) => p = q
    <3> DEFINE place(n, p) == n \in DOMAIN list /\ list[n] = p
               first(p) == CHOOSE n \in DOMAIN list : list[n] = p
    <3>1. \A p \in Containers(heap, value) : first(p) \in DOMAIN list /\ list[first(p)] = p
      BY <2>2
    <3>2. \A p : Ref(p) = Len(heap) + first(p)
      OBVIOUS
    <3> HIDE DEF first, Ref
    <3>3. \A p \in Containers(heap, value) : first(p) \in 1..Len(list)
      BY <2>2, <3>1
    <3>4. ASSUME NEW p \in Containers(heap, value)
          PROVE  Ref(p) \in (Len(heap) + 1)..(Len(heap) + Len(list))
      <4>1. Len(heap) \in Nat /\ Len(list) \in Nat
        BY <1>1, <2>2
      <4>2. first(p) \in 1..Len(list)
        BY <3>3
      <4>3. Len(heap) + first(p) \in (Len(heap) + 1)..(Len(heap) + Len(list))
        BY <4>1, <4>2, SMT
      <4> QED BY <3>2, <4>3
    <3>5. ASSUME NEW p \in Containers(heap, value), NEW q \in Containers(heap, value), Ref(p) = Ref(q)
          PROVE  p = q
      <4>1. first(p) = first(q)
        <5>1. Len(heap) \in Nat /\ Len(list) \in Nat /\ first(p) \in 1..Len(list) /\ first(q) \in 1..Len(list)
          BY <1>1, <2>2, <3>3
        <5>2. Len(heap) + first(p) = Len(heap) + first(q)
          BY <3>2, <3>5
        <5> QED BY <5>1, <5>2, SMT
      <4> QED BY <3>1, <4>1
    <3> QED BY <3>4, <3>5
  <2> HIDE DEF Ref, item
  <2>5. ASSUME NEW place \in Containers(heap, value), NEW key \in Keys(heap, value, place)
        PROVE  /\ item(place, key) \in Value /\ Known(heap, item(place, key))
               /\ OfItem(place, key) \in Value
               /\ IsRef(heap, item(place, key)) =>
                     /\ OfItem(place, key) = Ref(Step(heap, value, place, key))
                     /\ OfItem(place, key) \in (Len(heap) + 1)..(Len(heap) + Len(list))
               /\ ~IsRef(heap, item(place, key)) => OfItem(place, key) \notin Nat
    <3>1. At(heap, value, place) \in DOMAIN heap
      BY <2>3 DEF Ends, IsRef
    <3>2. item(place, key) \in Value /\ Known(heap, item(place, key))
      BY <1>1, <3>1 DEF Keys, item
    <3>3. CASE IsRef(heap, item(place, key))
      <4>1. Step(heap, value, place, key) \in Containers(heap, value)
        BY <2>3, <3>3
      <4>2. OfItem(place, key) = Ref(Step(heap, value, place, key))
        BY <3>3
      <4>3. OfItem(place, key) \in (Len(heap) + 1)..(Len(heap) + Len(list))
        BY <2>4, <4>1, <4>2
      <4>4. OfItem(place, key) \in Value
        BY <1>1, <2>2, <4>3 DEF Value
      <4> QED BY <3>2, <3>3, <4>2, <4>3, <4>4
    <3>4. CASE ~IsRef(heap, item(place, key))
      BY <3>2, <3>4 DEF Known, IsRef
    <3> QED BY <3>3, <3>4
  <2> HIDE DEF OfItem
  <2>6. ASSUME NEW place \in Containers(heap, value)
        PROVE  OfNode(place) \in Nodes /\ DOMAIN OfNode(place).items = Keys(heap, value, place)
    <3> DEFINE node == heap[At(heap, value, place)]
               items == [key \in Keys(heap, value, place) |-> OfItem(place, key)]
    <3>1. node \in Nodes /\ Keys(heap, value, place) = DOMAIN node.items
      BY <1>1, <2>3 DEF Ends, IsRef, Keys
    <3>2. items \in [Keys(heap, value, place) -> Value] /\ OfNode(place) = [kind |-> node.kind, items |-> items]
      BY <2>5
    <3> HIDE DEF node, items
    <3>3. CASE node.kind = "array" /\ node.items \in Seq(Value)
      <4>1. Keys(heap, value, place) = 1..Len(node.items) /\ Len(node.items) \in Nat
        BY <3>1, <3>3
      <4>2. items \in Seq(Value)
        BY <3>2, <4>1
      <4> QED BY <3>2, <3>3, <4>2, NodesFromParts
    <3>4. CASE node.kind = "object" /\ DOMAIN node.items \in SUBSET Token
      BY <3>1, <3>2, <3>4, NodesFromParts
    <3> QED BY <3>1, <3>3, <3>4, NodeFacts
  <2> HIDE DEF OfNode
  <2>7. /\ new \in Seq(Nodes) /\ DOMAIN new = DOMAIN list /\ Len(new) = Len(list)
        /\ \A n \in DOMAIN list : list[n] \in Containers(heap, value)
    <3>1. \A n \in DOMAIN list : list[n] \in Containers(heap, value)
      BY <2>2
    <3>2. \A n \in 1..Len(list) : OfNode(list[n]) \in Nodes
      BY <2>2, <2>6, <3>1
    <3> QED BY <2>2, <3>1, <3>2
  <2>8. \A n \in DOMAIN new :
          /\ list[n] \in Containers(heap, value)
          /\ DOMAIN new[n].items = Keys(heap, value, list[n])
          /\ \A key \in DOMAIN new[n].items : new[n].items[key] = OfItem(list[n], key)
    <3> SUFFICES ASSUME NEW n \in DOMAIN new
        PROVE  /\ list[n] \in Containers(heap, value)
               /\ DOMAIN new[n].items = Keys(heap, value, list[n])
               /\ \A key \in DOMAIN new[n].items : new[n].items[key] = OfItem(list[n], key)
      OBVIOUS
    <3>1. list[n] \in Containers(heap, value) /\ new[n] = OfNode(list[n])
      BY <2>7
    <3> QED BY <2>6, <3>1 DEF OfNode
  <2> HIDE DEF new
  <2>9. \A n \in DOMAIN new : \A key \in DOMAIN new[n].items :
           \/ new[n].items[key] \notin Nat
           \/ new[n].items[key] \in (Len(heap) + 1)..(Len(heap) + Len(new))
    BY <2>5, <2>7, <2>8
  <2>10. ASSUME NEW n \in DOMAIN new, NEW m \in DOMAIN new, NEW key \in DOMAIN new[n].items,
                NEW other \in DOMAIN new[m].items,
                new[n].items[key] = new[m].items[other], new[n].items[key] \in Nat
         PROVE  n = m /\ key = other
    <3>1. /\ list[n] \in Containers(heap, value) /\ list[m] \in Containers(heap, value)
          /\ key \in Keys(heap, value, list[n]) /\ other \in Keys(heap, value, list[m])
          /\ OfItem(list[n], key) = OfItem(list[m], other) /\ OfItem(list[n], key) \in Nat
      BY <2>8, <2>10
    <3>2. IsRef(heap, item(list[n], key)) /\ IsRef(heap, item(list[m], other))
      BY <2>5, <3>1
    <3>3. Ref(Step(heap, value, list[n], key)) = Ref(Step(heap, value, list[m], other))
      BY <2>5, <3>1, <3>2
    <3>4. Step(heap, value, list[n], key) = Step(heap, value, list[m], other)
      BY <2>3, <2>4, <3>1, <3>2, <3>3
    <3>5. list[n] = list[m] /\ key = other
      BY <2>3, <3>1, <3>4, StepsAreOne
    <3> QED BY <2>2, <2>7, <3>5
  <2>11. /\ Sound(heap \o new)
         /\ DOMAIN heap \subseteq DOMAIN (heap \o new)
         /\ \A v : Usable(heap, v) => Usable(heap \o new, v)
         /\ \A v : Loose(heap, v) => Loose(heap \o new, v)
         /\ \A v \in (Len(heap) + 1)..(Len(heap) + Len(new)) :
               (\A n \in DOMAIN new : \A key \in DOMAIN new[n].items : new[n].items[key] # v)
                   => Loose(heap \o new, v)
    <3>1. PICK fresh : fresh = new
      OBVIOUS
    <3>2. /\ fresh \in Seq(Nodes)
          /\ \A n \in DOMAIN fresh : \A key \in DOMAIN fresh[n].items :
                \/ fresh[n].items[key] \notin Nat
                \/ fresh[n].items[key] \in (Len(heap) + 1)..(Len(heap) + Len(fresh))
      BY <2>7, <2>9, <3>1
    <3>3. \A n, m \in DOMAIN fresh :
            \A key \in DOMAIN fresh[n].items, other \in DOMAIN fresh[m].items :
               fresh[n].items[key] = fresh[m].items[other] /\ fresh[n].items[key] \in Nat
                   => n = m /\ key = other
      BY <2>10, <3>1
    <3>4. /\ Sound(heap \o fresh)
          /\ DOMAIN heap \subseteq DOMAIN (heap \o fresh)
          /\ \A v : Usable(heap, v) => Usable(heap \o fresh, v)
          /\ \A v : Loose(heap, v) => Loose(heap \o fresh, v)
          /\ \A v \in (Len(heap) + 1)..(Len(heap) + Len(fresh)) :
                (\A n \in DOMAIN fresh : \A key \in DOMAIN fresh[n].items : fresh[n].items[key] # v)
                    => Loose(heap \o fresh, v)
      BY <3>2, <3>3, Extended
    <3> QED BY <3>1, <3>4
  <2>12. \A r \in DOMAIN heap : (heap \o new)[r] = heap[r]
    BY <1>1, <2>7
  <2>13. Extends(heap, heap \o new)
    BY <2>11, <2>12 DEF Extends
  <2>14. Loose(heap \o new, result) /\ result \notin DOMAIN heap
    <3>1. CASE IsRef(heap, value)
      <4>1. result = Ref(<<>>) /\ <<>> \in Containers(heap, value)
        BY <2>3, <3>1
      <4>2. result \in (Len(heap) + 1)..(Len(heap) + Len(new))
        BY <2>4, <2>7, <4>1
      <4>3. ASSUME NEW n \in DOMAIN new, NEW key \in DOMAIN new[n].items, new[n].items[key] = result
            PROVE  FALSE
        <5>1. /\ list[n] \in Containers(heap, value) /\ key \in Keys(heap, value, list[n])
              /\ OfItem(list[n], key) = result
          BY <2>8, <4>3
        <5>2. result \in Nat
          BY <1>1, <4>2
        <5>3. IsRef(heap, item(list[n], key))
          BY <2>5, <5>1, <5>2
        <5>4. Ref(Step(heap, value, list[n], key)) = Ref(<<>>)
              /\ Step(heap, value, list[n], key) \in Containers(heap, value)
          BY <2>3, <2>5, <4>1, <5>1, <5>3
        <5>5. Step(heap, value, list[n], key) = <<>>
          BY <2>4, <4>1, <5>4
        <5> QED BY <2>3, <5>1, <5>5, StepLeads
      <4> HIDE DEF result
      <4>4. Loose(heap \o new, result)
        BY <2>11, <4>2, <4>3
      <4>5. result \notin DOMAIN heap
        BY <1>1, <4>2
      <4> QED BY <4>4, <4>5
    <3>2. CASE ~IsRef(heap, value)
      <4>1. result = value /\ value \notin DOMAIN heap
        BY <3>2 DEF IsRef
      <4>2. DOMAIN CallerHeap \subseteq DOMAIN heap
        BY SoundFacts
      <4>3. Loose(heap, value)
        BY <4>1, <4>2 DEF Loose, Usable
      <4> QED BY <2>11, <4>1, <4>3
    <3> QED BY <3>1, <3>2
  <2> HIDE DEF result
  <2> QED BY <2>1, <2>13, <2>14
<1> QED BY <1>2, <1>3


-----------------------------------------------------------------------------
(* The operations on a working state.                                        *)

(* What is before a place of a list, and what is from a later one on.        *)
LEMMA ItemsCut ==
    \A s \in Seq(Value) : \A from, upto \in Nat :
        1 <= from /\ from <= upto + 1 /\ upto <= Len(s) =>
            \E cut \in Seq(Value) :
               /\ cut = SubSeq(s, from, upto) /\ Len(cut) = upto - from + 1
               /\ \A i \in 1..(upto - from + 1) : cut[i] = s[from + i - 1]
<1> SUFFICES ASSUME NEW s \in Seq(Value), NEW from \in Nat, NEW upto \in Nat,
                    1 <= from, from <= upto + 1, upto <= Len(s)
    PROVE  \E cut \in Seq(Value) :
               /\ cut = SubSeq(s, from, upto) /\ Len(cut) = upto - from + 1
               /\ \A i \in 1..(upto - from + 1) : cut[i] = s[from + i - 1]
  BY Zenon
<1> QED BY CutIs

(* A list before one position and from another on.                           *)
LEMMA EndsAre ==
    \A s \in Seq(Value) : \A upto, next \in Nat :
        upto <= Len(s) /\ 1 <= next /\ next <= Len(s) + 1 =>
           \E before, after \in Seq(Value) :
              /\ before = SubSeq(s, 1, upto) /\ Len(before) = upto
              /\ \A i \in 1..upto : before[i] = s[i]
              /\ after = SubSeq(s, next, Len(s)) /\ Len(after) = Len(s) - next + 1
              /\ \A i \in 1..(Len(s) - next + 1) : after[i] = s[next + i - 1]
<1> SUFFICES ASSUME NEW s \in Seq(Value), NEW upto \in Nat, NEW next \in Nat,
                    upto <= Len(s), 1 <= next, next <= Len(s) + 1
    PROVE  \E before, after \in Seq(Value) :
              /\ before = SubSeq(s, 1, upto) /\ Len(before) = upto
              /\ \A i \in 1..upto : before[i] = s[i]
              /\ after = SubSeq(s, next, Len(s)) /\ Len(after) = Len(s) - next + 1
              /\ \A i \in 1..(Len(s) - next + 1) : after[i] = s[next + i - 1]
  BY Zenon
<1>1. PICK from \in Nat : from = 1
  OBVIOUS
<1>2. PICK before \in Seq(Value) :
         /\ before = SubSeq(s, from, upto) /\ Len(before) = upto - from + 1
         /\ \A i \in 1..(upto - from + 1) : before[i] = s[from + i - 1]
  <2>1. 1 <= from /\ from <= upto + 1
    BY <1>1
  <2> QED BY <2>1, ItemsCut, Zenon
<1>3. PICK n \in Nat : n = Len(s)
  BY Len(s) \in Nat
<1>4. PICK after \in Seq(Value) :
         /\ after = SubSeq(s, next, n) /\ Len(after) = n - next + 1
         /\ \A i \in 1..(n - next + 1) : after[i] = s[next + i - 1]
  <2>1. next <= n + 1 /\ n <= Len(s)
    BY <1>3
  <2> QED BY <2>1, ItemsCut, Zenon
<1>5. Len(before) = upto /\ \A i \in 1..upto : before[i] = s[i]
  BY <1>1, <1>2
<1>6. before = SubSeq(s, 1, upto)
  BY <1>1, <1>2, Zenon
<1> QED BY <1>3, <1>4, <1>5, <1>6, Zenon

(* Two lists joined.                                                         *)
LEMMA Joined ==
    ASSUME NEW s \in Seq(Value), NEW t \in Seq(Value), NEW whole, whole = s \o t
    PROVE  /\ whole \in Seq(Value) /\ Len(whole) = Len(s) + Len(t)
           /\ \A k \in 1..Len(s) : whole[k] = s[k]
           /\ \A k \in 1..Len(t) : whole[Len(s) + k] = t[k]
OBVIOUS

(* splice(position, 0, value): the items after it move up.                   *)
LEMMA InsertedIs ==
    ASSUME NEW s \in Seq(Value), NEW value \in Value, NEW at \in 1..(Len(s) + 1)
    PROVE  /\ InsertAt(s, at, value) \in Seq(Value)
           /\ DOMAIN InsertAt(s, at, value) = 1..(Len(s) + 1)
           /\ InsertAt(s, at, value)[at] = value
           /\ \A k \in 1..(Len(s) + 1) : k # at =>
                 InsertAt(s, at, value)[k] = s[IF k < at THEN k ELSE k - 1]
<1>1. PICK n \in Nat, upto \in Nat : n = Len(s) /\ upto = at - 1
  BY Len(s) \in Nat /\ at - 1 \in Nat
<1>2. /\ upto <= Len(s) /\ 1 <= at /\ at <= Len(s) + 1 /\ at \in Nat /\ at = upto + 1
  BY <1>1
<1>3. PICK before \in Seq(Value), after \in Seq(Value) :
              /\ before = SubSeq(s, 1, upto) /\ Len(before) = upto
              /\ \A i \in 1..upto : before[i] = s[i]
              /\ after = SubSeq(s, at, Len(s)) /\ Len(after) = Len(s) - at + 1
              /\ \A i \in 1..(Len(s) - at + 1) : after[i] = s[at + i - 1]
  BY <1>2, EndsAre, Zenon
<1>4. PICK whole : whole = before \o <<value>> \o after
  OBVIOUS
<1>5. InsertAt(s, at, value) = whole
  BY <1>1, <1>3, <1>4, Zenon DEF InsertAt
<1>6. /\ whole \in Seq(Value) /\ DOMAIN whole = 1..(Len(s) + 1) /\ whole[at] = value
      /\ \A k \in 1..(Len(s) + 1) : k # at => whole[k] = s[IF k < at THEN k ELSE k - 1]
  <2>1. PICK one \in Seq(Value) : one = <<value>> /\ Len(one) = 1 /\ one[1] = value
    <3>1. <<value>> \in Seq(Value) /\ Len(<<value>>) = 1 /\ <<value>>[1] = value
      OBVIOUS
    <3> QED BY <3>1, Zenon
  <2>2. PICK head : head = before \o one /\ whole = head \o after
    BY <1>4, <2>1, Zenon
  <2>3. /\ Len(before) \in Nat /\ Len(after) \in Nat /\ Len(s) \in Nat
        /\ Len(before) + 1 = at /\ at + Len(after) = Len(s) + 1
    <3>1. Len(before) = upto /\ Len(after) = Len(s) - at + 1
      BY <1>3
    <3>2. Len(before) \in Nat /\ Len(after) \in Nat /\ Len(s) \in Nat
      OBVIOUS
    <3> QED BY <1>2, <3>1, <3>2
  <2>4. /\ whole \in Seq(Value) /\ Len(whole) = Len(before) + 1 + Len(after)
        /\ DOMAIN whole = 1..(Len(before) + 1 + Len(after))
        /\ \A k \in 1..Len(before) : whole[k] = before[k]
        /\ whole[Len(before) + 1] = one[1]
        /\ \A k \in 1..Len(after) : whole[Len(before) + 1 + k] = after[k]
    <3>1. /\ head \in Seq(Value) /\ Len(head) = Len(before) + 1 /\ head[Len(before) + 1] = one[1]
          /\ \A k \in 1..Len(before) : head[k] = before[k]
      <4>1. /\ head \in Seq(Value) /\ Len(head) = Len(before) + Len(one)
            /\ \A k \in 1..Len(before) : head[k] = before[k]
            /\ \A k \in 1..Len(one) : head[Len(before) + k] = one[k]
        BY <2>2, Joined
      <4> QED BY <2>1, <4>1
    <3>2. /\ whole \in Seq(Value) /\ Len(whole) = Len(head) + Len(after)
          /\ \A k \in 1..Len(head) : whole[k] = head[k]
          /\ \A k \in 1..Len(after) : whole[Len(head) + k] = after[k]
      <4>1. whole = head \o after /\ head \in Seq(Value)
        BY <2>2, <3>1
      <4> QED BY <4>1, Joined
    <3>3. ASSUME NEW k \in 1..Len(before) PROVE whole[k] = before[k]
      <4>1. k \in 1..Len(head)
        BY <2>3, <3>1
      <4> QED BY <3>1, <3>2, <4>1
    <3>4. whole[Len(before) + 1] = one[1]
      <4>1. Len(before) + 1 \in 1..Len(head)
        BY <2>3, <3>1
      <4> QED BY <3>1, <3>2, <4>1
    <3>5. Len(whole) = Len(before) + 1 + Len(after) /\ DOMAIN whole = 1..Len(whole)
      BY <3>1, <3>2
    <3>6. \A k \in 1..Len(after) : whole[Len(before) + 1 + k] = after[k]
      BY <3>1, <3>2
    <3> QED BY <3>2, <3>3, <3>4, <3>5, <3>6
  <2>5. ASSUME NEW k \in 1..(Len(s) + 1), k # at
        PROVE  whole[k] = s[IF k < at THEN k ELSE k - 1]
    <3>1. CASE k < at
      <4>1. k \in 1..Len(before) /\ k \in 1..upto
        BY <1>2, <1>3, <2>3, <3>1
      <4> QED BY <1>3, <2>4, <3>1, <4>1
    <3>2. CASE k > at
      <4>1. PICK j \in 1..Len(after) : k = at + j /\ k - 1 = at + j - 1
        <5>1. k - at \in 1..Len(after) /\ k = at + (k - at) /\ k - 1 = at + (k - at) - 1
          BY <2>3, <3>2
        <5> QED BY <5>1
      <4>2. whole[k] = after[j]
        BY <2>3, <2>4, <4>1
      <4>3. after[j] = s[at + j - 1]
        BY <1>2, <1>3, <2>3
      <4>4. ~(k < at)
        BY <3>2, <2>3
      <4> QED BY <4>1, <4>2, <4>3, <4>4
    <3> QED BY <2>3, <2>5, <3>1, <3>2
  <2> QED BY <2>1, <2>3, <2>4, <2>5
<1> QED BY <1>5, <1>6

(* splice(position, 1): the items after it move down.                        *)
LEMMA RemovedIs ==
    ASSUME NEW s \in Seq(Value), NEW at \in 1..Len(s)
    PROVE  /\ RemoveAt(s, at) \in Seq(Value)
           /\ DOMAIN RemoveAt(s, at) = 1..(Len(s) - 1)
           /\ \A k \in 1..(Len(s) - 1) : RemoveAt(s, at)[k] = s[IF k < at THEN k ELSE k + 1]
<1>1. PICK n \in Nat, upto \in Nat, next \in Nat : n = Len(s) /\ upto = at - 1 /\ next = at + 1
  BY Len(s) \in Nat /\ at - 1 \in Nat /\ at + 1 \in Nat
<1>2. upto <= Len(s) /\ 1 <= next /\ next <= Len(s) + 1 /\ at = upto + 1 /\ at \in Nat
  BY <1>1
<1>3. PICK before \in Seq(Value), after \in Seq(Value) :
              /\ before = SubSeq(s, 1, upto) /\ Len(before) = upto
              /\ \A i \in 1..upto : before[i] = s[i]
              /\ after = SubSeq(s, next, Len(s)) /\ Len(after) = Len(s) - next + 1
              /\ \A i \in 1..(Len(s) - next + 1) : after[i] = s[next + i - 1]
  BY <1>2, EndsAre, Zenon
<1>4. PICK whole : whole = before \o after
  OBVIOUS
<1>5. RemoveAt(s, at) = whole
  BY <1>1, <1>3, <1>4, Zenon DEF RemoveAt
<1>6. /\ whole \in Seq(Value) /\ DOMAIN whole = 1..(Len(s) - 1)
      /\ \A k \in 1..(Len(s) - 1) : whole[k] = s[IF k < at THEN k ELSE k + 1]
  <2>1. /\ Len(before) \in Nat /\ Len(after) \in Nat /\ Len(s) \in Nat
        /\ Len(before) + 1 = at /\ at + Len(after) = Len(s) /\ next = at + 1
    BY <1>1, <1>2, <1>3
  <2>2. /\ whole \in Seq(Value) /\ Len(whole) = Len(before) + Len(after)
        /\ DOMAIN whole = 1..(Len(before) + Len(after))
        /\ \A k \in 1..Len(before) : whole[k] = before[k]
        /\ \A k \in 1..Len(after) : whole[Len(before) + k] = after[k]
    BY <1>4, <2>1
  <2>3. ASSUME NEW k \in 1..(Len(s) - 1) PROVE whole[k] = s[IF k < at THEN k ELSE k + 1]
    <3>1. CASE k < at
      BY <1>2, <1>3, <2>1, <2>2, <3>1
    <3>2. CASE k >= at
      <4>1. PICK j \in 1..Len(after) : k = Len(before) + j /\ k + 1 = next + j - 1
        <5>1. k - Len(before) \in 1..Len(after) /\ k = Len(before) + (k - Len(before))
              /\ k + 1 = next + (k - Len(before)) - 1
          BY <2>1, <3>2
        <5> QED BY <5>1
      <4>2. whole[k] = after[j]
        BY <2>1, <2>2, <4>1
      <4>3. after[j] = s[next + j - 1]
        BY <1>2, <1>3, <2>1
      <4>4. ~(k < at)
        BY <3>2, <2>1
      <4> QED BY <4>1, <4>2, <4>3, <4>4
    <3> QED BY <2>1, <3>1, <3>2
  <2> QED BY <2>1, <2>2, <2>3
<1> QED BY <1>5, <1>6

(* A working state whose document can be edited, and one that a handler      *)
(* leaves: what could be used before can be used after.                      *)
Intact(w) ==
    /\ w = [heap |-> w.heap, root |-> w.root, ok |-> w.ok]
    /\ Sound(w.heap) /\ Loose(w.heap, w.root)
Keeps(before, after) ==
    Intact(after) /\ \A v : Usable(before.heap, v) => Usable(after.heap, v)

(* Every array or object of the working document is the code's own.          *)
LEMMA ReachedIsOwn ==
    ASSUME NEW w, Intact(w), NEW S, NEW path \in Seq(S)
    PROVE  /\ Usable(w.heap, w.root)
           /\ Usable(w.heap, GetAtPath(w.heap, w.root, path))
           /\ IsRef(w.heap, GetAtPath(w.heap, w.root, path)) =>
                 GetAtPath(w.heap, w.root, path) \in Own(w.heap)
<1>1. Usable(w.heap, w.root) /\ w.root \notin DOMAIN CallerHeap /\ Sound(w.heap)
  BY DEF Intact, Loose, Usable
<1>2. /\ Usable(w.heap, GetAtPath(w.heap, w.root, path))
      /\ GetAtPath(w.heap, w.root, path) \notin DOMAIN CallerHeap
  BY <1>1, ReachedIsUsable
<1> QED BY <1>1, <1>2 DEF IsRef, Own

(* An error changes no object.                                               *)
LEMMA ThrowKeeps ==
    ASSUME NEW w, Intact(w)
    PROVE  Keeps(w, Throw(w)) /\ Keeps(w, w) /\ Throw(w).ok = FALSE
<1>1. PICK heap, root, ok : w = [heap |-> heap, root |-> root, ok |-> ok]
  BY DEF Intact
<1>2. Throw(w) = [heap |-> heap, root |-> root, ok |-> FALSE]
  <2>1. \A o : [w EXCEPT !.ok = o] = [heap |-> heap, root |-> root, ok |-> o]
    BY <1>1
  <2> QED BY <2>1, Zenon DEF Throw
<1>3. Sound(heap) /\ Loose(heap, root)
  BY <1>1 DEF Intact
<1> QED BY <1>1, <1>2, <1>3 DEF Keeps, Intact

(* A working state with one field changed, spelled out.                      *)
LEMMA EditIs ==
    ASSUME NEW w, Intact(w), NEW at, NEW items
    PROVE  /\ [w EXCEPT !.heap[at].items = items] =
                 [heap |-> [w.heap EXCEPT ![at].items = items], root |-> w.root, ok |-> w.ok]
           /\ \A more : [w EXCEPT !.heap = more] = [heap |-> more, root |-> w.root, ok |-> w.ok]
<1>1. PICK heap, root, ok : w = [heap |-> heap, root |-> root, ok |-> ok]
  BY DEF Intact
<1> QED BY <1>1

(* An edit of one node keeps the working document intact.                    *)
LEMMA EditKeeps ==
    ASSUME NEW w, Intact(w), NEW at, NEW v, NEW items, CanEdit(w.heap, at, v, items),
           v \in DOMAIN w.heap => v # w.root,
           NEW edited, IsEdited(w.heap, at, items, edited),
           NEW after, after = [heap |-> edited, root |-> w.root, ok |-> w.ok]
    PROVE  /\ Keeps(w, after) /\ after.root = w.root /\ after.ok = w.ok
           /\ after.heap = edited
<1>1. PICK heap, root, ok : w = [heap |-> heap, root |-> root, ok |-> ok]
  BY DEF Intact
<1>2. w.heap = heap /\ w.root = root /\ w.ok = ok
  BY <1>1
<1>3. IsEdited(heap, at, items, edited)
  BY <1>2
<1>4. after = [heap |-> edited, root |-> root, ok |-> ok]
  BY <1>2
<1>5. Sound(heap) /\ Loose(heap, root) /\ CanEdit(heap, at, v, items) /\ (v \in DOMAIN heap => v # root)
  BY <1>2, Zenon DEF Intact
<1>6. /\ Sound(edited)
      /\ \A u : Usable(heap, u) => Usable(edited, u)
      /\ \A u : Loose(heap, u) /\ (u \in DOMAIN heap => u # v) => Loose(edited, u)
  <2>1. CanEdit(heap, at, v, items)
    BY <1>5
  <2>2. /\ Sound(edited) /\ DOMAIN edited = DOMAIN heap
        /\ \A r \in DOMAIN heap : r # at => edited[r] = heap[r]
        /\ edited[at] = [kind |-> heap[at].kind, items |-> items]
        /\ \A u : Usable(heap, u) => Usable(edited, u)
        /\ \A u : Loose(heap, u) /\ (u \in DOMAIN heap => u # v) => Loose(edited, u)
    BY <1>3, <2>1, Edited
  <2> QED BY <2>2
<1>7. Loose(edited, root)
  BY <1>5, <1>6
<1>8. Keeps(w, after)
  BY <1>2, <1>4, <1>6, <1>7 DEF Keeps, Intact
<1> QED BY <1>2, <1>3, <1>4, <1>8

Edits(w, at, items, after) == after = [w EXCEPT !.heap[at].items = items]

(* The same of a working state that is edited in place.                      *)
LEMMA EditGives ==
    ASSUME NEW w, Intact(w), NEW at, NEW v, NEW items, CanEdit(w.heap, at, v, items),
           v \in DOMAIN w.heap => v # w.root, NEW after, Edits(w, at, items, after)
    PROVE  /\ Keeps(w, after) /\ IsEdited(w.heap, at, items, after.heap) /\ after.root = w.root
<1>1. PICK edited : IsEdited(w.heap, at, items, edited)
  BY DEF IsEdited
<1>2. after = [heap |-> edited, root |-> w.root, ok |-> w.ok]
  BY <1>1, EditIs, Zenon DEF IsEdited, Edits
<1>3. Keeps(w, after) /\ after.root = w.root /\ after.ok = w.ok /\ after.heap = edited
  BY <1>1, <1>2, EditKeeps
<1> QED BY <1>1, <1>3, Zenon

(* addAtPath of a loose value.                                               *)
LEMMA AddKeeps ==
    ASSUME NEW w, Intact(w), NEW value, Loose(w.heap, value),
           value \in DOMAIN w.heap => value # w.root, NEW path \in Seq(Token)
    PROVE  Keeps(w, AddAtPath(w, path, value))
<1>1. CASE path = <<>>
  <2>1. AddAtPath(w, path, value) = [heap |-> w.heap, root |-> value, ok |-> w.ok]
    BY <1>1 DEF AddAtPath, Intact
  <2> QED BY <2>1 DEF Keeps, Intact
<1>2. CASE path # <<>>
  <2> DEFINE parent == GetAtPath(w.heap, w.root, Front(path))
             token == Last(path)
             length == Len(w.heap[parent].items)
             position == IF token = <<"-">> THEN length + 1 ELSE Position(token)
             put == [key \in {token} \cup DOMAIN w.heap[parent].items |->
                        IF key = token THEN value ELSE w.heap[parent].items[key]]
             inserted == InsertAt(w.heap[parent].items, position, value)
             Case == IF ~IsRef(w.heap, parent) THEN Throw(w)
                     ELSE IF w.heap[parent].kind = "object"
                     THEN [w EXCEPT !.heap[parent].items = put]
                     ELSE IF position \notin 1..(length + 1) THEN Throw(w)
                     ELSE [w EXCEPT !.heap[parent].items = inserted]
  <2>1. AddAtPath(w, path, value) = Case
    BY <1>2 DEF AddAtPath
  <2>2. Front(path) \in Seq(Token) /\ token \in Token
    BY <1>2, FrontIs
  <2>3. CASE ~IsRef(w.heap, parent)
    BY <2>1, <2>3, ThrowKeeps
  <2>4. ASSUME IsRef(w.heap, parent) PROVE Keeps(w, Case)
    <3>1. PICK at : at = parent
      OBVIOUS
    <3>2. PICK node : node = w.heap[at]
      OBVIOUS
    <3>3. /\ at \in Own(w.heap) /\ Sound(w.heap)
      BY <2>2, <2>4, <3>1, ReachedIsOwn DEF Intact
    <3>4. node \in Nodes /\ at \in DOMAIN w.heap
      BY <3>2, <3>3, SoundFacts DEF Own
    <3>5. \A key, other \in DOMAIN node.items :
             node.items[key] = node.items[other] /\ node.items[key] \in DOMAIN w.heap => key = other
      BY <3>2, <3>3 DEF Sound, HeldOnce
    <3>6. value \in Value
      BY DEF Loose
    <3>7. \A key \in DOMAIN node.items : value \in DOMAIN w.heap => node.items[key] # value
      BY <3>2, <3>3 DEF Loose, Held
    <3>8. CASE node.kind = "object" /\ DOMAIN node.items \in SUBSET Token
      <4>1. PICK items : items = [key \in {token} \cup DOMAIN node.items |->
                                     IF key = token THEN value ELSE node.items[key]]
        OBVIOUS
      <4>2. [kind |-> node.kind, items |-> items] \in Nodes
        <5>1. {token} \cup DOMAIN node.items \in SUBSET Token
          BY <2>2, <3>8
        <5>2. items \in [{token} \cup DOMAIN node.items -> Value]
          BY <3>4, <3>6, <4>1, NodeFacts
        <5> QED BY <3>8, <5>1, <5>2, NodesFromParts
      <4>3. \A key \in DOMAIN items :
               items[key] = value \/ \E old \in DOMAIN node.items : items[key] = node.items[old]
        BY <4>1
      <4>4. \A key, other \in DOMAIN items :
               items[key] = items[other] /\ items[key] \in DOMAIN w.heap => key = other
        BY <3>5, <3>7, <4>1
      <4>5. Keeps(w, [w EXCEPT !.heap[at].items = items])
        <5>1. CanEdit(w.heap, at, value, items)
          BY <3>2, <3>3, <4>2, <4>3, <4>4 DEF CanEdit
        <5>2. PICK after : Edits(w, at, items, after)
          BY DEF Edits
        <5>3. Keeps(w, after)
          BY <5>1, <5>2, EditGives
        <5> QED BY <5>2, <5>3, Zenon DEF Edits
      <4>6. Case = [w EXCEPT !.heap[at].items = items]
        BY <2>4, <3>1, <3>2, <3>8, <4>1
      <4> QED BY <4>5, <4>6
    <3>9. CASE node.kind = "array" /\ node.items \in Seq(Value)
      <4>1. CASE position \notin 1..(length + 1)
        <5>1. Case = Throw(w)
          BY <2>4, <3>1, <3>2, <3>9, <4>1
        <5> QED BY <5>1, ThrowKeeps
      <4>2. CASE position \in 1..(length + 1)
        <5>1. PICK k : k = position
          OBVIOUS
        <5>2. PICK s \in Seq(Value) : s = node.items
          BY <3>9
        <5>3. k \in 1..(Len(s) + 1)
          BY <3>1, <3>2, <4>2, <5>1, <5>2
        <5>4. PICK items : items = InsertAt(s, k, value)
          OBVIOUS
        <5>5. /\ items \in Seq(Value) /\ DOMAIN items = 1..(Len(s) + 1) /\ items[k] = value
              /\ \A n \in 1..(Len(s) + 1) : n # k => items[n] = s[IF n < k THEN n ELSE n - 1]
          BY <3>6, <5>3, <5>4, InsertedIs
        <5>6. Len(s) \in Nat /\ DOMAIN s = 1..Len(s)
          OBVIOUS
        <5>7. [kind |-> node.kind, items |-> items] \in Nodes
          BY <3>9, <5>5, NodesFromParts
        <5>8. ASSUME NEW n \in DOMAIN items, n # k
              PROVE  (IF n < k THEN n ELSE n - 1) \in DOMAIN s
          BY <5>3, <5>5, <5>6, <5>8
        <5>9. \A n \in DOMAIN items :
                 items[n] = value \/ \E old \in DOMAIN node.items : items[n] = node.items[old]
          BY <5>2, <5>5, <5>8
        <5>10. ASSUME NEW n \in DOMAIN items, NEW m \in DOMAIN items,
                      items[n] = items[m], items[n] \in DOMAIN w.heap
               PROVE  n = m
          <6>1. CASE n = k \/ m = k
            BY <3>7, <5>2, <5>5, <5>8, <5>10, <6>1
          <6>2. CASE n # k /\ m # k
            <7>1. (IF n < k THEN n ELSE n - 1) = (IF m < k THEN m ELSE m - 1)
              BY <3>5, <5>2, <5>5, <5>8, <5>10, <6>2
            <7> QED BY <5>3, <5>5, <5>6, <6>2, <7>1
          <6> QED BY <6>1, <6>2
        <5>11. Keeps(w, [w EXCEPT !.heap[at].items = items])
          <6>1. CanEdit(w.heap, at, value, items)
            BY <3>2, <3>3, <5>7, <5>9, <5>10 DEF CanEdit
          <6>2. PICK after : Edits(w, at, items, after)
            BY DEF Edits
          <6>3. Keeps(w, after)
            BY <6>1, <6>2, EditGives
          <6> QED BY <6>2, <6>3, Zenon DEF Edits
        <5>12. Case = [w EXCEPT !.heap[at].items = items]
          BY <2>4, <3>1, <3>2, <3>9, <4>2, <5>1, <5>2, <5>4
        <5> QED BY <5>11, <5>12
      <4> QED BY <4>1, <4>2
    <3> QED BY <3>4, <3>8, <3>9, NodeFacts
  <2> QED BY <2>1, <2>3, <2>4
<1> QED BY <1>1, <1>2

(* Some items of a node of the code's own go, the one at a key among them.   *)
CanDrop(heap, at, gone, items) ==
    /\ at \in Own(heap) /\ gone \in DOMAIN heap[at].items
    /\ [kind |-> heap[at].kind, items |-> items] \in Nodes
    /\ \A key \in DOMAIN items : \E old \in DOMAIN heap[at].items :
          old # gone /\ items[key] = heap[at].items[old]
    /\ \A key, other \in DOMAIN items :
          items[key] = items[other] /\ items[key] \in DOMAIN heap => key = other

(* An item that is dropped is loose.                                         *)
LEMMA DropKeeps ==
    ASSUME NEW w, Intact(w), NEW at, NEW gone, NEW items, CanDrop(w.heap, at, gone, items),
           NEW after, Edits(w, at, items, after),
           NEW value, value = w.heap[at].items[gone]
    PROVE  /\ Keeps(w, after)
           /\ Loose(after.heap, value) /\ (value \in DOMAIN after.heap => value # after.root)
<1>1. PICK heap : heap = w.heap
  OBVIOUS
<1>2. Sound(heap) /\ Loose(heap, w.root) /\ at \in Own(heap) /\ at \in DOMAIN heap
      /\ gone \in DOMAIN heap[at].items /\ value = heap[at].items[gone]
      /\ CanDrop(heap, at, gone, items)
  BY <1>1, Zenon DEF Intact, Own, CanDrop
<1>3. value \in Value /\ Known(heap, value) /\ value \notin DOMAIN CallerHeap
  BY <1>2, SoundFacts DEF Sound, OwnItems
<1>4. Loose(heap, Missing) /\ Missing \notin DOMAIN heap
  BY <1>2, SoundFacts, ValuesAreGiven DEF Loose, Known
<1>5. CanEdit(heap, at, Missing, items)
  BY <1>2, <1>4 DEF CanEdit, CanDrop
<1>6. Keeps(w, after) /\ IsEdited(heap, at, items, after.heap) /\ after.root = w.root
  <2>1. CanEdit(w.heap, at, Missing, items) /\ (Missing \in DOMAIN w.heap => Missing # w.root)
    BY <1>1, <1>4, <1>5
  <2>2. Keeps(w, after) /\ IsEdited(w.heap, at, items, after.heap) /\ after.root = w.root
    BY <2>1, EditGives
  <2> QED BY <1>1, <2>2
<1>7. PICK edited : edited = after.heap
  OBVIOUS
<1>8. IsEdited(heap, at, items, edited)
  BY <1>6, <1>7
<1>9. /\ Sound(edited) /\ DOMAIN edited = DOMAIN heap
      /\ \A r \in DOMAIN heap : r # at => edited[r] = heap[r]
      /\ edited[at] = [kind |-> heap[at].kind, items |-> items]
      /\ \A u : Usable(heap, u) => Usable(edited, u)
      /\ \A u : Loose(heap, u) /\ (u \in DOMAIN heap => u # Missing) => Loose(edited, u)
      /\ \A u : /\ u \in Value /\ Known(heap, u) /\ u \notin DOMAIN CallerHeap
                /\ \A key \in DOMAIN items : items[key] # u
                /\ \A r \in Own(heap) : r # at =>
                      \A key \in DOMAIN heap[r].items : heap[r].items[key] # u
                => Loose(edited, u)
  BY <1>5, <1>8, Edited
<1>10. CASE value \in DOMAIN heap
  <2>1. \A r \in Own(heap) : r # at => \A key \in DOMAIN heap[r].items : heap[r].items[key] # value
    BY <1>2, <1>10 DEF Sound, HeldOnce
  <2>2. \A key \in DOMAIN items : items[key] # value
    BY <1>2, <1>10 DEF Sound, HeldOnce, CanDrop
  <2>3. Loose(edited, value)
    BY <1>3, <1>9, <2>1, <2>2
  <2>4. value # w.root
    BY <1>2, <1>10 DEF Loose, Held
  <2> QED BY <1>6, <1>7, <2>3, <2>4
<1>11. CASE value \notin DOMAIN heap
  <2>1. Loose(edited, value) /\ value \notin DOMAIN edited
    BY <1>3, <1>9, <1>11 DEF Loose, Known
  <2> QED BY <1>6, <1>7, <2>1
<1> QED BY <1>10, <1>11

(* removeAtPath: the value that was there is loose, unless it throws.        *)
LEMMA RemoveKeeps ==
    ASSUME NEW w, Intact(w), NEW path \in Seq(Token),
           NEW after, after = RemoveAtPath(w, path),
           NEW value, value = GetAtPath(w.heap, w.root, path)
    PROVE  /\ Keeps(w, after)
           /\ \/ after.ok = FALSE
              \/ Loose(after.heap, value) /\ (value \in DOMAIN after.heap => value # after.root)
<1>1. CASE path = <<>>
  BY <1>1, ThrowKeeps DEF RemoveAtPath
<1>2. CASE path # <<>>
  <2>1. PICK at, token : at = GetAtPath(w.heap, w.root, Front(path)) /\ token = Last(path)
    OBVIOUS
  <2>2. Front(path) \in Seq(Token) /\ token \in Token /\ value = Child(w.heap, at, token)
    BY <1>2, <2>1, PathsLead
  <2>3. PICK node : node = w.heap[at]
    OBVIOUS
  <2> DEFINE removed == RemoveAt(node.items, Position(token))
             kept == [key \in DOMAIN node.items \ {token} |-> node.items[key]]
  <2>4. after = IF value = Missing THEN Throw(w)
                ELSE IF node.kind = "array" THEN [w EXCEPT !.heap[at].items = removed]
                ELSE [w EXCEPT !.heap[at].items = kept]
    BY <1>2, <2>1, <2>2, <2>3, Zenon DEF RemoveAtPath
  <2>5. CASE value = Missing
    BY <2>4, <2>5, ThrowKeeps
  <2>6. CASE value # Missing
    <3>1. PICK k : k = KeyOf(w.heap, at, token)
      OBVIOUS
    <3>2. at \in DOMAIN w.heap /\ k \in DOMAIN node.items /\ value = node.items[k]
          /\ k = IF node.kind = "array" THEN Position(token) ELSE token
      BY <2>2, <2>3, <2>6, <3>1, ChildIs DEF KeyOf
    <3>3. Sound(w.heap) /\ at \in Own(w.heap)
      BY <2>1, <2>2, <3>2, ReachedIsOwn DEF Intact, IsRef
    <3>4. node \in Nodes
      BY <2>3, <3>2, <3>3, SoundFacts
    <3>5. \A key, other \in DOMAIN node.items :
             node.items[key] = node.items[other] /\ node.items[key] \in DOMAIN w.heap => key = other
      BY <2>3, <3>3 DEF Sound, HeldOnce
    <3>6. CASE node.kind = "array" /\ node.items \in Seq(Value)
      <4>1. PICK s \in Seq(Value) : s = node.items
        BY <3>6
      <4>2. k \in 1..Len(s)
        BY <3>2, <4>1
      <4>3. PICK items : items = RemoveAt(s, k)
        OBVIOUS
      <4>4. /\ items \in Seq(Value) /\ DOMAIN items = 1..(Len(s) - 1)
            /\ \A n \in 1..(Len(s) - 1) : items[n] = s[IF n < k THEN n ELSE n + 1]
        BY <4>2, <4>3, RemovedIs
      <4>5. Len(s) \in Nat /\ DOMAIN s = 1..Len(s)
        OBVIOUS
      <4>6. [kind |-> node.kind, items |-> items] \in Nodes
        BY <3>6, <4>4, NodesFromParts
      <4>7. ASSUME NEW n \in DOMAIN items
            PROVE  (IF n < k THEN n ELSE n + 1) \in DOMAIN s /\ (IF n < k THEN n ELSE n + 1) # k
        BY <4>2, <4>4, <4>5
      <4>8. \A n \in DOMAIN items : \E old \in DOMAIN node.items :
               old # k /\ items[n] = node.items[old]
        BY <4>1, <4>4, <4>7
      <4>9. ASSUME NEW n \in DOMAIN items, NEW m \in DOMAIN items,
                   items[n] = items[m], items[n] \in DOMAIN w.heap
            PROVE  n = m
        <5>1. (IF n < k THEN n ELSE n + 1) = (IF m < k THEN m ELSE m + 1)
          BY <3>5, <4>1, <4>4, <4>7, <4>9
        <5> QED BY <4>2, <4>4, <4>5, <5>1
      <4>10. after = [w EXCEPT !.heap[at].items = items]
        BY <2>4, <2>6, <3>2, <3>6, <4>1, <4>3, Zenon
      <4>11. CanDrop(w.heap, at, k, items) /\ value = w.heap[at].items[k]
        BY <2>3, <3>2, <3>3, <4>6, <4>8, <4>9 DEF CanDrop
      <4>12. Edits(w, at, items, after)
        BY <4>10, Zenon DEF Edits
      <4>13. Keeps(w, after) /\ Loose(after.heap, value) /\ (value \in DOMAIN after.heap => value # after.root)
        BY <4>11, <4>12, DropKeeps
      <4> QED BY <4>13
    <3>7. CASE node.kind = "object" /\ DOMAIN node.items \in SUBSET Token
      <4>1. PICK items : items = [key \in DOMAIN node.items \ {token} |-> node.items[key]]
        OBVIOUS
      <4>2. [kind |-> node.kind, items |-> items] \in Nodes
        <5>1. DOMAIN node.items \ {token} \in SUBSET Token
          BY <3>7
        <5>2. items \in [DOMAIN node.items \ {token} -> Value]
          BY <3>4, <4>1, NodeFacts
        <5> QED BY <3>7, <5>1, <5>2, NodesFromParts
      <4>3. k = token
        BY <3>2, <3>7
      <4>4. \A key \in DOMAIN items : \E old \in DOMAIN node.items :
               old # k /\ items[key] = node.items[old]
        BY <4>1, <4>3
      <4>5. \A key, other \in DOMAIN items :
               items[key] = items[other] /\ items[key] \in DOMAIN w.heap => key = other
        BY <3>5, <4>1
      <4>6. after = [w EXCEPT !.heap[at].items = items]
        BY <2>4, <2>6, <3>7, <4>1
      <4>7. CanDrop(w.heap, at, k, items) /\ value = w.heap[at].items[k]
        BY <2>3, <3>2, <3>3, <4>2, <4>4, <4>5 DEF CanDrop
      <4>8. Edits(w, at, items, after)
        BY <4>6, Zenon DEF Edits
      <4>9. Keeps(w, after) /\ Loose(after.heap, value) /\ (value \in DOMAIN after.heap => value # after.root)
        BY <4>7, <4>8, DropKeeps
      <4> QED BY <4>9
    <3> QED BY <3>4, <3>6, <3>7, NodeFacts
  <2> QED BY <2>5, <2>6
<1> QED BY <1>1, <1>2

(* A new value is made, with copies of what is to be in it, and can be put   *)
(* anywhere.                                                                 *)
IsNew(heap, made) ==
    Extends(heap, made.heap) /\ Loose(made.heap, made.value) /\ made.value \notin DOMAIN heap
IsCopy(heap, value, copy) == copy = CloneJsonValue(heap, value)
Grows(w, heap, after) == after = [w EXCEPT !.heap = heap]

(* The heap grows by what is made.                                           *)
LEMMA NewKeeps ==
    ASSUME NEW w, Intact(w), NEW made, IsNew(w.heap, made), NEW after, Grows(w, made.heap, after)
    PROVE  /\ Keeps(w, after) /\ after.heap = made.heap /\ after.root = w.root /\ after.ok = w.ok
           /\ Loose(after.heap, made.value)
           /\ (made.value \in DOMAIN after.heap => made.value # after.root)
<1>1. Sound(w.heap) /\ Loose(w.heap, w.root)
  BY DEF Intact
<1>2. PICK heap, new : heap = made.heap /\ new = made.value
  OBVIOUS
<1>3. Extends(w.heap, heap) /\ Loose(heap, new) /\ new \notin DOMAIN w.heap
  BY <1>2 DEF IsNew
<1>4. after = [heap |-> heap, root |-> w.root, ok |-> w.ok]
  BY <1>2, EditIs, Zenon DEF Grows
<1>5. Sound(heap) /\ Loose(heap, w.root) /\ \A u : Usable(w.heap, u) => Usable(heap, u)
  BY <1>1, <1>3 DEF Extends
<1>6. new \in DOMAIN heap => new # w.root
  <2> SUFFICES ASSUME new \in DOMAIN heap, new = w.root PROVE FALSE
    OBVIOUS
  <2>1. new \in Nat
    BY <1>5, SoundFacts
  <2> QED BY <1>1, <1>3, <2>1 DEF Loose, Known
<1>7. /\ after.heap = heap /\ after.root = w.root /\ after.ok = w.ok
      /\ after = [heap |-> after.heap, root |-> after.root, ok |-> after.ok]
  BY <1>4
<1>8. Keeps(w, after)
  BY <1>5, <1>7 DEF Keeps, Intact
<1> QED BY <1>2, <1>3, <1>6, <1>7, <1>8

(* A copy is new.                                                            *)
LEMMA CloneKeeps ==
    ASSUME NEW w, Intact(w), NEW value, Usable(w.heap, value),
           NEW copy, IsCopy(w.heap, value, copy)
    PROVE  IsNew(w.heap, copy)
<1>1. Sound(w.heap)
  BY DEF Intact
<1> QED BY <1>1, CloneIsNew DEF IsCopy, IsNew

(* One step after the other.                                                 *)
LEMMA KeepsOn ==
    ASSUME NEW w, NEW between, NEW after, Keeps(w, between), Keeps(between, after)
    PROVE  Keeps(w, after)
BY DEF Keeps

(* It is put somewhere.                                                      *)
LEMMA NewIsAdded ==
    ASSUME NEW w, Intact(w), NEW made, IsNew(w.heap, made), NEW path \in Seq(Token)
    PROVE  Keeps(w, AddAtPath([w EXCEPT !.heap = made.heap], path, made.value))
<1>1. PICK between : Grows(w, made.heap, between)
  BY DEF Grows
<1>2. /\ Keeps(w, between) /\ Loose(between.heap, made.value)
      /\ (made.value \in DOMAIN between.heap => made.value # between.root)
  BY <1>1, NewKeeps
<1>3. Intact(between)
  BY <1>2 DEF Keeps
<1>4. Keeps(between, AddAtPath(between, path, made.value))
  BY <1>2, <1>3, AddKeeps
<1>5. Keeps(w, AddAtPath(between, path, made.value))
  BY <1>2, <1>4, KeepsOn
<1> QED BY <1>1, <1>5, Zenon DEF Grows

(* A copy is put somewhere.                                                  *)
LEMMA CopyIsAdded ==
    ASSUME NEW w, Intact(w), NEW value, Usable(w.heap, value), NEW path \in Seq(Token)
    PROVE  LET copy == CloneJsonValue(w.heap, value)
           IN  Keeps(w, AddAtPath([w EXCEPT !.heap = copy.heap], path, copy.value))
<1>1. PICK copy : IsCopy(w.heap, value, copy)
  BY DEF IsCopy
<1>2. IsNew(w.heap, copy)
  BY <1>1, CloneKeeps
<1>3. Keeps(w, AddAtPath([w EXCEPT !.heap = copy.heap], path, copy.value))
  BY <1>2, NewIsAdded
<1> QED BY <1>1, <1>3, Zenon DEF IsCopy

(* applyAdd.                                                                 *)
LEMMA AddApplies ==
    ASSUME NEW w, Intact(w), NEW o, o.path \in Seq(Token), Usable(w.heap, o.value)
    PROVE  Keeps(w, ApplyAdd(w, o))
BY CopyIsAdded, Zenon DEF ApplyAdd

(* applyCopy.                                                                *)
LEMMA CopyApplies ==
    ASSUME NEW w, Intact(w), NEW o, o.path \in Seq(Token), o.from \in Seq(Token)
    PROVE  Keeps(w, ApplyCopy(w, o))
<1>1. PICK value : value = GetAtPath(w.heap, w.root, o.from)
  OBVIOUS
<1>2. Usable(w.heap, value)
  BY <1>1, ReachedIsOwn
<1>3. PICK added : added = LET copy == CloneJsonValue(w.heap, value)
                           IN  AddAtPath([w EXCEPT !.heap = copy.heap], o.path, copy.value)
  OBVIOUS
<1>4. Keeps(w, added)
  BY <1>2, <1>3, CopyIsAdded, Zenon
<1>5. ApplyCopy(w, o) = Throw(w) \/ ApplyCopy(w, o) = added
  BY <1>1, <1>3, Zenon DEF ApplyCopy
<1> QED BY <1>4, <1>5, ThrowKeeps

(* applyMove: what is moved is loose once it is removed.                     *)
LEMMA MoveApplies ==
    ASSUME NEW w, Intact(w), NEW o, o.path \in Seq(Token), o.from \in Seq(Token)
    PROVE  Keeps(w, ApplyMove(w, o))
<1>1. PICK value, removed : value = GetAtPath(w.heap, w.root, o.from) /\ removed = RemoveAtPath(w, o.from)
  OBVIOUS
<1>2. /\ Keeps(w, removed)
      /\ \/ removed.ok = FALSE
         \/ Loose(removed.heap, value) /\ (value \in DOMAIN removed.heap => value # removed.root)
  BY <1>1, RemoveKeeps
<1>3. PICK added : added = AddAtPath(removed, o.path, value)
  OBVIOUS
<1>4. removed.ok # FALSE => Keeps(w, added)
  <2> SUFFICES ASSUME removed.ok # FALSE PROVE Keeps(w, added)
    OBVIOUS
  <2>1. Intact(removed)
    BY <1>2 DEF Keeps
  <2>2. Keeps(removed, added)
    BY <1>2, <1>3, <2>1, AddKeeps
  <2> QED BY <1>2, <2>2, KeepsOn
<1>5. \/ ApplyMove(w, o) \in {Throw(w), w, removed}
      \/ removed.ok # FALSE /\ ApplyMove(w, o) = added
  BY <1>1, <1>3, Zenon DEF ApplyMove
<1> QED BY <1>2, <1>4, <1>5, ThrowKeeps

(* applyRemove.                                                              *)
LEMMA RemoveApplies ==
    ASSUME NEW w, Intact(w), NEW o, o.path \in Seq(Token)
    PROVE  Keeps(w, ApplyRemove(w, o))
<1>1. PICK after, value : after = RemoveAtPath(w, o.path) /\ value = GetAtPath(w.heap, w.root, o.path)
  OBVIOUS
<1>2. /\ Keeps(w, after)
      /\ \/ after.ok = FALSE
         \/ Loose(after.heap, value) /\ (value \in DOMAIN after.heap => value # after.root)
  BY <1>1, RemoveKeeps
<1> QED BY <1>1, <1>2, Zenon DEF ApplyRemove

(* applyTest.                                                                *)
LEMMA TestApplies ==
    ASSUME NEW w, Intact(w), NEW o
    PROVE  Keeps(w, ApplyTest(w, o))
<1>1. ApplyTest(w, o) = w \/ ApplyTest(w, o) = Throw(w)
  BY Zenon DEF ApplyTest
<1> QED BY <1>1, ThrowKeeps

(* applyReplace: the copy takes the place of the old value.                  *)
LEMMA ReplaceApplies ==
    ASSUME NEW w, Intact(w), NEW o, o.path \in Seq(Token), Usable(w.heap, o.value)
    PROVE  Keeps(w, ApplyReplace(w, o))
<1>1. PICK copy : IsCopy(w.heap, o.value, copy)
  BY DEF IsCopy
<1>2. PICK between : Grows(w, copy.heap, between)
  BY DEF Grows
<1>3. /\ Keeps(w, between) /\ Extends(w.heap, copy.heap)
      /\ between.heap = copy.heap /\ between.root = w.root /\ between.ok = w.ok
      /\ Loose(between.heap, copy.value)
      /\ (copy.value \in DOMAIN between.heap => copy.value # between.root)
  <2>1. IsNew(w.heap, copy)
    BY <1>1, CloneKeeps
  <2>2. Extends(w.heap, copy.heap)
    BY <2>1 DEF IsNew
  <2> QED BY <1>2, <2>1, <2>2, NewKeeps
<1>4. Intact(between)
  BY <1>3 DEF Keeps
<1>5. PICK heap, new, root, ok : heap = between.heap /\ new = copy.value /\ root = w.root /\ ok = w.ok
  OBVIOUS
<1>6. PICK path : path = o.path /\ path \in Seq(Token)
  OBVIOUS
<1>7. PICK at, token : at = GetAtPath(w.heap, w.root, Front(path)) /\ token = Last(path)
  OBVIOUS
<1>8. PICK key : key = KeyOf(w.heap, at, token)
  OBVIOUS
<1>9. PICK replaced : replaced = [heap EXCEPT ![at].items[key] = new]
  OBVIOUS
<1>10. w = [heap |-> w.heap, root |-> root, ok |-> ok]
  BY <1>5, Zenon DEF Intact
<1>11. CASE path = <<>>
  <2>3. PICK after : after = [heap |-> heap, root |-> new, ok |-> ok]
    OBVIOUS
  <2>4. ApplyReplace(w, o) = after
    BY <1>1, <1>3, <1>5, <1>6, <1>11, <2>3, Zenon DEF ApplyReplace, IsCopy
  <2>5. Sound(heap) /\ Loose(heap, new) /\ \A v : Usable(w.heap, v) => Usable(heap, v)
    BY <1>3, <1>4, <1>5 DEF Keeps, Intact
  <2>6. Keeps(w, after)
    BY <2>3, <2>5 DEF Keeps, Intact
  <2> QED BY <2>4, <2>6
<1>12. CASE path # <<>> /\ Child(w.heap, at, token) = Missing
  <2>1. ApplyReplace(w, o) = Throw(w)
    BY <1>6, <1>7, <1>12, Zenon DEF ApplyReplace
  <2> QED BY <2>1, ThrowKeeps
<1>13. CASE path # <<>> /\ Child(w.heap, at, token) # Missing
  <2>1. ApplyReplace(w, o) = [w EXCEPT !.heap = replaced]
    BY <1>1, <1>3, <1>5, <1>6, <1>7, <1>8, <1>9, <1>13, Zenon DEF ApplyReplace, IsCopy, KeyOf
  <2>2. Front(path) \in Seq(Token)
    BY <1>6, <1>13, PathsLead
  <2>3. at \in DOMAIN w.heap /\ key \in DOMAIN w.heap[at].items
    BY <1>8, <1>13, ChildIs
  <2>4. at \in Own(w.heap) /\ Sound(w.heap)
    BY <1>7, <2>2, <2>3, ReachedIsOwn DEF Intact, IsRef
  <2>5. at \in Own(heap) /\ heap[at] = w.heap[at] /\ at \in DOMAIN heap
    BY <1>3, <1>5, <2>4 DEF Extends, Own
  <2>6. PICK node : node = heap[at]
    OBVIOUS
  <2>7. Sound(heap) /\ Loose(heap, new)
    BY <1>3, <1>4, <1>5 DEF Intact
  <2>8. node \in Nodes /\ key \in DOMAIN node.items
    BY <2>3, <2>5, <2>6, <2>7, SoundFacts
  <2>9. PICK items : items = [node.items EXCEPT ![key] = new]
    OBVIOUS
  <2>10. DOMAIN items = DOMAIN node.items /\ items[key] = new
         /\ \A k \in DOMAIN node.items : k # key => items[k] = node.items[k]
    <3>1. node.items = [k \in DOMAIN node.items |-> node.items[k]]
      BY <2>8, NodeFacts
    <3> QED BY <2>8, <2>9, <3>1
  <2>11. [kind |-> node.kind, items |-> items] \in Nodes
    <3>1. new \in Value
      BY <2>7 DEF Loose
    <3>2. CASE node.kind = "array" /\ node.items \in Seq(Value)
      <4>1. items \in Seq(Value)
        BY <2>8, <2>9, <3>1, <3>2
      <4> QED BY <3>2, <4>1, NodesFromParts
    <3>3. CASE node.kind = "object" /\ DOMAIN node.items \in SUBSET Token
      <4>1. items \in [DOMAIN node.items -> Value]
        BY <2>8, <2>9, <3>1, NodeFacts
      <4> QED BY <3>3, <4>1, NodesFromParts
    <3> QED BY <2>8, <3>2, <3>3, NodeFacts
  <2>12. \A k \in DOMAIN items : items[k] = new \/ \E old \in DOMAIN node.items : items[k] = node.items[old]
    BY <2>10
  <2>13. \A k, other \in DOMAIN items : items[k] = items[other] /\ items[k] \in DOMAIN heap => k = other
    <3>1. \A k, other \in DOMAIN node.items :
             node.items[k] = node.items[other] /\ node.items[k] \in DOMAIN heap => k = other
      BY <2>5, <2>6, <2>7 DEF Sound, HeldOnce
    <3>2. \A k \in DOMAIN node.items : new \in DOMAIN heap => node.items[k] # new
      BY <2>5, <2>6, <2>7 DEF Loose, Held
    <3> QED BY <2>10, <3>1, <3>2
  <2>14. CanEdit(heap, at, new, items)
    BY <2>5, <2>6, <2>7, <2>11, <2>12, <2>13 DEF CanEdit
  <2>15. PICK edited : edited = [heap EXCEPT ![at].items = items]
    OBVIOUS
  <2>16. replaced = edited
    BY <1>9, <2>6, <2>9, <2>15
  <2>17. PICK after : after = [heap |-> edited, root |-> between.root, ok |-> between.ok]
    OBVIOUS
  <2>18. Keeps(between, after)
    <3>1. /\ CanEdit(between.heap, at, new, items) /\ (new \in DOMAIN between.heap => new # between.root)
          /\ IsEdited(between.heap, at, items, edited)
      BY <1>3, <1>5, <2>14, <2>15, Zenon DEF IsEdited
    <3>2. /\ Keeps(between, after) /\ after.root = between.root /\ after.ok = between.ok
          /\ after.heap = edited
      BY <1>4, <2>17, <3>1, EditKeeps
    <3> QED BY <3>2
  <2>19. ApplyReplace(w, o) = after
    BY <1>3, <2>1, <2>16, <2>17, EditIs, Zenon
  <2> QED BY <1>3, <2>18, <2>19, KeepsOn
<1> QED BY <1>11, <1>12, <1>13

-----------------------------------------------------------------------------
(* The patches that are under way.                                           *)

Text == Pointer \cup BadPointer \cup {<<>>}
WithValue(heap, o) ==
    o \in [op : {"add", "replace", "test"}, path : Text, value : Value] /\ Usable(heap, o.value)
IsPatchOperation(heap, o) ==
    \/ WithValue(heap, o)
    \/ o \in [op : {"remove"}, path : Text]
    \/ o \in [op : {"move", "copy"}, path : Text, from : Text]
Pointed(o) == \A member \in {"path", "from"} \cap DOMAIN o : ParseJsonPointer(o[member]) # Null

(* parseJsonPointer gives reference tokens.                                  *)
LEMMA TextsAreParsed ==
    ASSUME NEW text \in Text, ParseJsonPointer(text) # Null
    PROVE  ParseJsonPointer(text) \in Seq(Token)
<1>1. CASE text = <<>>
  <2>1. ParseJsonPointer(text) = <<>>
    BY <1>1 DEF ParseJsonPointer
  <2> QED BY <2>1
<1>2. CASE text # <<>>
  BY <1>2, PointerAssumption, Zenon DEF Text
<1> QED BY <1>1, <1>2

(* applyOperation, whichever it is.                                          *)
LEMMA OperationApplies ==
    ASSUME NEW w, Intact(w), NEW o, IsPatchOperation(w.heap, o), Pointed(o)
    PROVE  Keeps(w, ApplyOperation(w, o))
<1>1. PICK p : p = ParsePointerTokens(o)
  OBVIOUS
<1>2. ApplyOperation(w, o) = ApplyParsed(w, p)
  BY <1>1, Zenon DEF ApplyOperation
<1>3. \A member \in DOMAIN o :
         p[member] = IF member \in {"path", "from"} THEN ParseJsonPointer(o[member]) ELSE o[member]
  BY <1>1 DEF ParsePointerTokens
<1>4. /\ "op" \in DOMAIN o /\ "path" \in DOMAIN o /\ o.path \in Text
      /\ o.op \in {"move", "copy"} => "from" \in DOMAIN o /\ o.from \in Text
      /\ o.op \in {"add", "replace", "test"} => "value" \in DOMAIN o /\ Usable(w.heap, o.value)
      /\ o.op \in {"add", "replace", "test", "remove", "move", "copy"}
  <2>1. CASE WithValue(w.heap, o)
    BY <2>1 DEF WithValue
  <2>2. CASE o \in [op : {"remove"}, path : Text]
    BY <2>2
  <2>3. CASE o \in [op : {"move", "copy"}, path : Text, from : Text]
    BY <2>3
  <2> QED BY <2>1, <2>2, <2>3 DEF IsPatchOperation
<1>5. p.op = o.op
  BY <1>3, <1>4
<1>6. p.path = ParseJsonPointer(o.path) /\ p.path \in Seq(Token)
  <2>1. p.path = ParseJsonPointer(o.path) /\ ParseJsonPointer(o.path) # Null
    BY <1>3, <1>4 DEF Pointed
  <2> QED BY <1>4, <2>1, TextsAreParsed
<1>7. o.op \in {"move", "copy"} => p.from \in Seq(Token)
  <2> SUFFICES ASSUME o.op \in {"move", "copy"} PROVE p.from \in Seq(Token)
    OBVIOUS
  <2>1. p.from = ParseJsonPointer(o.from) /\ ParseJsonPointer(o.from) # Null
    BY <1>3, <1>4 DEF Pointed
  <2> QED BY <1>4, <2>1, TextsAreParsed
<1>8. o.op \in {"add", "replace", "test"} => Usable(w.heap, p.value)
  BY <1>3, <1>4
<1>9. CASE o.op = "add"
  BY <1>2, <1>5, <1>6, <1>8, <1>9, AddApplies DEF ApplyParsed
<1>10. CASE o.op = "remove"
  BY <1>2, <1>5, <1>6, <1>10, RemoveApplies DEF ApplyParsed
<1>11. CASE o.op = "replace"
  BY <1>2, <1>5, <1>6, <1>8, <1>11, ReplaceApplies DEF ApplyParsed
<1>12. CASE o.op = "move"
  BY <1>2, <1>5, <1>6, <1>7, <1>12, MoveApplies DEF ApplyParsed
<1>13. CASE o.op = "copy"
  BY <1>2, <1>5, <1>6, <1>7, <1>13, CopyApplies DEF ApplyParsed
<1>14. CASE o.op = "test"
  BY <1>2, <1>5, <1>14, TestApplies DEF ApplyParsed
<1> QED BY <1>4, <1>9, <1>10, <1>11, <1>12, <1>13, <1>14


(* A merge patch is a call too; a patch is one or the other.                 *)
PatchOps == {"add", "remove", "replace", "move", "copy", "test"}
Calls ==
    [op : {"add", "replace", "test"}, path : Text, value : Value]
    \cup [op : {"remove"}, path : Text]
    \cup [op : {"move", "copy"}, path : Text, from : Text]
    \cup [op : {"merge"}, value : Value]
IsCall(heap, o) == o \in Calls /\ ("value" \in DOMAIN o => Usable(heap, o.value))
AreCalls(heap, p, ops) ==
    p \in Seq(Calls) /\ \A k \in DOMAIN p : IsCall(heap, p[k]) /\ p[k].op \in ops
Fits(heap, p) == AreCalls(heap, p, PatchOps) \/ AreCalls(heap, p, {"merge"})

(* The members of an operation, by its kind.                                 *)
LEMMA CallFields ==
    ASSUME NEW o \in Calls
    PROVE  /\ \/ o \in [op : {"add", "replace", "test"}, path : Text, value : Value]
                 /\ "value" \in DOMAIN o /\ "path" \in DOMAIN o /\ "from" \notin DOMAIN o
              \/ o \in [op : {"remove"}, path : Text]
                 /\ "value" \notin DOMAIN o /\ "path" \in DOMAIN o /\ "from" \notin DOMAIN o
              \/ o \in [op : {"move", "copy"}, path : Text, from : Text]
                 /\ "value" \notin DOMAIN o /\ "path" \in DOMAIN o /\ "from" \in DOMAIN o
              \/ o \in [op : {"merge"}, value : Value]
                 /\ "value" \in DOMAIN o /\ "path" \notin DOMAIN o /\ "from" \notin DOMAIN o
           /\ \A v \in Value : "value" \in DOMAIN o =>
                 /\ [o EXCEPT !.value = v] \in Calls /\ [o EXCEPT !.value = v].value = v
                 /\ [o EXCEPT !.value = v].op = o.op
<1>1. CASE o \in [op : {"add", "replace", "test"}, path : Text, value : Value]
  <2>1. /\ "value" \in DOMAIN o /\ "path" \in DOMAIN o /\ "from" \notin DOMAIN o
        /\ \A v \in Value :
              /\ [o EXCEPT !.value = v] \in [op : {"add", "replace", "test"}, path : Text, value : Value]
              /\ [o EXCEPT !.value = v].value = v /\ [o EXCEPT !.value = v].op = o.op
    BY <1>1
  <2> QED BY <1>1, <2>1 DEF Calls
<1>2. CASE o \in [op : {"remove"}, path : Text]
  <2>1. "value" \notin DOMAIN o /\ "path" \in DOMAIN o /\ "from" \notin DOMAIN o
    BY <1>2
  <2> QED BY <1>2, <2>1
<1>3. CASE o \in [op : {"move", "copy"}, path : Text, from : Text]
  <2>1. "value" \notin DOMAIN o /\ "path" \in DOMAIN o /\ "from" \in DOMAIN o
    BY <1>3
  <2> QED BY <1>3, <2>1
<1>4. CASE o \in [op : {"merge"}, value : Value]
  <2>1. /\ "value" \in DOMAIN o /\ "path" \notin DOMAIN o /\ "from" \notin DOMAIN o
        /\ \A v \in Value :
              /\ [o EXCEPT !.value = v] \in [op : {"merge"}, value : Value]
              /\ [o EXCEPT !.value = v].value = v /\ [o EXCEPT !.value = v].op = o.op
    BY <1>4
  <2> QED BY <1>4, <2>1 DEF Calls
<1> QED BY <1>1, <1>2, <1>3, <1>4 DEF Calls

(* A call that is no merge is an operation of a patch.                       *)
LEMMA CallIsOperation ==
    ASSUME NEW heap, NEW o, IsCall(heap, o), o.op \in PatchOps
    PROVE  IsPatchOperation(heap, o)
<1>1. o \in Calls /\ o.op # "merge"
  BY DEF IsCall, PatchOps
<1>2. o \notin [op : {"merge"}, value : Value]
  BY <1>1
<1> QED BY <1>1, <1>2, CallFields DEF IsCall, IsPatchOperation, WithValue

(* A patch that fits a heap fits one in which all can be used still.         *)
LEMMA CallsStay ==
    ASSUME NEW heap, NEW more, \A v : Usable(heap, v) => Usable(more, v)
    PROVE  /\ \A o : IsCall(heap, o) => IsCall(more, o)
           /\ \A p, ops : AreCalls(heap, p, ops) => AreCalls(more, p, ops)
           /\ \A p : Fits(heap, p) => Fits(more, p)
BY DEF IsCall, AreCalls, Fits

(* What parsing has come to.                                                 *)
Parsings(ops) ==
    {p \in [heap : Seq(Nodes), patch : Seq(Calls)] : Sound(p.heap) /\ AreCalls(p.heap, p.patch, ops)}

(* parseOperation of one more operation.                                     *)
LEMMA ParseStep ==
    ASSUME NEW ops, NEW parsed \in Parsings(ops), NEW o, IsCall(CallerHeap, o), o.op \in ops
    PROVE  ParseOperation(parsed, o) \in Parsings(ops)
<1>1. PICK heap \in Seq(Nodes), p \in Seq(Calls) : parsed = [heap |-> heap, patch |-> p]
  BY DEF Parsings
<1>2. Sound(heap) /\ AreCalls(heap, p, ops) /\ parsed.heap = heap /\ parsed.patch = p
  BY <1>1 DEF Parsings
<1>3. o \in Calls /\ ("value" \in DOMAIN o => Usable(heap, o.value))
  BY <1>2, SoundFacts DEF IsCall, Usable, Known
<1>4. ASSUME NEW more, Sound(more), \A v : Usable(heap, v) => Usable(more, v),
             NEW c \in Calls, IsCall(more, c), c.op \in ops
      PROVE  [heap |-> more, patch |-> Append(p, c)] \in Parsings(ops)
  <2>1. AreCalls(more, p, ops)
    BY <1>2, <1>4, CallsStay
  <2>2. AreCalls(more, Append(p, c), ops)
    BY <1>4, <2>1 DEF AreCalls
  <2>3. more \in Seq(Nodes) /\ Append(p, c) \in Seq(Calls)
    BY <1>4, SoundFacts
  <2> QED BY <1>4, <2>2, <2>3 DEF Parsings
<1>5. CASE "value" \notin DOMAIN o
  <2>1. [parsed EXCEPT !.patch = Append(p, o)] = [heap |-> heap, patch |-> Append(p, o)]
    <3>1. \A q : [parsed EXCEPT !.patch = q] = [heap |-> heap, patch |-> q]
      BY <1>1
    <3> QED BY <3>1, Zenon
  <2>2. ParseOperation(parsed, o) = [heap |-> heap, patch |-> Append(p, o)]
    BY <1>2, <1>5, <2>1, Zenon DEF ParseOperation
  <2>3. [heap |-> heap, patch |-> Append(p, o)] \in Parsings(ops)
    BY <1>2, <1>3, <1>4, <1>5 DEF IsCall
  <2> QED BY <2>2, <2>3
<1>6. CASE "value" \in DOMAIN o
  <2>1. PICK more, value : /\ more = CloneJsonValue(heap, o.value).heap
                           /\ value = CloneJsonValue(heap, o.value).value
    OBVIOUS
  <2>2. Extends(heap, more) /\ Loose(more, value)
    BY <1>2, <1>3, <1>6, <2>1, CloneIsNew
  <2>3. PICK c : c = [o EXCEPT !.value = value]
    OBVIOUS
  <2>4. ParseOperation(parsed, o) = [heap |-> more, patch |-> Append(p, c)]
    BY <1>2, <1>6, <2>1, <2>3, Zenon DEF ParseOperation
  <2>5. c \in Calls /\ c.value = value /\ c.op \in ops
    BY <1>3, <1>6, <2>2, <2>3, CallFields DEF Loose
  <2>6. IsCall(more, c)
    BY <2>2, <2>5 DEF IsCall, Loose, Usable
  <2> QED BY <1>4, <2>2, <2>4, <2>5, <2>6 DEF Extends
<1> QED BY <1>5, <1>6

(* parseJsonPatch: a patch of its own, for the heap it leaves.               *)
LEMMA ParsedFits ==
    ASSUME NEW heap, heap = CallerHeap, NEW p, Fits(heap, p), Sound(heap)
    PROVE  LET Parsed[n \in 0..Len(p)] ==
                   IF n = 0 THEN [heap |-> heap, patch |-> <<>>]
                   ELSE ParseOperation(Parsed[n - 1], p[n])
           IN  Sound(Parsed[Len(p)].heap) /\ Fits(Parsed[Len(p)].heap, Parsed[Len(p)].patch)
<1>1. PICK ops \in {PatchOps, {"merge"}} : AreCalls(CallerHeap, p, ops)
  BY DEF Fits
<1> DEFINE n == Len(p)
           X == Parsings(ops)
           base == [heap |-> heap, patch |-> <<>>]
           next == [k \in 1..n |-> [parsed \in X |-> ParseOperation(parsed, p[k])]]
           Solves(f) == f = [k \in 0..n |-> IF k = 0 THEN base ELSE ParseOperation(f[k - 1], p[k])]
<1>2. n \in Nat /\ DOMAIN p = 1..n /\ \A k \in 1..n : IsCall(CallerHeap, p[k]) /\ p[k].op \in ops
  BY <1>1 DEF AreCalls
<1>3. base \in X
  <2>1. <<>> \in Seq(Calls) /\ AreCalls(CallerHeap, <<>>, ops) /\ CallerHeap \in Seq(Nodes)
    BY SoundFacts DEF AreCalls
  <2> QED BY <2>1 DEF Parsings
<1>4. \A k \in 1..n, parsed \in X : ParseOperation(parsed, p[k]) \in X
  BY <1>2, ParseStep
<1> HIDE DEF X, n, base
<1>5. next \in [1..n -> [X -> X]] /\ \A k \in 1..n, v \in X : next[k][v] = ParseOperation(v, p[k])
  BY <1>4
<1> HIDE DEF next
<1>6. PICK f \in [0..n -> X] : Follows(f, n, base, next)
  BY <1>2, <1>3, <1>5, RecursionExists
<1>7. ASSUME NEW k \in 0..n
      PROVE  f[k] = IF k = 0 THEN base ELSE ParseOperation(f[k - 1], p[k])
  <2>1. CASE k = 0
    BY <1>6, <2>1 DEF Follows
  <2>2. CASE k # 0
    <3>1. k \in 1..n /\ k - 1 \in 0..n
      BY <1>2, <2>2
    <3>2. f[k - 1] \in X /\ f[k] = next[k][f[k - 1]]
      BY <1>6, <3>1 DEF Follows
    <3> QED BY <1>5, <2>2, <3>1, <3>2
  <2> QED BY <2>1, <2>2
<1>8. Solves(f)
  BY <1>7
<1>9. PICK g : g = CHOOSE h : Solves(h)
  OBVIOUS
<1>10. Solves(g)
  BY <1>8, <1>9
<1>11. g[0] = base /\ \A k \in 1..n : g[k] = ParseOperation(g[k - 1], p[k])
  <2>1. \A k \in 0..n : g[k] = IF k = 0 THEN base ELSE ParseOperation(g[k - 1], p[k])
    BY <1>10
  <2> QED BY <1>2, <2>1
<1> DEFINE T == {k \in Nat : k <= n => g[k] \in X}
<1>12. 0 \in T
  BY <1>3, <1>11
<1>13. ASSUME NEW k \in Nat, k \in T PROVE k + 1 \in T
  <2> SUFFICES ASSUME k + 1 <= n PROVE g[k + 1] \in X
    OBVIOUS
  <2>1. k + 1 \in 1..n /\ (k + 1) - 1 = k /\ g[k] \in X
    BY <1>2, <1>13
  <2> QED BY <1>4, <1>11, <2>1
<1> HIDE DEF T
<1>14. Nat \subseteq T
  BY <1>12, <1>13, InductionOver
<1> USE DEF T
<1>15. g[n] \in X
  BY <1>2, <1>14
<1>16. Sound(g[n].heap) /\ Fits(g[n].heap, g[n].patch)
  BY <1>1, <1>15 DEF X, Parsings, Fits
<1> QED BY <1>9, <1>16, Zenon DEF n, base


-----------------------------------------------------------------------------
(* A merge patch is applied member by member.                                *)

(* cloneJsonObject of a target that is an object, or a new {}.               *)
LEMMA NextTargetIsNew ==
    ASSUME NEW heap, Sound(heap), NEW value, Usable(heap, value)
    PROVE  LET next == NextTarget(heap, value)
           IN  /\ Extends(heap, next.heap) /\ Loose(next.heap, next.value)
               /\ next.value \notin DOMAIN heap
<1>1. CASE IsObject(heap, value)
  BY <1>1, CloneIsNew DEF NextTarget, CloneMergePatchValue
<1>2. CASE ~IsObject(heap, value)
  <2>1. PICK node : node = [kind |-> "object", items |-> <<>>]
    OBVIOUS
  <2>2. node \in Nodes /\ DOMAIN node.items = {}
    <3>1. PICK items : items = <<>>
      OBVIOUS
    <3>2. DOMAIN items = {} /\ items = [key \in {} |-> items[key]]
      BY <3>1
    <3>3. items \in [{} -> Value] /\ {} \in SUBSET Token
      BY <3>2
    <3> QED BY <2>1, <3>1, <3>2, <3>3, NodesFromParts
  <2>3. PICK new : new = <<node>>
    OBVIOUS
  <2>4. /\ new \in Seq(Nodes) /\ Len(new) = 1 /\ DOMAIN new = {1}
        /\ \A n \in DOMAIN new : DOMAIN new[n].items = {}
    BY <2>2, <2>3
  <2>5. /\ heap \in Seq(Nodes) /\ DOMAIN heap = 1..Len(heap) /\ Len(heap) \in Nat
    BY SoundFacts
  <2>6. NextTarget(heap, value) = [heap |-> heap \o new, value |-> Len(heap) + 1]
    <3>1. Append(heap, node) = heap \o new
      BY <2>2, <2>3, <2>5
    <3> QED BY <1>2, <2>1, <3>1, Zenon DEF NextTarget
  <2>7. /\ \A n \in DOMAIN new : \A key \in DOMAIN new[n].items :
              \/ new[n].items[key] \notin Nat
              \/ new[n].items[key] \in (Len(heap) + 1)..(Len(heap) + Len(new))
        /\ \A n, m \in DOMAIN new :
              \A key \in DOMAIN new[n].items, other \in DOMAIN new[m].items :
                 new[n].items[key] = new[m].items[other] /\ new[n].items[key] \in Nat
                     => n = m /\ key = other
    BY <2>4
  <2>8. new \in Seq(Nodes)
    BY <2>4
  <2>9. /\ Sound(heap \o new)
        /\ DOMAIN heap \subseteq DOMAIN (heap \o new)
        /\ \A v : Usable(heap, v) => Usable(heap \o new, v)
        /\ \A v : Loose(heap, v) => Loose(heap \o new, v)
        /\ \A v \in (Len(heap) + 1)..(Len(heap) + Len(new)) :
              (\A n \in DOMAIN new : \A key \in DOMAIN new[n].items : new[n].items[key] # v)
                  => Loose(heap \o new, v)
    BY <2>7, <2>8, Extended
  <2>10. \A r \in DOMAIN heap : (heap \o new)[r] = heap[r]
    BY <2>5, <2>8
  <2>11. PICK at : at = Len(heap) + 1
    OBVIOUS
  <2>12. at \in (Len(heap) + 1)..(Len(heap) + Len(new)) /\ at \notin DOMAIN heap
    BY <2>4, <2>5, <2>11
  <2>13. Loose(heap \o new, at)
    BY <2>4, <2>9, <2>12
  <2>14. Extends(heap, heap \o new)
    BY <2>9, <2>10 DEF Extends
  <2> QED BY <2>6, <2>11, <2>12, <2>13, <2>14
<1> QED BY <1>1, <1>2

(* The places of the members, each with its names and a value.               *)
MemberPlaces(heap) ==
    {place \in Seq(Steps(heap)) :
        place # <<>> /\ \A i \in DOMAIN place : place[i][2] \in Token}

(* A member's names are reference tokens, and its value can be used.         *)
LEMMA MemberPlaceFacts ==
    ASSUME NEW heap, Sound(heap), NEW patchValue, NEW place \in MemberPlaces(heap)
    PROVE  /\ [i \in DOMAIN place |-> place[i][2]] \in Seq(Token)
           /\ Usable(heap, At(heap, patchValue, place))
<1>1. place \in Seq(Steps(heap)) /\ place # <<>> /\ \A i \in DOMAIN place : place[i][2] \in Token
  BY DEF MemberPlaces
<1>2. Last(place) \in Steps(heap)
  BY <1>1, FrontIs
<1>3. Last(place)[1] \in DOMAIN heap /\ Last(place)[2] \in DOMAIN heap[Last(place)[1]].items
  BY <1>2 DEF Steps
<1>4. Usable(heap, At(heap, patchValue, place))
  BY <1>1, <1>3, SoundFacts DEF At, Usable
<1>5. DOMAIN place = 1..Len(place) /\ Len(place) \in Nat
  BY <1>1
<1>6. \A i \in 1..Len(place) : place[i][2] \in Token
  BY <1>1, <1>5
<1>7. PICK names : names = [i \in 1..Len(place) |-> place[i][2]]
  OBVIOUS
<1>8. names \in Seq(Token)
  BY <1>5, <1>6, <1>7
<1> QED BY <1>4, <1>5, <1>7, <1>8

(* A finite set has a finite image.                                          *)
LEMMA ImageIsFinite ==
    ASSUME NEW S, IsFiniteSet(S), NEW f, DOMAIN f = S
    PROVE  IsFiniteSet({f[x] : x \in S})
<1>1. PICK g : g = [x \in S |-> f[x]]
  OBVIOUS
<1>2. g \in Surjection(S, {f[x] : x \in S})
  BY <1>1 DEF Surjection
<1> QED BY <1>2, FS_Surjection


(* The members at one depth, and those of all depths in order.               *)
LEMMA MembersAre ==
    ASSUME NEW heap, Sound(heap), NEW value, NEW depth \in 0..MaxDepth
    PROVE  /\ MembersAt(heap, value, depth) \in SUBSET MemberPlaces(heap)
           /\ IsFiniteSet(MembersAt(heap, value, depth))
<1> DEFINE objects == {place \in Level(heap, value)[depth] :
                          /\ IsObject(heap, At(heap, value, place))
                          /\ \A i \in DOMAIN place : IsObject(heap, place[i][1])}
           all(place) == {Step(heap, value, place, name) : name \in Keys(heap, value, place)}
           F == [place \in objects |-> all(place)]
<1>1. Level(heap, value)[depth] \in SUBSET Ends(heap, value)
  BY LevelsAre
<1>2. IsFiniteSet(Level(heap, value)[depth])
  BY LevelsAreFinite
<1>3. IsFiniteSet(objects) /\ objects \in SUBSET Ends(heap, value)
  BY <1>1, <1>2, FS_Subset
<1>4. ASSUME NEW r \in DOMAIN heap, IsObject(heap, r) PROVE DOMAIN heap[r].items \in SUBSET Token
  <2>1. PICK node : node = heap[r]
    OBVIOUS
  <2>2. node \in Nodes /\ node.kind = "object"
    BY <1>4, <2>1, SoundFacts DEF IsObject
  <2> QED BY <2>1, <2>2, NodeFacts
<1>5. ASSUME NEW place \in objects, NEW name \in Keys(heap, value, place)
      PROVE  Step(heap, value, place, name) \in MemberPlaces(heap)
  <2>1. place \in Ends(heap, value) /\ place \in Seq(Steps(heap))
    BY <1>3 DEF Ends
  <2>2. PICK member, at : member = Step(heap, value, place, name) /\ at = At(heap, value, place)
    OBVIOUS
  <2>3. member \in Seq(Steps(heap)) /\ member # <<>>
    BY <2>1, <2>2, StepLeads
  <2>4. member = Append(place, <<at, name>>)
    BY <2>2 DEF Step
  <2>5. IsObject(heap, at) /\ name \in DOMAIN heap[at].items
    BY <1>5, <2>2 DEF Keys
  <2>6. name \in Token
    BY <1>4, <2>5 DEF IsObject, IsRef
  <2>7. ASSUME NEW i \in DOMAIN place PROVE place[i][2] \in Token
    <3>1. place[i] \in Steps(heap) /\ IsObject(heap, place[i][1])
      BY <1>5, <2>1
    <3>2. place[i][1] \in DOMAIN heap /\ place[i][2] \in DOMAIN heap[place[i][1]].items
      BY <3>1 DEF Steps
    <3> QED BY <1>4, <3>1, <3>2
  <2>8. \A i \in DOMAIN member : (i \in DOMAIN place /\ member[i] = place[i]) \/ member[i] = <<at, name>>
    BY <2>1, <2>4
  <2>9. \A i \in DOMAIN member : member[i][2] \in Token
    BY <2>6, <2>7, <2>8
  <2> QED BY <2>2, <2>3, <2>9 DEF MemberPlaces
<1>6. ASSUME NEW place \in objects PROVE IsFiniteSet(F[place])
  <2> DEFINE f == [key \in Keys(heap, value, place) |-> Step(heap, value, place, key)]
  <2>1. f \in Surjection(Keys(heap, value, place), all(place))
    BY DEF Surjection
  <2>2. IsFiniteSet(Keys(heap, value, place))
    BY <1>3, KeysAreFinite
  <2>3. IsFiniteSet(all(place))
    BY <2>1, <2>2, FS_Surjection
  <2>4. F[place] = all(place)
    OBVIOUS
  <2> HIDE DEF F, all
  <2> QED BY <2>3, <2>4
<1>7. MembersAt(heap, value, depth) = UNION {F[place] : place \in objects}
  <2>1. MembersAt(heap, value, depth) = UNION {all(place) : place \in objects}
    BY Zenon DEF MembersAt
  <2>2. \A place \in objects : F[place] = all(place)
    OBVIOUS
  <2> HIDE DEF F, all, objects
  <2> QED BY <2>1, <2>2
<1>8. MembersAt(heap, value, depth) \in SUBSET MemberPlaces(heap)
  <2>1. \A place \in objects : F[place] \in SUBSET MemberPlaces(heap)
    BY <1>5
  <2> HIDE DEF F, objects
  <2> QED BY <1>7, <2>1
<1> HIDE DEF F, objects
<1> QED BY <1>3, <1>6, <1>7, <1>8, UnionIsFinite

(* The members in the order in which they are merged.                        *)
LEMMA MembersAreListed ==
    ASSUME NEW heap, Sound(heap), NEW value
    PROVE  MergeMembers(heap, value) \in Seq(MemberPlaces(heap))
<1> DEFINE X == Seq(MemberPlaces(heap))
           part == [k \in 1..MaxDepth |-> SetToSeq(MembersAt(heap, value, k - 1))]
           next == [k \in 1..MaxDepth |-> [list \in X |-> list \o part[k]]]
           Solves(f) == f = [depth \in 0..MaxDepth |->
                                IF depth = 0 THEN <<>>
                                ELSE f[depth - 1] \o SetToSeq(MembersAt(heap, value, depth - 1))]
<1>1. MaxDepth \in Nat
  BY JsonPatchingAssumption
<1>2. ASSUME NEW k \in 1..MaxDepth PROVE part[k] \in X
  <2>1. k - 1 \in 0..MaxDepth
    BY <1>1
  <2>2. PICK members : members = MembersAt(heap, value, k - 1)
    OBVIOUS
  <2>3. members \in SUBSET MemberPlaces(heap) /\ IsFiniteSet(members)
    BY <2>1, <2>2, MembersAre
  <2>4. SetToSeq(members) \in Seq(members)
    BY <2>3, ListOfSet
  <2>5. Seq(members) \subseteq Seq(MemberPlaces(heap))
    BY <2>3
  <2>6. part[k] = SetToSeq(members)
    BY <2>2
  <2> QED BY <2>4, <2>5, <2>6
<1>3. \A k \in 1..MaxDepth : part[k] = SetToSeq(MembersAt(heap, value, k - 1))
  OBVIOUS
<1> HIDE DEF part
<1>4. <<>> \in X /\ \A list \in X, k \in 1..MaxDepth : list \o part[k] \in X
  BY <1>2
<1> HIDE DEF X
<1>5. next \in [1..MaxDepth -> [X -> X]]
      /\ \A k \in 1..MaxDepth, list \in X : next[k][list] = list \o part[k]
  BY <1>4
<1> HIDE DEF next
<1>6. PICK f \in [0..MaxDepth -> X] : Follows(f, MaxDepth, <<>>, next)
  BY <1>1, <1>4, <1>5, RecursionExists
<1>7. ASSUME NEW k \in 0..MaxDepth
      PROVE  f[k] = IF k = 0 THEN <<>> ELSE f[k - 1] \o SetToSeq(MembersAt(heap, value, k - 1))
  <2>1. CASE k = 0
    BY <1>6, <2>1 DEF Follows
  <2>2. CASE k # 0
    <3>1. k \in 1..MaxDepth /\ k - 1 \in 0..MaxDepth
      BY <1>1, <2>2
    <3>2. f[k - 1] \in X /\ f[k] = next[k][f[k - 1]]
      BY <1>6, <3>1 DEF Follows
    <3> QED BY <1>3, <1>5, <2>2, <3>1, <3>2
  <2> QED BY <2>1, <2>2
<1>8. Solves(f)
  BY <1>7
<1>9. PICK g : g = CHOOSE h : Solves(h)
  OBVIOUS
<1>10. Solves(g)
  BY <1>8, <1>9
<1>11. g[0] = <<>> /\ \A k \in 1..MaxDepth : g[k] = g[k - 1] \o part[k]
  <2>1. \A k \in 0..MaxDepth :
           g[k] = IF k = 0 THEN <<>> ELSE g[k - 1] \o SetToSeq(MembersAt(heap, value, k - 1))
    BY <1>10
  <2>2. g[0] = <<>>
    BY <1>1, <2>1
  <2>3. ASSUME NEW k \in 1..MaxDepth PROVE g[k] = g[k - 1] \o part[k]
    <3>1. k \in 0..MaxDepth /\ k # 0
      BY <1>1
    <3>2. g[k] = g[k - 1] \o SetToSeq(MembersAt(heap, value, k - 1))
      BY <2>1, <3>1, Zenon
    <3> QED BY <1>3, <3>2, Zenon
  <2> QED BY <2>2, <2>3
<1> DEFINE T == {k \in Nat : k <= MaxDepth => g[k] \in X}
<1>12. 0 \in T
  BY <1>4, <1>11
<1>13. ASSUME NEW k \in Nat, k \in T PROVE k + 1 \in T
  <2> SUFFICES ASSUME k + 1 <= MaxDepth PROVE g[k + 1] \in X
    OBVIOUS
  <2>1. k + 1 \in 1..MaxDepth /\ (k + 1) - 1 = k /\ g[k] \in X
    BY <1>1, <1>13
  <2> QED BY <1>4, <1>11, <2>1
<1> HIDE DEF T
<1>14. Nat \subseteq T
  BY <1>12, <1>13, InductionOver
<1> USE DEF T
<1>15. g[MaxDepth] \in X
  BY <1>1, <1>14
<1>16. MergeMembers(heap, value) = g[MaxDepth]
  BY <1>9, Zenon DEF MergeMembers
<1> QED BY <1>15, <1>16 DEF X

(* One member is deleted, or its copy or merged object put there.            *)
LEMMA MemberKeeps ==
    ASSUME NEW w, Intact(w), NEW names \in Seq(Token), NEW change, Usable(w.heap, change)
    PROVE  Keeps(w, MergeMember(w, names, change))
<1>1. PICK current : current = GetAtPath(w.heap, w.root, names)
  OBVIOUS
<1>2. Usable(w.heap, current) /\ Sound(w.heap)
  BY <1>1, ReachedIsOwn DEF Intact
<1>3. CASE change = Null /\ current = Missing
  <2>1. MergeMember(w, names, change) = w
    BY <1>1, <1>3, Zenon DEF MergeMember
  <2> QED BY <2>1, ThrowKeeps
<1>4. CASE change = Null /\ current # Missing
  <2>1. PICK after : after = RemoveAtPath(w, names)
    OBVIOUS
  <2>2. MergeMember(w, names, change) = after
    BY <1>1, <1>4, <2>1, Zenon DEF MergeMember
  <2> QED BY <1>1, <2>1, <2>2, RemoveKeeps
<1>5. CASE change # Null
  <2>1. PICK member : member = IF IsObject(w.heap, change) THEN NextTarget(w.heap, current)
                               ELSE CloneMergePatchValue(w.heap, change)
    OBVIOUS
  <2>2. IsNew(w.heap, member)
    BY <1>2, <2>1, NextTargetIsNew, CloneIsNew DEF IsNew, CloneMergePatchValue
  <2>3. Keeps(w, AddAtPath([w EXCEPT !.heap = member.heap], names, member.value))
    BY <2>2, NewIsAdded
  <2>4. MergeMember(w, names, change) = AddAtPath([w EXCEPT !.heap = member.heap], names, member.value)
    BY <1>1, <1>5, <2>1, Zenon DEF MergeMember
  <2> QED BY <2>3, <2>4
<1> QED BY <1>3, <1>4, <1>5

(* The members are merged one after the other into what began as a copy of   *)
(* the target, or as {}.                                                     *)
LEMMA MergedIsNew ==
    ASSUME NEW heap, Sound(heap), NEW value, Usable(heap, value), NEW change, Usable(heap, change)
    PROVE  LET merged == MergePatch(heap, value, change)
           IN  /\ Sound(merged.heap) /\ Loose(merged.heap, merged.value)
               /\ \A v : Usable(heap, v) => Usable(merged.heap, v)
<1>1. CASE ~IsObject(heap, change)
  <2>1. PICK copy : copy = CloneJsonValue(heap, change)
    OBVIOUS
  <2>2. Extends(heap, copy.heap) /\ Loose(copy.heap, copy.value)
    BY <2>1, CloneIsNew
  <2>3. MergePatch(heap, value, change) = copy
    BY <1>1, <2>1, Zenon DEF MergePatch, CloneMergePatchValue
  <2> QED BY <2>2, <2>3 DEF Extends
<1>2. CASE IsObject(heap, change)
  <2> DEFINE start == NextTarget(heap, value)
             members == MergeMembers(heap, change)
             n == Len(members)
             Names(member) == [i \in DOMAIN member |-> member[i][2]]
             base == [heap |-> start.heap, root |-> start.value, ok |-> TRUE]
             Merge1(w, k) == MergeMember(w, Names(members[k]), At(heap, change, members[k]))
             Solves(f, m) == f = [k \in 0..m |-> IF k = 0 THEN base ELSE Merge1(f[k - 1], k)]
             Good(w) == Intact(w) /\ \A v : Usable(heap, v) => Usable(w.heap, v)
  <2>1. n \in Nat /\ \A k \in 1..n : members[k] \in MemberPlaces(heap)
    BY MembersAreListed
  <2>2. Good(base)
    <3>1. Extends(heap, start.heap) /\ Loose(start.heap, start.value)
      BY NextTargetIsNew
    <3> HIDE DEF start
    <3> QED BY <3>1 DEF Extends, Intact
  <2>3. ASSUME NEW k \in 1..n, NEW w, Good(w) PROVE Good(Merge1(w, k))
    <3>1. PICK member \in MemberPlaces(heap) : member = members[k]
      BY <2>1
    <3>2. Names(member) \in Seq(Token) /\ Usable(heap, At(heap, change, member))
      BY MemberPlaceFacts
    <3>3. PICK names, item : names = Names(member) /\ item = At(heap, change, member)
      OBVIOUS
    <3>4. Intact(w) /\ names \in Seq(Token) /\ Usable(w.heap, item)
      BY <2>3, <3>2, <3>3
    <3>5. Keeps(w, MergeMember(w, names, item))
      BY <3>4, MemberKeeps
    <3>6. Merge1(w, k) = MergeMember(w, names, item)
      BY <3>1, <3>3, Zenon
    <3> HIDE DEF Merge1
    <3>7. Keeps(w, Merge1(w, k))
      BY <3>5, <3>6, Zenon
    <3> QED BY <2>3, <3>7 DEF Keeps
  <2>4. PICK merged : merged = MergePatch(heap, value, change)
    OBVIOUS
  <2>5. PICK g : g = CHOOSE f : Solves(f, n)
    OBVIOUS
  <2>6. merged = [heap |-> g[n].heap, value |-> g[n].root]
    BY <1>2, <2>4, <2>5, Zenon DEF MergePatch
  <2> HIDE DEF base, Merge1, Good, n, members, start
  <2> DEFINE T == {m \in Nat : m <= n => \E f : Solves(f, m)}
  <2>7. 0 \in T
    <3>1. PICK f : f = [k \in {0} |-> base]
      OBVIOUS
    <3>2. f = [k \in 0..0 |-> IF k = 0 THEN base ELSE Merge1(f[k - 1], k)]
      BY <3>1
    <3> QED BY <3>2
  <2>8. ASSUME NEW m \in Nat, m \in T PROVE m + 1 \in T
    <3> SUFFICES ASSUME m + 1 <= n PROVE \E f : Solves(f, m + 1)
      OBVIOUS
    <3>1. PICK f : Solves(f, m)
      BY <2>1, <2>8
    <3>2. PICK h : h = [k \in 0..(m + 1) |-> IF k <= m THEN f[k] ELSE Merge1(f[m], k)]
      OBVIOUS
    <3>3. ASSUME NEW k \in 0..(m + 1) PROVE h[k] = IF k = 0 THEN base ELSE Merge1(h[k - 1], k)
      <4>1. CASE k = 0
        BY <3>1, <3>2, <4>1
      <4>2. CASE k # 0 /\ k <= m
        <5>1. k \in 0..m /\ k - 1 \in 0..(m + 1) /\ k - 1 <= m
          BY <4>2
        <5>2. h[k] = f[k] /\ h[k - 1] = f[k - 1]
          BY <3>2, <4>2, <5>1
        <5>3. f[k] = Merge1(f[k - 1], k)
          BY <3>1, <4>2, <5>1
        <5> QED BY <4>2, <5>2, <5>3
      <4>3. CASE k = m + 1
        <5>1. m \in 0..(m + 1) /\ k - 1 = m /\ ~(k <= m) /\ k # 0
          BY <4>3
        <5>2. h[k - 1] = f[m] /\ h[k] = Merge1(f[m], k)
          BY <3>2, <5>1
        <5> QED BY <5>1, <5>2
      <4> QED BY <4>1, <4>2, <4>3
    <3>4. h = [k \in 0..(m + 1) |-> IF k = 0 THEN base ELSE Merge1(h[k - 1], k)]
      BY <3>2, <3>3
    <3> QED BY <3>4
  <2> HIDE DEF T
  <2>9. Nat \subseteq T
    BY <2>7, <2>8, InductionOver
  <2> USE DEF T
  <2>10. Solves(g, n)
    <3>1. \E f : Solves(f, n)
      BY <2>1, <2>9
    <3> QED BY <2>5, <3>1
  <2> HIDE DEF T
  <2>11. g[0] = base /\ \A k \in 1..n : g[k] = Merge1(g[k - 1], k)
    <3>1. \A k \in 0..n : g[k] = IF k = 0 THEN base ELSE Merge1(g[k - 1], k)
      BY <2>10
    <3> QED BY <2>1, <3>1
  <2> DEFINE U == {k \in Nat : k <= n => Good(g[k])}
  <2>12. 0 \in U
    BY <2>2, <2>11
  <2>13. ASSUME NEW k \in Nat, k \in U PROVE k + 1 \in U
    <3> SUFFICES ASSUME k + 1 <= n PROVE Good(g[k + 1])
      OBVIOUS
    <3>1. k + 1 \in 1..n /\ (k + 1) - 1 = k /\ Good(g[k])
      BY <2>1, <2>13
    <3> QED BY <2>3, <2>11, <3>1
  <2> HIDE DEF U
  <2>14. Nat \subseteq U
    BY <2>12, <2>13, InductionOver
  <2> USE DEF U
  <2>15. Good(g[n])
    BY <2>1, <2>14
  <2>16. merged.heap = g[n].heap /\ merged.value = g[n].root
    BY <2>6
  <2>17. /\ Sound(merged.heap) /\ Loose(merged.heap, merged.value)
         /\ \A v : Usable(heap, v) => Usable(merged.heap, v)
    BY <2>15, <2>16 DEF Good, Intact
  <2> QED BY <2>4, <2>17
<1> QED BY <1>1, <1>2

-----------------------------------------------------------------------------
(* The invariant: the heap is sound and the patch is one for it, not parsed  *)
(* yet on the caller's heap only; while operations are applied each of them  *)
(* has pointers that can be parsed; and the working document is nowhere else. *)
Applicable(heap, p) == AreCalls(heap, p, PatchOps) /\ \A k \in DOMAIN p : Pointed(p[k])
IInv ==
    /\ work = [heap |-> work.heap, root |-> work.root, ok |-> work.ok]
    /\ Sound(work.heap) /\ Fits(work.heap, patch) /\ Usable(CallerHeap, target)
    /\ outcome = "unparsed" => work.heap = CallerHeap
    /\ outcome = "running" => Applicable(work.heap, patch)
    /\ outcome \in {"running", "done"} => Loose(work.heap, work.root)

(* The caller's objects alone are a sound heap.                              *)
LEMMA CallerIsSound == Sound(CallerHeap)
<1>1. CallerHeap \in Seq(Nodes) /\ Len(CallerHeap) \in Nat /\ Own(CallerHeap) = {}
  BY ValuesAreGiven DEF Own
<1>2. ASSUME NEW r \in DOMAIN CallerHeap, NEW key \in DOMAIN CallerHeap[r].items
      PROVE  Known(CallerHeap, CallerHeap[r].items[key])
  <2>1. CallerHeap[r].items[key] \in Range(CallerHeap[r].items)
    BY DEF Range
  <2>2. CallerHeap[r].items[key] \in CallerValue
    BY <2>1 DEF CallerValue
  <2> QED BY <2>2, ValuesAreGiven DEF Known
<1> QED BY <1>1, <1>2 DEF Sound, TypedHeap, KeepsCaller, OwnItems, HeldOnce

(* What the caller has can be used, now and later.                           *)
LEMMA CallersAreUsable ==
    /\ \A v \in CallerValue : Usable(CallerHeap, v)
    /\ \A heap, v : Sound(heap) /\ Usable(CallerHeap, v) => Usable(heap, v)
<1>1. \A v \in CallerValue : Usable(CallerHeap, v)
  BY ValuesAreGiven DEF Usable, Known
<1>2. ASSUME NEW heap, NEW v, Sound(heap), Usable(CallerHeap, v) PROVE Usable(heap, v)
  BY <1>2, SoundFacts DEF Usable, Known
<1> QED BY <1>1, <1>2

(* Operations with the caller's values are calls on its heap.                *)
LEMMA OperationsAreCalls ==
    ASSUME NEW pointers \in SUBSET Text, NEW values \in SUBSET CallerValue,
           NEW o \in OperationsWith(pointers, values)
    PROVE  IsCall(CallerHeap, o) /\ o.op \in PatchOps
<1>1. CASE o \in [op : {"add", "replace", "test"}, path : pointers, value : values]
  <2>1. o \in [op : {"add", "replace", "test"}, path : Text, value : Value]
    BY <1>1, ValuesAreGiven
  <2>2. o.value \in CallerValue /\ o.op \in {"add", "replace", "test"}
    BY <1>1
  <2> QED BY <2>1, <2>2, CallersAreUsable DEF IsCall, Calls, PatchOps
<1>2. CASE o \in [op : {"remove"}, path : pointers]
  <2>1. o \in [op : {"remove"}, path : Text] /\ "value" \notin DOMAIN o /\ o.op = "remove"
    BY <1>2
  <2> QED BY <2>1 DEF IsCall, Calls, PatchOps
<1>3. CASE o \in [op : {"move", "copy"}, path : pointers, from : pointers]
  <2>1. o \in [op : {"move", "copy"}, path : Text, from : Text] /\ "value" \notin DOMAIN o
        /\ o.op \in {"move", "copy"}
    BY <1>3
  <2> QED BY <2>1 DEF IsCall, Calls, PatchOps
<1> QED BY <1>1, <1>2, <1>3 DEF OperationsWith

(* So are merges.                                                            *)
LEMMA MergesAreCalls ==
    ASSUME NEW o \in [op : {"merge"}, value : CallerValue]
    PROVE  IsCall(CallerHeap, o) /\ o.op = "merge"
<1>1. o \in [op : {"merge"}, value : Value] /\ o.value \in CallerValue /\ o.op = "merge"
  BY ValuesAreGiven
<1> QED BY <1>1, CallersAreUsable DEF IsCall, Calls

(* And lists of calls are patches.                                           *)
LEMMA ListsAreCalls ==
    ASSUME NEW n \in Nat, NEW ops, NEW p, p = [k \in 1..n |-> p[k]],
           \A k \in 1..n : IsCall(CallerHeap, p[k]) /\ p[k].op \in ops
    PROVE  AreCalls(CallerHeap, p, ops)
<1>1. \A k \in 1..n : p[k] \in Calls
  BY DEF IsCall
<1>2. p \in [1..n -> Calls] /\ DOMAIN p = 1..n
  BY <1>1
<1>3. p \in Seq(Calls)
  BY <1>2
<1> QED BY <1>2, <1>3 DEF AreCalls

(* What a caller calls. *)
LEMMA InitFits ==
    ASSUME Init PROVE Fits(CallerHeap, patch) /\ Usable(CallerHeap, target)
<1>1. Target \cup OperationValue \cup BadValue \cup MergeTarget \cup MergeValue \subseteq CallerValue
  BY DEF CallerValue
<1>2. Pointer \subseteq Text /\ BadPointer \cup {<<>>} \subseteq Text
  BY DEF Text
<1>3. \A o \in Operation : IsCall(CallerHeap, o) /\ o.op \in PatchOps
  BY <1>1, <1>2, OperationsAreCalls DEF Operation
<1>4. \A o \in BadOperation : IsCall(CallerHeap, o) /\ o.op \in PatchOps
  BY <1>1, <1>2, OperationsAreCalls DEF BadOperation
<1>5. \A o \in [op : {"merge"}, value : MergeValue \cup BadValue] :
         IsCall(CallerHeap, o) /\ o.op = "merge"
  <2> SUFFICES ASSUME NEW o \in [op : {"merge"}, value : MergeValue \cup BadValue]
      PROVE  IsCall(CallerHeap, o) /\ o.op = "merge"
    OBVIOUS
  <2>1. o \in [op : {"merge"}, value : CallerValue]
    BY <1>1
  <2> QED BY <2>1, MergesAreCalls
<1>6. CASE patch \in BoundedSeq(Operation, MaxOperations) /\ target \in Target
  <2>1. PICK n \in Nat : patch \in [1..n -> Operation]
    BY <1>6, JsonPatchingAssumption DEF BoundedSeq, SeqOf
  <2>2. AreCalls(CallerHeap, patch, PatchOps)
    BY <1>3, <2>1, ListsAreCalls
  <2> QED BY <1>1, <1>6, <2>2, CallersAreUsable DEF Fits
<1>7. CASE patch \in BadPatch /\ target \in Target
  <2>1. PICK before \in UNION {[1..m -> [op : {"remove"}, path : Pointer]] : m \in 0..1},
             bad \in BadOperation :
           patch = Append(before, bad)
    BY <1>7 DEF BadPatch, BoundedSeq, SeqOf
  <2>2. [op : {"remove"}, path : Pointer] \subseteq Operation
    BY DEF Operation, OperationsWith
  <2>3. PICK n \in Nat : before \in [1..n -> [op : {"remove"}, path : Pointer]]
    BY <2>1
  <2>4. before \in [1..n -> Operation]
    BY <2>2, <2>3
  <2>5. \A k \in 1..n : before[k] \in Calls
    BY <1>3, <2>4 DEF IsCall
  <2>6. before \in Seq(Calls) /\ Len(before) = n /\ bad \in Calls
    <3>1. before \in [1..n -> Calls]
      BY <2>4, <2>5
    <3> QED BY <1>4, <3>1 DEF IsCall
  <2>7. /\ patch = [k \in 1..(n + 1) |-> patch[k]]
        /\ \A k \in 1..(n + 1) : (k \in 1..n /\ patch[k] = before[k]) \/ patch[k] = bad
    <3>1. patch \in Seq(Calls) /\ Len(patch) = n + 1 /\ DOMAIN patch = 1..(n + 1)
      BY <2>1, <2>6
    <3>2. \A k \in 1..(n + 1) : (k \in 1..n /\ patch[k] = before[k]) \/ patch[k] = bad
      BY <2>1, <2>6
    <3> QED BY <3>1, <3>2
  <2>9. \A k \in 1..(n + 1) : IsCall(CallerHeap, patch[k]) /\ patch[k].op \in PatchOps
    BY <1>3, <1>4, <2>4, <2>7
  <2>8. AreCalls(CallerHeap, patch, PatchOps)
    <3>1. PICK m \in Nat : m = n + 1
      OBVIOUS
    <3>2. patch = [k \in 1..m |-> patch[k]]
          /\ \A k \in 1..m : IsCall(CallerHeap, patch[k]) /\ patch[k].op \in PatchOps
      BY <2>7, <2>9, <3>1
    <3> QED BY <3>2, ListsAreCalls
  <2> QED BY <1>1, <1>7, <2>8, CallersAreUsable DEF Fits
<1>8. ASSUME NEW call \in [op : {"merge"}, value : MergeValue \cup BadValue], patch = <<call>>
      PROVE  Fits(CallerHeap, patch)
  <2>1. IsCall(CallerHeap, call) /\ call.op = "merge"
    BY <1>5
  <2>2. PICK n \in Nat : n = 1
    OBVIOUS
  <2>3. patch = [k \in 1..n |-> patch[k]] /\ \A k \in 1..n : patch[k] = call
    BY <1>8, <2>2
  <2>4. AreCalls(CallerHeap, patch, {"merge"})
    BY <2>1, <2>3, ListsAreCalls
  <2> QED BY <2>4 DEF Fits
<1>9. CASE patch \in {<<call>> : call \in MergeCall} /\ target \in MergeTarget
  <2>1. PICK call \in MergeCall : patch = <<call>>
    BY <1>9
  <2>2. call \in [op : {"merge"}, value : MergeValue \cup BadValue]
    BY DEF MergeCall
  <2> QED BY <1>1, <1>8, <1>9, <2>1, <2>2, CallersAreUsable
<1>10. ASSUME NEW call \in BadCall, patch = call[1], target = call[2]
       PROVE  Fits(CallerHeap, patch) /\ Usable(CallerHeap, target)
  <2>1. CASE call \in {<<>>} \X BadValue
    <3>1. patch = <<>> /\ target \in BadValue
      BY <1>10, <2>1
    <3>2. PICK n \in Nat : n = 0
      OBVIOUS
    <3>3. patch = [k \in 1..n |-> patch[k]] /\ 1..n = {}
      BY <3>1, <3>2
    <3>4. AreCalls(CallerHeap, patch, PatchOps)
      BY <3>3, ListsAreCalls
    <3> QED BY <1>1, <3>1, <3>4, CallersAreUsable DEF Fits
  <2>2. CASE call \in {<<c>> : c \in MergeCall} \X BadValue
    <3>1. patch \in {<<c>> : c \in MergeCall} /\ target \in BadValue
      BY <1>10, <2>2
    <3>2. PICK c \in MergeCall : patch = <<c>>
      BY <3>1
    <3>3. c \in [op : {"merge"}, value : MergeValue \cup BadValue]
      BY DEF MergeCall
    <3> QED BY <1>1, <1>8, <3>1, <3>2, <3>3, CallersAreUsable
  <2>3. CASE call \in [1..1 -> [op : {"merge"}, value : BadValue]] \X MergeTarget
    <3>1. patch \in [1..1 -> [op : {"merge"}, value : BadValue]] /\ target \in MergeTarget
      BY <1>10, <2>3
    <3>2. PICK c : c = patch[1]
      OBVIOUS
    <3>3. patch = <<c>> /\ c \in [op : {"merge"}, value : MergeValue \cup BadValue]
      BY <3>1, <3>2
    <3> QED BY <1>1, <1>8, <3>1, <3>3, CallersAreUsable
  <2> QED BY <2>1, <2>2, <2>3 DEF BadCall
<1> QED BY <1>6, <1>7, <1>9, <1>10 DEF Init

(* Before the first step there is nothing of the code's own.                 *)
LEMMA IInvInit == ASSUME Init PROVE IInv
<1>1. Fits(CallerHeap, patch) /\ Usable(CallerHeap, target)
  BY InitFits
<1>2. work = [heap |-> CallerHeap, root |-> target, ok |-> TRUE] /\ outcome \in {"unparsed", "called"}
  BY DEF Init
<1> QED BY <1>1, <1>2, CallerIsSound DEF IInv

(* Each action keeps the invariant.                                          *)
LEMMA ParseInv == ASSUME IInv, Parse PROVE IInv'
<1>1. CASE outcome' = "error" /\ UNCHANGED <<patch, work, target>>
  BY <1>1 DEF IInv
<1>2. ASSUME outcome' = "called", target' = target,
             LET Parsed[n \in 0..Len(patch)] ==
                     IF n = 0 THEN [heap |-> work.heap, patch |-> <<>>]
                     ELSE ParseOperation(Parsed[n - 1], patch[n])
             IN  /\ work' = [work EXCEPT !.heap = Parsed[Len(patch)].heap]
                 /\ patch' = Parsed[Len(patch)].patch
      PROVE  IInv'
  <2>1. PICK result :
           LET Parsed[n \in 0..Len(patch)] ==
                   IF n = 0 THEN [heap |-> work.heap, patch |-> <<>>]
                   ELSE ParseOperation(Parsed[n - 1], patch[n])
           IN  result = Parsed[Len(patch)]
    OBVIOUS
  <2>2. work.heap = CallerHeap /\ Fits(work.heap, patch) /\ Sound(work.heap)
    BY DEF IInv, Parse
  <2>3. LET Parsed[n \in 0..Len(patch)] ==
                IF n = 0 THEN [heap |-> work.heap, patch |-> <<>>]
                ELSE ParseOperation(Parsed[n - 1], patch[n])
        IN  Sound(Parsed[Len(patch)].heap) /\ Fits(Parsed[Len(patch)].heap, Parsed[Len(patch)].patch)
    BY <2>2, ParsedFits, Zenon
  <2>5. Sound(result.heap) /\ Fits(result.heap, result.patch)
    BY <2>1, <2>3, Zenon
  <2>6. work' = [work EXCEPT !.heap = result.heap] /\ patch' = result.patch
    BY <1>2, <2>1, Zenon
  <2>7. work' = [heap |-> result.heap, root |-> work.root, ok |-> work.ok]
    <3>1. work = [heap |-> work.heap, root |-> work.root, ok |-> work.ok]
      BY DEF IInv
    <3> QED BY <2>6, <3>1
  <2> QED BY <1>2, <2>5, <2>6, <2>7 DEF IInv
<1>3. /\ target' = target
      /\ \/ outcome' = "error" /\ UNCHANGED <<patch, work>>
         \/ /\ outcome' = "called"
            /\ LET Parsed[n \in 0..Len(patch)] ==
                       IF n = 0 THEN [heap |-> work.heap, patch |-> <<>>]
                       ELSE ParseOperation(Parsed[n - 1], patch[n])
               IN  /\ work' = [work EXCEPT !.heap = Parsed[Len(patch)].heap]
                   /\ patch' = Parsed[Len(patch)].patch
  BY Zenon DEF Parse
<1> QED BY <1>1, <1>2, <1>3, Zenon

(* Start: the copy of the target is the working document.                    *)
LEMMA StartInv == ASSUME IInv, Start PROVE IInv'
<1>1. PICK copy : copy = CloneJsonValue(work.heap, target)
  OBVIOUS
<1>2. /\ work' = [heap |-> copy.heap, root |-> copy.value, ok |-> TRUE]
      /\ outcome' = "running" /\ patch' = patch /\ target' = target
  BY <1>1, Zenon DEF Start
<1>3. Sound(work.heap) /\ Usable(work.heap, target)
  BY CallersAreUsable DEF IInv
<1>4. PICK heap, root : heap = copy.heap /\ root = copy.value
  OBVIOUS
<1>5. Extends(work.heap, heap) /\ Loose(heap, root)
  BY <1>1, <1>3, <1>4, CloneIsNew
<1>6. AreCalls(work.heap, patch, PatchOps)
  <2>1. CASE AreCalls(work.heap, patch, {"merge"})
    <3>1. patch \in Seq(Calls) /\ \A k \in DOMAIN patch : patch[k].op = "merge"
      BY <2>1 DEF AreCalls
    <3>2. patch = <<>>
      <4> SUFFICES ASSUME patch # <<>> PROVE FALSE
        OBVIOUS
      <4>1. Head(patch).op = "merge"
        BY <3>1
      <4> QED BY <4>1 DEF Start, IsMergeCall
    <3> QED BY <3>1, <3>2 DEF AreCalls
  <2> QED BY <2>1 DEF IInv, Fits
<1>7. ASSUME NEW k \in DOMAIN patch PROVE Pointed(patch[k])
  <2>1. ValidateOperation(work.heap, patch[k])
    BY DEF Start, Valid
  <2> QED BY <2>1 DEF ValidateOperation, IsOperation, Pointed
<1>8. AreCalls(heap, patch, PatchOps) /\ Fits(heap, patch)
  BY <1>5, <1>6, CallsStay DEF Extends, Fits
<1>9. work' = [heap |-> heap, root |-> root, ok |-> TRUE]
  BY <1>2, <1>4
<1> QED BY <1>2, <1>5, <1>7, <1>8, <1>9 DEF IInv, Applicable, Extends

(* Apply: the operation leaves the working document intact.                  *)
LEMMA ApplyInv == ASSUME IInv, Apply PROVE IInv'
<1>1. Intact(work) /\ Applicable(work.heap, patch) /\ patch # <<>>
  BY DEF IInv, Apply, Intact
<1>2. PICK o : o = Head(patch)
  OBVIOUS
<1>3. patch \in Seq(Calls) /\ o = patch[1] /\ 1 \in DOMAIN patch
  BY <1>1, <1>2 DEF Applicable, AreCalls
<1>4. IsPatchOperation(work.heap, o) /\ Pointed(o)
  BY <1>1, <1>3, CallIsOperation DEF Applicable, AreCalls
<1>5. PICK after : after = ApplyOperation(work, o)
  OBVIOUS
<1>6. Keeps(work, after)
  BY <1>1, <1>4, <1>5, OperationApplies
<1>7. work' = after /\ target' = target
      /\ \/ patch' = Tail(patch) /\ outcome' = "running"
         \/ patch' = patch /\ outcome' = "error"
  BY <1>2, <1>5 DEF Apply
<1>8. AreCalls(after.heap, patch, PatchOps)
  BY <1>1, <1>6, CallsStay DEF Keeps, Applicable
<1>9. Applicable(after.heap, Tail(patch))
  <2>1. PICK rest : rest = Tail(patch)
    OBVIOUS
  <2>2. rest \in Seq(Calls) /\ \A k \in DOMAIN rest : k + 1 \in DOMAIN patch /\ rest[k] = patch[k + 1]
    BY <1>3, <2>1
  <2> QED BY <1>1, <1>8, <2>1, <2>2 DEF Applicable, AreCalls
<1>10. Fits(after.heap, patch) /\ Fits(after.heap, Tail(patch))
  BY <1>8, <1>9 DEF Fits, Applicable
<1> QED BY <1>6, <1>7, <1>9, <1>10 DEF IInv, Keeps, Intact

(* Merge: the result is the working document.                                *)
LEMMA MergeInv == ASSUME IInv, Merge PROVE IInv'
<1>1. patch # <<>> /\ Head(patch).op = "merge"
  BY DEF Merge, IsMergeCall
<1>2. PICK o : o = Head(patch)
  OBVIOUS
<1>3. AreCalls(work.heap, patch, {"merge"}) \/ AreCalls(work.heap, patch, PatchOps)
  BY DEF IInv, Fits
<1>4. IsCall(work.heap, o) /\ o.op = "merge"
  BY <1>1, <1>2, <1>3 DEF AreCalls
<1>5. Usable(work.heap, o.value)
  <2>1. o \in Calls
    BY <1>4 DEF IsCall
  <2>2. "value" \in DOMAIN o
    BY <1>4, <2>1, CallFields
  <2> QED BY <1>4, <2>2 DEF IsCall
<1>6. Sound(work.heap) /\ Usable(work.heap, target)
  BY CallersAreUsable DEF IInv
<1>7. PICK merged : merged = MergePatch(work.heap, target, o.value)
  OBVIOUS
<1>8. Sound(merged.heap) /\ Loose(merged.heap, merged.value)
  BY <1>5, <1>6, <1>7, MergedIsNew
<1>9. /\ work' = [heap |-> merged.heap, root |-> merged.value, ok |-> TRUE]
      /\ outcome' = "running" /\ patch' = <<>> /\ target' = target
  BY <1>2, <1>7, Zenon DEF Merge
<1>10. Applicable(merged.heap, <<>>)
  BY DEF Applicable, AreCalls
<1> QED BY <1>8, <1>9, <1>10 DEF IInv, Fits, Applicable

(* So every step keeps it.                                                   *)
LEMMA IInvNext == ASSUME IInv, [Next]_vars PROVE IInv'
<1>1. CASE Refuse \/ Return \/ Look \/ UNCHANGED vars
  BY <1>1 DEF IInv, Refuse, Return, Look, vars
<1>2. CASE Parse
  BY <1>2, ParseInv
<1>3. CASE Start
  BY <1>3, StartInv
<1>4. CASE Apply
  BY <1>4, ApplyInv
<1>5. CASE Merge
  BY <1>5, MergeInv
<1> QED BY <1>1, <1>2, <1>3, <1>4, <1>5 DEF Next

(* It always holds.                                                          *)
LEMMA IInvHolds == Spec => []IInv
<1> QED BY IInvInit, IInvNext, PTL DEF Spec

(* Neither applyJsonPatch nor applyJsonMergePatch ever changes an object of  *)
(* the caller, nor one that its target and its patch share, whatever the     *)
(* patch does and wherever it fails (json-patch.ts:114).                     *)
THEOREM CallerUntouchedHolds == Spec => []CallerUntouched
<1>1. IInv => CallerUntouched
  BY DEF IInv, Sound, KeepsCaller, CallerUntouched
<1> QED BY <1>1, IInvHolds, PTL

-----------------------------------------------------------------------------
(* The working document is a tree.                                           *)

(* Two tokens for one array position are one token.                          *)
LEMMA PositionsAreOne ==
    ASSUME NEW t, NEW u, Position(t) = Position(u), Position(t) # 0
    PROVE  t = u
<1>1. ASSUME NEW v, Position(v) # 0 PROVE IndexToken[Position(v)] = v
  <2>1. v \in ToSet(IndexToken) /\ Position(v) = CHOOSE n \in DOMAIN IndexToken : IndexToken[n] = v
    BY <1>1 DEF Position
  <2>2. \E n \in DOMAIN IndexToken : IndexToken[n] = v
    BY <2>1 DEF ToSet
  <2> QED BY <2>1, <2>2
<1> QED BY <1>1

(* The empty pointer leads to the root.                                      *)
LEMMA NoTokenLeads ==
    ASSUME NEW heap, NEW root
    PROVE  \A path \in Seq(Token) : path = <<>> => GetAtPath(heap, root, path) = root
BY PathsLead, Zenon

(* A node that is reached is the item of one the code made.                  *)
LEMMA ReachedIsHeld ==
    ASSUME NEW heap, Sound(heap), NEW root, Loose(heap, root), NEW path \in Seq(Token), path # <<>>,
           NEW node, node = GetAtPath(heap, root, path), node \in DOMAIN heap,
           NEW parent, parent = GetAtPath(heap, root, Front(path)),
           NEW key, key = KeyOf(heap, parent, Last(path))
    PROVE  /\ parent \in Own(heap) /\ key \in DOMAIN heap[parent].items
           /\ heap[parent].items[key] = node
<1>1. node = Child(heap, parent, Last(path)) /\ Front(path) \in Seq(Token)
  BY PathsLead
<1>2. node # Missing
  BY SoundFacts, ValuesAreGiven
<1>3. /\ parent \in DOMAIN heap /\ key \in DOMAIN heap[parent].items
      /\ heap[parent].items[key] = node
  BY <1>1, <1>2, ChildIs
<1>4. Usable(heap, root) /\ root \notin DOMAIN CallerHeap
  BY DEF Loose, Usable
<1>5. parent \notin DOMAIN CallerHeap
  BY <1>1, <1>4, ReachedIsUsable
<1> QED BY <1>3, <1>5 DEF Own

(* Two tokens for one item of a node are one token.                          *)
LEMMA KeysAreOne ==
    ASSUME NEW heap, Sound(heap), NEW at \in DOMAIN heap, NEW t, NEW u,
           KeyOf(heap, at, t) = KeyOf(heap, at, u), KeyOf(heap, at, t) \in DOMAIN heap[at].items
    PROVE  t = u
<1>1. CASE heap[at].kind = "array"
  <2>1. PICK node : node = heap[at]
    OBVIOUS
  <2>2. node \in Nodes /\ node.kind = "array"
    BY <1>1, <2>1, SoundFacts
  <2>3. node.items \in Seq(Value)
    BY <2>2, NodeFacts, Zenon DEF Nodes
  <2>4. Position(t) = Position(u) /\ Position(t) \in DOMAIN node.items
    BY <1>1, <2>1 DEF KeyOf
  <2>5. Position(t) # 0
    BY <2>3, <2>4
  <2> QED BY <2>4, <2>5, PositionsAreOne
<1>2. CASE heap[at].kind # "array"
  BY <1>2 DEF KeyOf
<1> QED BY <1>1, <1>2

(* Two paths to one object are one path.                                     *)
LEMMA PathsAreOne ==
    ASSUME NEW heap, Sound(heap), NEW root, Loose(heap, root)
    PROVE  \A p, q \in Seq(Token) :
              GetAtPath(heap, root, p) = GetAtPath(heap, root, q)
                  /\ GetAtPath(heap, root, p) \in DOMAIN heap => p = q
<1> DEFINE T == {n \in Nat : \A p, q \in Seq(Token) :
                    Len(p) = n /\ GetAtPath(heap, root, p) = GetAtPath(heap, root, q)
                        /\ GetAtPath(heap, root, p) \in DOMAIN heap => p = q}
<1>1. ASSUME NEW p \in Seq(Token), GetAtPath(heap, root, p) = root, root \in DOMAIN heap
      PROVE  p = <<>>
  <2> SUFFICES ASSUME p # <<>> PROVE FALSE
    OBVIOUS
  <2>1. PICK parent : parent = GetAtPath(heap, root, Front(p))
    OBVIOUS
  <2>2. PICK key : key = KeyOf(heap, parent, Last(p))
    OBVIOUS
  <2>3. parent \in Own(heap) /\ key \in DOMAIN heap[parent].items /\ heap[parent].items[key] = root
    BY <1>1, <2>1, <2>2, ReachedIsHeld
  <2> QED BY <1>1, <2>3 DEF Loose, Held
<1>2. 0 \in T
  <2> SUFFICES ASSUME NEW p \in Seq(Token), NEW q \in Seq(Token), Len(p) = 0,
                      GetAtPath(heap, root, p) = GetAtPath(heap, root, q),
                      GetAtPath(heap, root, p) \in DOMAIN heap
      PROVE  p = q
    OBVIOUS
  <2>1. p = <<>>
    OBVIOUS
  <2>2. GetAtPath(heap, root, p) = root
    BY <2>1, NoTokenLeads
  <2> QED BY <1>1, <2>1, <2>2
<1>3. ASSUME NEW n \in Nat, n \in T PROVE n + 1 \in T
  <2> SUFFICES ASSUME NEW p \in Seq(Token), NEW q \in Seq(Token), Len(p) = n + 1,
                      GetAtPath(heap, root, p) = GetAtPath(heap, root, q),
                      GetAtPath(heap, root, p) \in DOMAIN heap
      PROVE  p = q
    OBVIOUS
  <2>1. p # <<>>
    OBVIOUS
  <2>2. q # <<>>
    <3> SUFFICES ASSUME q = <<>> PROVE FALSE
      OBVIOUS
    <3>1. GetAtPath(heap, root, q) = root
      BY NoTokenLeads
    <3> QED BY <1>1, <2>1, <3>1
  <2>3. PICK node, at, other : node = GetAtPath(heap, root, p)
           /\ at = GetAtPath(heap, root, Front(p)) /\ other = GetAtPath(heap, root, Front(q))
    OBVIOUS
  <2>4. PICK key, second : key = KeyOf(heap, at, Last(p)) /\ second = KeyOf(heap, other, Last(q))
    OBVIOUS
  <2>5. at \in Own(heap) /\ key \in DOMAIN heap[at].items /\ heap[at].items[key] = node
    BY <2>1, <2>3, <2>4, ReachedIsHeld
  <2>6. other \in Own(heap) /\ second \in DOMAIN heap[other].items /\ heap[other].items[second] = node
    BY <2>2, <2>3, <2>4, ReachedIsHeld
  <2>7. at = other /\ key = second
    BY <2>3, <2>5, <2>6 DEF Sound, HeldOnce
  <2>8. /\ Front(p) \in Seq(Token) /\ Len(Front(p)) = Len(p) - 1 /\ p = Append(Front(p), Last(p))
        /\ Front(q) \in Seq(Token) /\ q = Append(Front(q), Last(q))
    BY <2>1, <2>2, PathsLead
  <2>9. Last(p) = Last(q)
    BY <2>4, <2>5, <2>7, KeysAreOne DEF Own
  <2>10. Front(p) = Front(q)
    <3>1. Len(Front(p)) = n /\ at \in DOMAIN heap
      BY <2>5, <2>8 DEF Own
    <3> QED BY <1>3, <2>3, <2>7, <2>8, <3>1
  <2> QED BY <2>8, <2>9, <2>10
<1> HIDE DEF T
<1>4. Nat \subseteq T
  BY <1>2, <1>3, InductionOver
<1> USE DEF T
<1> QED
  <2> SUFFICES ASSUME NEW p \in Seq(Token), NEW q \in Seq(Token),
                      GetAtPath(heap, root, p) = GetAtPath(heap, root, q),
                      GetAtPath(heap, root, p) \in DOMAIN heap
      PROVE  p = q
    OBVIOUS
  <2>1. PICK n \in Nat : n = Len(p)
    OBVIOUS
  <2>2. n \in T
    BY <1>4
  <2> QED BY <2>1, <2>2

(* The places of a document are lists of reference tokens.                   *)
LEMMA DocumentsHavePaths ==
    ASSUME NEW heap, NEW value
    PROVE  DOMAIN Document(heap, value) \subseteq Seq(Token)
<1> DEFINE levels == 2 * MaxDepth + 2
           X == SUBSET Seq(Token)
           Longer(paths) ==
               UNION {{path \in {Append(p, t) : t \in Token} : GetAtPath(heap, value, path) # Missing} :
                      p \in paths}
           next == [k \in 1..levels |-> [paths \in X |-> Longer(paths)]]
           Solves(f) == f = [n \in 0..levels |-> IF n = 0 THEN {<<>>} ELSE Longer(f[n - 1])]
<1>1. levels \in Nat
  BY JsonPatchingAssumption
<1>2. ASSUME NEW paths \in X PROVE Longer(paths) \in X
  OBVIOUS
<1>3. {<<>>} \in X
  OBVIOUS
<1>4. PICK g : g = CHOOSE f : Solves(f)
  OBVIOUS
<1>5. DOMAIN Document(heap, value) = UNION {g[n] : n \in 0..levels}
  <2> DEFINE Shown(path) == LET at == GetAtPath(heap, value, path)
                            IN  IF IsRef(heap, at) THEN heap[at].kind ELSE at
  <2>1. Document(heap, value) = [path \in UNION {g[n] : n \in 0..levels} |-> Shown(path)]
    BY <1>4, Zenon DEF Document
  <2> HIDE DEF Shown, levels
  <2> QED BY <2>1
<1> HIDE DEF X, Longer, levels
<1>6. next \in [1..levels -> [X -> X]] /\ \A k \in 1..levels, paths \in X : next[k][paths] = Longer(paths)
  BY <1>2
<1> HIDE DEF next
<1>7. PICK f \in [0..levels -> X] : Follows(f, levels, {<<>>}, next)
  BY <1>1, <1>3, <1>6, RecursionExists
<1>8. ASSUME NEW k \in 0..levels PROVE f[k] = IF k = 0 THEN {<<>>} ELSE Longer(f[k - 1])
  <2>1. CASE k = 0
    BY <1>7, <2>1 DEF Follows
  <2>2. CASE k # 0
    <3>1. k \in 1..levels /\ k - 1 \in 0..levels
      BY <1>1, <2>2
    <3>2. f[k - 1] \in X /\ f[k] = next[k][f[k - 1]]
      BY <1>7, <3>1 DEF Follows
    <3> QED BY <1>6, <2>2, <3>1, <3>2
  <2> QED BY <2>1, <2>2
<1>9. Solves(f)
  BY <1>8
<1>10. Solves(g)
  BY <1>4, <1>9
<1>11. g[0] = {<<>>} /\ \A k \in 1..levels : g[k] = Longer(g[k - 1])
  <2>1. \A k \in 0..levels : g[k] = IF k = 0 THEN {<<>>} ELSE Longer(g[k - 1])
    BY <1>10
  <2> QED BY <1>1, <2>1
<1> DEFINE T == {k \in Nat : k <= levels => g[k] \in X}
<1>12. 0 \in T
  BY <1>3, <1>11
<1>13. ASSUME NEW k \in Nat, k \in T PROVE k + 1 \in T
  <2> SUFFICES ASSUME k + 1 <= levels PROVE g[k + 1] \in X
    OBVIOUS
  <2>1. k + 1 \in 1..levels /\ (k + 1) - 1 = k /\ g[k] \in X
    BY <1>1, <1>13
  <2> QED BY <1>2, <1>11, <2>1
<1> HIDE DEF T
<1>14. Nat \subseteq T
  BY <1>12, <1>13, InductionOver
<1> USE DEF T
<1>15. \A k \in 0..levels : g[k] \in X
  BY <1>1, <1>14
<1> QED BY <1>5, <1>15 DEF X

(* Between two operations and in the result, no two places of the working    *)
(* document are one object and none is the caller's: neither a value that is *)
(* added or copied nor one that a merge takes over is shared.                *)
THEOREM WorkingIsATreeHolds == Spec => []WorkingIsATree
<1>1. ASSUME IInv PROVE WorkingIsATree
  <2> SUFFICES ASSUME outcome \in {"running", "done"}
      PROVE  /\ RefsIn(work.heap, work.root) \cap DOMAIN CallerHeap = {}
             /\ \A p, q \in ContainersIn(work.heap, work.root) :
                   GetAtPath(work.heap, work.root, p) = GetAtPath(work.heap, work.root, q) => p = q
    BY DEF WorkingIsATree
  <2>1. Sound(work.heap) /\ Loose(work.heap, work.root)
    BY <1>1 DEF IInv
  <2>2. Usable(work.heap, work.root) /\ work.root \notin DOMAIN CallerHeap
    BY <2>1 DEF Loose, Usable
  <2>3. \A p \in ContainersIn(work.heap, work.root) :
           p \in Seq(Token) /\ GetAtPath(work.heap, work.root, p) \in DOMAIN work.heap
    BY DocumentsHavePaths DEF ContainersIn, IsRef
  <2>4. RefsIn(work.heap, work.root) \cap DOMAIN CallerHeap = {}
    BY <2>1, <2>2, <2>3, ReachedIsUsable DEF RefsIn
  <2>5. \A p, q \in ContainersIn(work.heap, work.root) :
           GetAtPath(work.heap, work.root, p) = GetAtPath(work.heap, work.root, q) => p = q
    BY <2>1, <2>3, PathsAreOne
  <2> QED BY <2>4, <2>5
<1> QED BY <1>1, IInvHolds, PTL

=============================================================================

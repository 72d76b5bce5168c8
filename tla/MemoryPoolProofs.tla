-------------------------- MODULE MemoryPoolProofs --------------------------
(***************************************************************************)
(* Proofs about MemoryPool, for any operands, buffers, memories, lengths   *)
(* and number of references.                                               *)
(*                                                                         *)
(* The counts are kept per block, the references in one list, so that each *)
(* step is followed in both: a reference that is pushed or dropped adds or *)
(* takes one element of exactly one set of live references.  That a new    *)
(* copy has a free address rests on every reference naming a copy that was *)
(* made no later than itself.                                              *)
(***************************************************************************)
EXTENDS MemoryPool, FiniteSetTheorems, TLAPS

\* A reference to a copy comes with the copy or after it.
AddressInv ==
  \A k \in 1..Len(mem_refs_) :
    mem_refs_[k] # None /\ mem_refs_[k].type = "SML" => mem_refs_[k].address <= k

\* An operand with a small value refers to a copy.
OperandInv ==
  \A o \in Operand :
    operand[o] > dropped /\ small[o] =>
      mem_refs_[operand[o]] # None /\ mem_refs_[operand[o]].type = "SML"

IInv == TypeOK /\ AddressInv /\ OperandInv /\ CountsMatchRefs

pool == <<mmp, nml, sml, mem_refs_, dropped>>

-----------------------------------------------------------------------------
LEMMA Constants ==
  /\ Threshold \in Nat /\ MaxRefs \in Nat /\ None \notin Ref
  /\ Size \in [Memory -> Nat \ {0}]
  /\ Lengths \subseteq Nat \ {0} /\ Offsets \subseteq Nat
  BY PoolAssumption

LEMMA LiveFinite ==
  ASSUME TypeOK, NEW type, NEW field, NEW block
  PROVE  /\ IsFiniteSet(LiveRefs(type, field, block))
         /\ Cardinality(LiveRefs(type, field, block)) \in Nat
         /\ LiveRefs(type, field, block) = {} <=> Cardinality(LiveRefs(type, field, block)) = 0
<1>1. dropped + 1 \in Int /\ Len(mem_refs_) \in Int
  BY DEF TypeOK
<1>2. IsFiniteSet(dropped + 1..Len(mem_refs_))
  BY <1>1, FS_Interval
<1>3. LiveRefs(type, field, block) \in SUBSET (dropped + 1..Len(mem_refs_))
  BY DEF LiveRefs
<1>4. IsFiniteSet(LiveRefs(type, field, block))
  BY <1>2, <1>3, FS_Subset
<1> QED
  BY <1>4, FS_CardinalityType, FS_EmptySet

Hit(ref, type, field, block) == ref # None /\ ref.type = type /\ ref[field] = block

\* A reference that is pushed is live, and no other becomes so.
LEMMA PushLive ==
  ASSUME TypeOK, NEW ref, Push(ref), UNCHANGED dropped, NEW type, NEW field, NEW block
  PROVE  /\ Hit(ref, type, field, block) =>
              /\ Len(mem_refs_) + 1 \in LiveRefs(type, field, block)'
              /\ Cardinality(LiveRefs(type, field, block)')
                   = Cardinality(LiveRefs(type, field, block)) + 1
         /\ ~Hit(ref, type, field, block) =>
              LiveRefs(type, field, block)' = LiveRefs(type, field, block)
<1> DEFINE n == Len(mem_refs_) + 1
           live == LiveRefs(type, field, block)
<1>1. /\ n \in Nat /\ dropped \in Nat /\ dropped < n
      /\ Len(mem_refs_') = n /\ mem_refs_'[n] = ref
      /\ \A k \in 1..Len(mem_refs_) : mem_refs_'[k] = mem_refs_[k]
  BY DEF TypeOK, Push
<1>2. live' = {k \in dropped + 1..n : Hit(mem_refs_'[k], type, field, block)}
  BY <1>1 DEF LiveRefs, Hit
<1>3. live = {k \in dropped + 1..n - 1 : Hit(mem_refs_[k], type, field, block)}
  BY <1>1 DEF LiveRefs, Hit
<1>4. \A k \in dropped + 1..n - 1 : mem_refs_'[k] = mem_refs_[k]
  BY <1>1
<1>5. n \notin live
  BY <1>1, <1>3
<1>6. CASE Hit(ref, type, field, block)
  <2>1. live' = live \cup {n}
    BY <1>1, <1>2, <1>3, <1>4, <1>6
  <2>2. Cardinality(live \cup {n}) = Cardinality(live) + 1
    BY <1>5, LiveFinite, FS_AddElement
  <2> QED
    BY <1>6, <2>1, <2>2
<1>7. CASE ~Hit(ref, type, field, block)
  <2>1. live' = live
    BY <1>1, <1>2, <1>3, <1>4, <1>7
  <2> QED
    BY <1>7, <2>1
<1> QED
  BY <1>6, <1>7

\* A reference that is dropped was live, and all others stay so.
LEMMA DropLive ==
  ASSUME TypeOK, DropRef, NEW type, NEW field, NEW block
  PROVE  LET ref == mem_refs_[dropped + 1]
             live == LiveRefs(type, field, block)
         IN  /\ Hit(ref, type, field, block) =>
                  /\ dropped + 1 \in live
                  /\ live' = live \ {dropped + 1}
                  /\ Cardinality(live') = Cardinality(live) - 1
             /\ ~Hit(ref, type, field, block) => live' = live
<1> DEFINE ref == mem_refs_[dropped + 1]
           live == LiveRefs(type, field, block)
<1>1. /\ dropped \in Nat /\ Len(mem_refs_) \in Nat /\ dropped + 1 <= Len(mem_refs_)
      /\ dropped' = dropped + 1 /\ mem_refs_' = mem_refs_
  BY DEF TypeOK, DropRef
<1>2. live' = {k \in dropped + 2..Len(mem_refs_) : Hit(mem_refs_[k], type, field, block)}
  BY <1>1 DEF LiveRefs, Hit
<1>3. live = {k \in dropped + 1..Len(mem_refs_) : Hit(mem_refs_[k], type, field, block)}
  BY <1>1 DEF LiveRefs, Hit
<1>4. live' = live \ {dropped + 1}
  BY <1>1, <1>2, <1>3
<1>5. CASE Hit(ref, type, field, block)
  <2>1. dropped + 1 \in live
    BY <1>1, <1>3, <1>5
  <2> QED
    BY <1>4, <1>5, <2>1, LiveFinite, FS_RemoveElement
<1>6. CASE ~Hit(ref, type, field, block)
  <2>1. dropped + 1 \notin live
    BY <1>1, <1>3, <1>6
  <2> QED
    BY <1>4, <1>6, <2>1
<1> QED
  BY <1>5, <1>6

\* After a push the list is one longer and the same up to there.
LEMMA PushList ==
  ASSUME TypeOK, NEW ref \in Ref \cup {None}, Push(ref)
  PROVE  /\ mem_refs_' \in Seq(Ref \cup {None})
         /\ Len(mem_refs_) \in Nat /\ Len(mem_refs_') = Len(mem_refs_) + 1
         /\ Len(mem_refs_) + 1 \in 1..MaxRefs
         /\ \A k \in 1..Len(mem_refs_) : mem_refs_'[k] = mem_refs_[k]
         /\ mem_refs_'[Len(mem_refs_) + 1] = ref
<1>1. mem_refs_' = Append(mem_refs_, ref) /\ Len(mem_refs_) < MaxRefs /\ Len(mem_refs_) \in Nat
  BY DEF TypeOK, Push
<1> QED
  BY <1>1, Constants DEF TypeOK

-----------------------------------------------------------------------------
(* The part of the invariant that is about the block lists                 *)

PoolType ==
  /\ mmp \in [Memory -> Nat]
  /\ nml \in [Buffer -> Nat]
  /\ DOMAIN sml \subseteq 1..MaxRefs
  /\ \A a \in DOMAIN sml : sml[a] \in Copy
  /\ mem_refs_ \in Seq(Ref \cup {None})
  /\ dropped \in 0..Len(mem_refs_)

PoolInv == PoolType /\ AddressInv /\ CountsMatchRefs

LEMMA PushAddress ==
  ASSUME TypeOK, AddressInv, NEW ref \in Ref \cup {None}, Push(ref),
         ref # None /\ ref.type = "SML" => ref.address <= Len(mem_refs_) + 1
  PROVE  AddressInv'
<1> SUFFICES ASSUME NEW k \in 1..Len(mem_refs_'),
                    mem_refs_'[k] # None, mem_refs_'[k].type = "SML"
             PROVE  mem_refs_'[k].address <= k
  BY DEF AddressInv
<1>1. CASE k = Len(mem_refs_) + 1
  BY <1>1, PushList
<1>2. CASE k \in 1..Len(mem_refs_)
  BY <1>2, PushList DEF AddressInv
<1> QED
  BY <1>1, <1>2, PushList

LEMMA AddMmp ==
  ASSUME IInv, UNCHANGED dropped,
         NEW m \in Memory, NEW offset \in Offsets, NEW len \in Lengths, addMmp(m, offset, len)
  PROVE  PoolInv' /\ \E ref \in Ref \cup {None} : Push(ref)
<1> DEFINE fits == offset < Size[m]
           ref  == IF fits THEN [type |-> "MMP", src |-> m, address |-> offset,
                                 len |-> clip(m, offset, len)]
                           ELSE None
<1>1. /\ offset \in Nat /\ len \in Nat /\ Size[m] \in Nat
      /\ fits => clip(m, offset, len) \in Nat /\ offset + clip(m, offset, len) <= Size[m]
  BY Constants DEF clip
<1>2. ref \in Ref \cup {None} /\ (fits => ref \in Ref)
  BY <1>1 DEF Ref, Region
<1>3. /\ Push(ref) /\ UNCHANGED <<nml, sml>>
      /\ mmp' = [mmp EXCEPT ![m] = IF fits THEN @ + 1 ELSE 0]
  BY <1>1 DEF addMmp
<1>4. PoolType'
  <2>1. mmp \in [Memory -> Nat] /\ dropped \in 0..Len(mem_refs_)
    BY DEF IInv, TypeOK
  <2>2. mmp' \in [Memory -> Nat]
    BY <1>3, <2>1
  <2>3. dropped' \in 0..Len(mem_refs_')
    BY <1>2, <1>3, <2>1, PushList DEF IInv
  <2> QED
    BY <1>2, <1>3, <2>2, <2>3, PushList DEF IInv, TypeOK, PoolType
<1>5. AddressInv'
  BY <1>2, <1>3, PushAddress DEF IInv
<1>6. \A a \in 1..MaxRefs : LiveRefs("SML", "address", a)' = LiveRefs("SML", "address", a)
  <2> SUFFICES ASSUME NEW a \in 1..MaxRefs
               PROVE  LiveRefs("SML", "address", a)' = LiveRefs("SML", "address", a)
    OBVIOUS
  <2>1. ~Hit(ref, "SML", "address", a)
    BY DEF Hit
  <2> QED
    BY <1>3, <2>1, PushLive DEF IInv
<1>7. \A b \in Buffer : LiveRefs("NML", "src", b)' = LiveRefs("NML", "src", b)
  <2> SUFFICES ASSUME NEW b \in Buffer
               PROVE  LiveRefs("NML", "src", b)' = LiveRefs("NML", "src", b)
    OBVIOUS
  <2>1. ~Hit(ref, "NML", "src", b)
    BY DEF Hit
  <2> QED
    BY <1>3, <2>1, PushLive DEF IInv
<1>8. \A x \in Memory : mmp'[x] <= Cardinality(LiveRefs("MMP", "src", x)')
  <2> SUFFICES ASSUME NEW x \in Memory
               PROVE  mmp'[x] <= Cardinality(LiveRefs("MMP", "src", x)')
    OBVIOUS
  <2> DEFINE live == LiveRefs("MMP", "src", x)
  <2>1. Cardinality(live) \in Nat /\ mmp[x] <= Cardinality(live) /\ mmp \in [Memory -> Nat]
    BY LiveFinite DEF IInv, TypeOK, CountsMatchRefs
  <2>2. \/ Hit(ref, "MMP", "src", x) /\ Cardinality(live') = Cardinality(live) + 1
        \/ ~Hit(ref, "MMP", "src", x) /\ live' = live
    BY <1>3, PushLive DEF IInv
  <2>3. ASSUME fits, x = m
        PROVE  Hit(ref, "MMP", "src", x)
    <3>1. ref # None
      BY <1>2, <2>3, Constants
    <3> QED
      BY <2>3, <3>1 DEF Hit
  <2>4. Cardinality(live') \in Nat /\ Cardinality(live') >= Cardinality(live)
    BY <2>1, <2>2
  <2>5. CASE fits /\ x = m
    BY <1>3, <2>1, <2>2, <2>3, <2>5
  <2>6. CASE ~(fits /\ x = m)
    BY <1>3, <2>1, <2>4, <2>6
  <2> QED
    BY <2>5, <2>6
<1>9. CountsMatchRefs'
  BY <1>3, <1>6, <1>7, <1>8 DEF IInv, CountsMatchRefs
<1> QED
  BY <1>2, <1>3, <1>4, <1>5, <1>9 DEF PoolInv

LEMMA AddNml ==
  ASSUME IInv, UNCHANGED dropped, NEW b \in Buffer, NEW len \in Lengths, addNml(b, len)
  PROVE  PoolInv' /\ \E ref \in Ref \cup {None} : Push(ref)
<1> DEFINE ref == [type |-> "NML", src |-> b, address |-> b, len |-> len]
<1>1. ref \in Ref \cup {None} /\ ref # None
  BY Constants DEF Ref
<1>2. Push(ref) /\ UNCHANGED <<mmp, sml>> /\ nml' = [nml EXCEPT ![b] = @ + 1]
  BY DEF addNml
<1>3. PoolType'
  <2>1. nml \in [Buffer -> Nat] /\ dropped \in 0..Len(mem_refs_)
    BY DEF IInv, TypeOK
  <2>2. nml' \in [Buffer -> Nat]
    BY <1>2, <2>1
  <2>3. dropped' \in 0..Len(mem_refs_')
    BY <1>1, <1>2, <2>1, PushList DEF IInv
  <2> QED
    BY <1>1, <1>2, <2>2, <2>3, PushList DEF IInv, TypeOK, PoolType
<1>4. AddressInv'
  BY <1>1, <1>2, PushAddress DEF IInv
<1>5. \A a \in 1..MaxRefs : LiveRefs("SML", "address", a)' = LiveRefs("SML", "address", a)
  <2> SUFFICES ASSUME NEW a \in 1..MaxRefs
               PROVE  LiveRefs("SML", "address", a)' = LiveRefs("SML", "address", a)
    OBVIOUS
  <2>1. ~Hit(ref, "SML", "address", a)
    BY DEF Hit
  <2> QED
    BY <1>2, <2>1, PushLive DEF IInv
<1>6. \A x \in Buffer : nml'[x] = Cardinality(LiveRefs("NML", "src", x)')
  <2> SUFFICES ASSUME NEW x \in Buffer
               PROVE  nml'[x] = Cardinality(LiveRefs("NML", "src", x)')
    OBVIOUS
  <2> DEFINE live == LiveRefs("NML", "src", x)
  <2>1. nml[x] = Cardinality(live) /\ nml \in [Buffer -> Nat]
    BY DEF IInv, TypeOK, CountsMatchRefs
  <2>2. CASE x = b
    <3>1. Hit(ref, "NML", "src", x)
      BY <1>1, <2>2 DEF Hit
    <3>2. Cardinality(live') = Cardinality(live) + 1
      BY <1>2, <3>1, PushLive DEF IInv
    <3> QED
      BY <1>2, <2>1, <2>2, <3>2
  <2>3. CASE x # b
    <3>1. ~Hit(ref, "NML", "src", x)
      BY <2>3 DEF Hit
    <3>2. live' = live
      BY <1>2, <3>1, PushLive DEF IInv
    <3> QED
      BY <1>2, <2>1, <2>3, <3>2
  <2> QED
    BY <2>2, <2>3
<1>7. \A m \in Memory : LiveRefs("MMP", "src", m)' = LiveRefs("MMP", "src", m)
  <2> SUFFICES ASSUME NEW m \in Memory
               PROVE  LiveRefs("MMP", "src", m)' = LiveRefs("MMP", "src", m)
    OBVIOUS
  <2>1. ~Hit(ref, "MMP", "src", m)
    BY DEF Hit
  <2> QED
    BY <1>2, <2>1, PushLive DEF IInv
<1>8. CountsMatchRefs'
  BY <1>2, <1>5, <1>6, <1>7 DEF IInv, CountsMatchRefs
<1> QED
  BY <1>1, <1>2, <1>3, <1>4, <1>8 DEF PoolInv

\* The address of a new copy is free.
LEMMA FreshAddress ==
  ASSUME IInv
  PROVE  Len(mem_refs_) + 1 \notin DOMAIN sml
<1> SUFFICES ASSUME Len(mem_refs_) + 1 \in DOMAIN sml
             PROVE  FALSE
  OBVIOUS
<1>1. /\ Len(mem_refs_) \in Nat /\ dropped \in 0..Len(mem_refs_)
      /\ Len(mem_refs_) + 1 \in 1..MaxRefs
  BY DEF IInv, TypeOK
<1>2. PICK k : k \in LiveRefs("SML", "address", Len(mem_refs_) + 1)
  BY <1>1 DEF IInv, CountsMatchRefs
<1>3. /\ k \in 1..Len(mem_refs_) /\ mem_refs_[k] # None /\ mem_refs_[k].type = "SML"
      /\ mem_refs_[k].address = Len(mem_refs_) + 1
  BY <1>1, <1>2 DEF LiveRefs
<1>4. Len(mem_refs_) + 1 <= k
  BY <1>3 DEF IInv, AddressInv
<1> QED
  BY <1>1, <1>3, <1>4

\* A copy is made or shared: its address, its count and the reference to it.
LEMMA AddSml ==
  ASSUME IInv, NEW b \in Buffer, NEW len \in Lengths, addSml(b, len)
  PROVE  /\ UNCHANGED <<mmp, nml>>
         /\ \E a \in 1..Len(mem_refs_) + 1, l \in Lengths :
              /\ Push([type |-> "SML", src |-> b, address |-> a, len |-> l])
              /\ DOMAIN sml' = DOMAIN sml \cup {a}
              /\ sml'[a] \in Copy
              /\ sml'[a].count = IF a \in DOMAIN sml THEN sml[a].count + 1 ELSE 1
              /\ \A x \in DOMAIN sml : x # a => sml'[x] = sml[x]
              /\ a \in DOMAIN sml => sml'[a].data = sml[a].data
<1> USE DEF IInv
<1>1. Len(mem_refs_) \in Nat
  BY DEF TypeOK
<1>2. CASE NewCopy(b, len)
  <2> DEFINE a == Len(mem_refs_) + 1
             new == [src |-> b, data |-> contents[b], len |-> len, count |-> 1]
  <2>1. a \notin DOMAIN sml /\ a \in 1..Len(mem_refs_) + 1
    BY <1>1, FreshAddress
  <2>2. new \in Copy
    BY DEF TypeOK, Copy
  <2>3. sml' = [x \in DOMAIN sml \cup {a} |-> IF x = a THEN new ELSE sml[x]]
    BY <1>2 DEF NewCopy
  <2>4. /\ DOMAIN sml' = DOMAIN sml \cup {a} /\ sml'[a] = new
        /\ \A x \in DOMAIN sml : x # a => sml'[x] = sml[x]
    BY <2>3
  <2>5. Push([type |-> "SML", src |-> b, address |-> a, len |-> len])
    BY <1>2 DEF NewCopy
  <2> QED
    BY <2>1, <2>2, <2>4, <2>5 DEF addSml
<1>3. ASSUME NEW a \in CopiesOf(b), Share(a, len)
      PROVE  \E l \in Lengths :
               /\ a \in 1..Len(mem_refs_) + 1
               /\ Push([type |-> "SML", src |-> b, address |-> a, len |-> l])
               /\ DOMAIN sml' = DOMAIN sml \cup {a}
               /\ sml'[a] \in Copy
               /\ a \in DOMAIN sml
               /\ sml'[a].count = sml[a].count + 1
               /\ \A x \in DOMAIN sml : x # a => sml'[x] = sml[x]
               /\ sml'[a].data = sml[a].data
  <2>1. /\ a \in DOMAIN sml /\ a \in 1..MaxRefs /\ sml[a].src = b /\ sml[a] \in Copy
        /\ sml[a].len \in Lengths /\ sml[a].count \in Nat
    BY <1>3 DEF CopiesOf, TypeOK, Copy
  <2>2. a \in 1..Len(mem_refs_)
    <3>1. PICK k : k \in LiveRefs("SML", "address", a)
      BY <2>1 DEF CountsMatchRefs
    <3>2. k \in 1..Len(mem_refs_) /\ a <= k
      BY <3>1, <1>1 DEF LiveRefs, AddressInv, TypeOK
    <3> QED
      BY <1>1, <2>1, <3>2
  <2>3. sml' = [sml EXCEPT ![a].count = @ + 1]
    BY <1>3 DEF Share
  <2>4. DOMAIN sml' = DOMAIN sml
    BY <2>3
  <2>5. sml'[a] = [sml[a] EXCEPT !.count = @ + 1]
    BY <2>1, <2>3
  <2>6. \A x \in DOMAIN sml : x # a => sml'[x] = sml[x]
    BY <2>1, <2>3
  <2>7. sml'[a] \in Copy /\ sml'[a].count = sml[a].count + 1 /\ sml'[a].data = sml[a].data
    BY <2>1, <2>5 DEF Copy
  <2>8. Push([type |-> "SML", src |-> b, address |-> a, len |-> sml[a].len])
    BY <1>3, <2>1 DEF Share
  <2>9. a \in 1..Len(mem_refs_) + 1
    BY <1>1, <2>2
  <2>10. DOMAIN sml' = DOMAIN sml \cup {a}
    BY <2>1, <2>4
  <2> QED
    BY <2>1, <2>6, <2>7, <2>8, <2>9, <2>10
<1> QED
  BY <1>2, <1>3 DEF addSml

LEMMA AddSmlInv ==
  ASSUME IInv, UNCHANGED dropped, NEW b \in Buffer, NEW len \in Lengths, addSml(b, len)
  PROVE  PoolInv' /\ \E ref \in Ref : ref.type = "SML" /\ Push(ref)
<1>1. PICK a \in 1..Len(mem_refs_) + 1, l \in Lengths :
        /\ Push([type |-> "SML", src |-> b, address |-> a, len |-> l])
        /\ DOMAIN sml' = DOMAIN sml \cup {a}
        /\ sml'[a] \in Copy
        /\ sml'[a].count = IF a \in DOMAIN sml THEN sml[a].count + 1 ELSE 1
        /\ \A x \in DOMAIN sml : x # a => sml'[x] = sml[x]
  BY AddSml
<1> DEFINE ref == [type |-> "SML", src |-> b, address |-> a, len |-> l]
<1>2. Len(mem_refs_) \in Nat /\ Len(mem_refs_) < MaxRefs /\ MaxRefs \in Nat
  BY <1>1, Constants DEF IInv, TypeOK, Push
<1>3. ref \in Ref /\ ref \in Ref \cup {None} /\ ref # None /\ a \in 1..MaxRefs
  BY <1>2, Constants DEF Ref
<1>4. Push(ref) /\ UNCHANGED <<mmp, nml>>
  BY <1>1, AddSml
<1>5. PoolType'
  <2>1. dropped' \in 0..Len(mem_refs_')
    BY <1>3, <1>4, PushList DEF IInv, TypeOK
  <2>2. DOMAIN sml' \subseteq 1..MaxRefs /\ \A x \in DOMAIN sml' : sml'[x] \in Copy
    BY <1>1, <1>3 DEF IInv, TypeOK
  <2> QED
    BY <1>3, <1>4, <2>1, <2>2, PushList DEF IInv, TypeOK, PoolType
<1>6. AddressInv'
  BY <1>2, <1>3, <1>4, PushAddress DEF IInv
<1>7. ASSUME NEW x \in 1..MaxRefs
      PROVE  LET refs == LiveRefs("SML", "address", x)'
             IN  /\ x \in DOMAIN sml' <=> refs # {}
                 /\ x \in DOMAIN sml' => sml'[x].count = Cardinality(refs)
  <2> DEFINE live == LiveRefs("SML", "address", x)
  <2>1. /\ x \in DOMAIN sml <=> live # {}
        /\ x \in DOMAIN sml => sml[x].count = Cardinality(live)
    BY DEF IInv, CountsMatchRefs
  <2>2. CASE x = a
    <3>1. Hit(ref, "SML", "address", x)
      BY <1>3, <2>2 DEF Hit
    <3>2. live' # {} /\ Cardinality(live') = Cardinality(live) + 1
      BY <1>4, <3>1, PushLive DEF IInv
    <3>3. x \notin DOMAIN sml => Cardinality(live) = 0
      BY <2>1, LiveFinite DEF IInv
    <3> QED
      BY <1>1, <2>1, <2>2, <3>2, <3>3
  <2>3. CASE x # a
    <3>1. ~Hit(ref, "SML", "address", x)
      BY <2>3 DEF Hit
    <3>2. live' = live
      BY <1>4, <3>1, PushLive DEF IInv
    <3> QED
      BY <1>1, <2>1, <2>3, <3>2
  <2> QED
    BY <2>2, <2>3
<1>8. \A x \in Buffer : LiveRefs("NML", "src", x)' = LiveRefs("NML", "src", x)
  <2> SUFFICES ASSUME NEW x \in Buffer
               PROVE  LiveRefs("NML", "src", x)' = LiveRefs("NML", "src", x)
    OBVIOUS
  <2>1. ~Hit(ref, "NML", "src", x)
    BY DEF Hit
  <2> QED
    BY <1>4, <2>1, PushLive DEF IInv
<1>9. \A x \in Memory : LiveRefs("MMP", "src", x)' = LiveRefs("MMP", "src", x)
  <2> SUFFICES ASSUME NEW x \in Memory
               PROVE  LiveRefs("MMP", "src", x)' = LiveRefs("MMP", "src", x)
    OBVIOUS
  <2>1. ~Hit(ref, "MMP", "src", x)
    BY DEF Hit
  <2> QED
    BY <1>4, <2>1, PushLive DEF IInv
<1>10. CountsMatchRefs'
  BY <1>4, <1>7, <1>8, <1>9 DEF IInv, CountsMatchRefs
<1> QED
  BY <1>3, <1>4, <1>5, <1>6, <1>10 DEF PoolInv

-----------------------------------------------------------------------------
(* A reference is dropped                                                  *)

LEMMA DropInv ==
  ASSUME IInv, DropRef
  PROVE  PoolInv'
<1> USE DEF IInv
<1> DEFINE ref == mem_refs_[dropped + 1]
           copies(a) == LiveRefs("SML", "address", a)
           uses(b) == LiveRefs("NML", "src", b)
           maps(m) == LiveRefs("MMP", "src", m)
<1>1. /\ dropped \in Nat /\ Len(mem_refs_) \in Nat /\ dropped + 1 \in 1..Len(mem_refs_)
      /\ dropped' = dropped + 1 /\ mem_refs_' = mem_refs_
      /\ ref \in Ref \cup {None}
  BY DEF TypeOK, DropRef
<1>2. dropped' \in 0..Len(mem_refs_') /\ mem_refs_' \in Seq(Ref \cup {None}) /\ AddressInv'
  BY <1>1 DEF TypeOK, AddressInv
<1>3. /\ \A a \in 1..MaxRefs : ~Hit(ref, "SML", "address", a) => copies(a)' = copies(a)
      /\ \A b \in Buffer : ~Hit(ref, "NML", "src", b) => uses(b)' = uses(b)
      /\ \A m \in Memory : ~Hit(ref, "MMP", "src", m) => maps(m)' = maps(m)
  BY DropLive
<1>4. CASE ref = None /\ UNCHANGED <<mmp, nml, sml>>
  <2>1. /\ \A a \in 1..MaxRefs : copies(a)' = copies(a)
        /\ \A b \in Buffer : uses(b)' = uses(b)
        /\ \A m \in Memory : maps(m)' = maps(m)
    BY <1>3, <1>4 DEF Hit
  <2>2. CountsMatchRefs'
    BY <1>4, <2>1 DEF CountsMatchRefs
  <2> QED
    BY <1>2, <1>4, <2>2 DEF PoolInv, PoolType, TypeOK
<1>5. CASE ref # None /\ ref.type = "SML" /\ delSml(ref)
  <2>1. PICK a \in 1..MaxRefs : a = ref.address /\ Hit(ref, "SML", "address", a)
    BY <1>1, <1>5 DEF Ref, Region, Hit
  <2>2. copies(a) # {} /\ Cardinality(copies(a)') = Cardinality(copies(a)) - 1
    BY <2>1, DropLive
  <2>3. /\ a \in DOMAIN sml /\ sml[a].count = Cardinality(copies(a))
        /\ sml[a] \in Copy /\ sml[a].count \in Nat \ {0}
    BY <2>1, <2>2, LiveFinite DEF CountsMatchRefs, TypeOK, Copy
  <2>4. copies(a)' = {} <=> sml[a].count = 1
    <3>1. copies(a)' = copies(a) \ {dropped + 1} /\ dropped + 1 \in copies(a)
      BY <2>1, DropLive
    <3>2. IsFiniteSet(copies(a)')
      BY <3>1, LiveFinite, FS_Subset
    <3>3. copies(a)' = {} <=> Cardinality(copies(a)') = 0
      BY <3>2, FS_EmptySet
    <3> QED
      BY <2>2, <2>3, <3>3
  <2>5. UNCHANGED <<mmp, nml>>
    BY <1>5 DEF delSml
  <2>6. /\ DOMAIN sml' = IF sml[a].count = 1 THEN DOMAIN sml \ {a} ELSE DOMAIN sml
        /\ \A x \in DOMAIN sml : x # a => sml'[x] = sml[x]
        /\ sml[a].count # 1 => sml'[a] = [sml[a] EXCEPT !.count = @ - 1]
    BY <1>5, <2>1, <2>3 DEF delSml
  <2>7. sml[a].count # 1 => sml'[a] \in Copy /\ sml'[a].count = sml[a].count - 1
    BY <2>3, <2>6 DEF Copy
  <2>8. DOMAIN sml' \subseteq 1..MaxRefs /\ \A x \in DOMAIN sml' : sml'[x] \in Copy
    BY <2>6, <2>7 DEF TypeOK
  <2>9. \A b \in Buffer : uses(b)' = uses(b)
    BY <1>3, <1>5 DEF Hit
  <2>10. \A m \in Memory : maps(m)' = maps(m)
    BY <1>3, <1>5 DEF Hit
  <2>11. ASSUME NEW x \in 1..MaxRefs
         PROVE  /\ x \in DOMAIN sml' <=> copies(x)' # {}
                /\ x \in DOMAIN sml' => sml'[x].count = Cardinality(copies(x)')
    <3>1. CASE x = a
      BY <2>2, <2>3, <2>4, <2>6, <2>7, <3>1
    <3>2. CASE x # a
      <4>1. copies(x)' = copies(x)
        BY <1>3, <2>1, <3>2 DEF Hit
      <4> QED
        BY <2>6, <3>2, <4>1 DEF CountsMatchRefs
    <3> QED
      BY <3>1, <3>2
  <2>12. CountsMatchRefs'
    BY <2>5, <2>9, <2>10, <2>11 DEF CountsMatchRefs
  <2> QED
    BY <1>2, <2>5, <2>8, <2>12 DEF PoolInv, PoolType, TypeOK
<1>6. CASE ref # None /\ ref.type = "NML" /\ delNml(ref)
  <2>1. PICK s \in Buffer : s = ref.src /\ Hit(ref, "NML", "src", s)
    BY <1>1, <1>6 DEF Ref, Region, Hit
  <2>2. uses(s) # {} /\ Cardinality(uses(s)') = Cardinality(uses(s)) - 1
    BY <2>1, DropLive
  <2>3. nml \in [Buffer -> Nat] /\ nml[s] = Cardinality(uses(s)) /\ nml[s] # 0
    BY <2>1, <2>2, LiveFinite DEF CountsMatchRefs, TypeOK
  <2>4. UNCHANGED <<mmp, sml>> /\ nml' = [nml EXCEPT ![s] = @ - 1]
    BY <1>6, <2>1, <2>3 DEF delNml, Decrement
  <2>5. nml' \in [Buffer -> Nat]
    BY <2>1, <2>3, <2>4
  <2>6. \A x \in Buffer : nml'[x] = Cardinality(uses(x)')
    <3> SUFFICES ASSUME NEW x \in Buffer
                 PROVE  nml'[x] = Cardinality(uses(x)')
      OBVIOUS
    <3>1. CASE x = s
      BY <2>2, <2>3, <2>4, <3>1
    <3>2. CASE x # s
      <4>1. uses(x)' = uses(x)
        BY <1>3, <2>1, <3>2 DEF Hit
      <4> QED
        BY <2>3, <2>4, <3>2, <4>1 DEF CountsMatchRefs
    <3> QED
      BY <3>1, <3>2
  <2>7. /\ \A a \in 1..MaxRefs : copies(a)' = copies(a)
        /\ \A m \in Memory : maps(m)' = maps(m)
    BY <1>3, <1>6 DEF Hit
  <2>8. CountsMatchRefs'
    BY <2>4, <2>6, <2>7 DEF CountsMatchRefs
  <2> QED
    BY <1>2, <2>4, <2>5, <2>8 DEF PoolInv, PoolType, TypeOK
<1>7. CASE ref # None /\ ref.type = "MMP" /\ delMmp(ref)
  <2>1. PICK s \in Memory : s = ref.src /\ Hit(ref, "MMP", "src", s)
    BY <1>1, <1>7 DEF Ref, Region, Hit
  <2>2. Cardinality(maps(s)') = Cardinality(maps(s)) - 1 /\ maps(s) # {}
    BY <2>1, DropLive
  <2>3. /\ mmp \in [Memory -> Nat] /\ mmp[s] <= Cardinality(maps(s))
        /\ Cardinality(maps(s)) \in Nat \ {0}
    BY <2>1, <2>2, LiveFinite DEF CountsMatchRefs, TypeOK
  <2>4. UNCHANGED <<nml, sml>> /\ mmp' = [mmp EXCEPT ![s] = Decrement(@)]
    BY <1>7, <2>1 DEF delMmp
  <2>5. Decrement(mmp[s]) \in Nat /\ Decrement(mmp[s]) <= Cardinality(maps(s)')
    BY <2>1, <2>2, <2>3 DEF Decrement
  <2>6. mmp' \in [Memory -> Nat]
    BY <2>3, <2>4, <2>5
  <2>7. \A x \in Memory : mmp'[x] <= Cardinality(maps(x)')
    <3> SUFFICES ASSUME NEW x \in Memory
                 PROVE  mmp'[x] <= Cardinality(maps(x)')
      OBVIOUS
    <3>1. CASE x = s
      BY <2>3, <2>4, <2>5, <3>1
    <3>2. CASE x # s
      <4>1. maps(x)' = maps(x)
        BY <1>3, <2>1, <3>2 DEF Hit
      <4> QED
        BY <2>3, <2>4, <3>2, <4>1 DEF CountsMatchRefs
    <3> QED
      BY <3>1, <3>2
  <2>8. /\ \A a \in 1..MaxRefs : copies(a)' = copies(a)
        /\ \A b \in Buffer : uses(b)' = uses(b)
    BY <1>3, <1>7 DEF Hit
  <2>9. CountsMatchRefs'
    BY <2>4, <2>7, <2>8 DEF CountsMatchRefs
  <2> QED
    BY <1>2, <2>4, <2>6, <2>9 DEF PoolInv, PoolType, TypeOK
<1> QED
  BY <1>4, <1>5, <1>6, <1>7 DEF DropRef

-----------------------------------------------------------------------------
(* The invariant                                                           *)

LEMMA InitIInv == Init => IInv
<1> SUFFICES ASSUME Init
             PROVE  IInv
  OBVIOUS
<1>1. /\ mem_refs_ = <<>> /\ Len(mem_refs_) = 0 /\ dropped = 0
      /\ mem_refs_ \in Seq(Ref \cup {None}) /\ DOMAIN sml = {}
  BY DEF Init
<1>2. TypeOK
  <2>1. /\ mmp \in [Memory -> Nat] /\ nml \in [Buffer -> Nat]
        /\ operand \in [Operand -> {0}] /\ small \in [Operand -> BOOLEAN]
    BY DEF Init
  <2>2. dropped \in 0..Len(mem_refs_) /\ 0..Len(mem_refs_) = {0}
    BY <1>1
  <2> QED
    BY <1>1, <2>1, <2>2 DEF Init, TypeOK
<1>3. \A type, field, block : LiveRefs(type, field, block) = {}
  BY <1>1 DEF LiveRefs
<1>4. CountsMatchRefs
  <2>1. Cardinality({}) = 0
    BY FS_EmptySet
  <2>2. /\ \A b \in Buffer : nml[b] = 0
        /\ \A m \in Memory : mmp[m] = 0
    BY DEF Init
  <2>3. \A a \in 1..MaxRefs : a \notin DOMAIN sml
    BY <1>1
  <2> QED
    BY <1>3, <2>1, <2>2, <2>3 DEF CountsMatchRefs
<1> QED
  BY <1>1, <1>2, <1>4 DEF IInv, AddressInv, OperandInv, Init

\* What the pool keeps, and operands that only look at older references.
LEMMA PushOperands ==
  ASSUME IInv, UNCHANGED dropped, NEW ref \in Ref \cup {None}, Push(ref),
         NEW o \in Operand, operand[o] > dropped, small[o]
  PROVE  /\ operand[o] \in 1..Len(mem_refs_)
         /\ mem_refs_'[operand[o]] = mem_refs_[operand[o]]
         /\ mem_refs_'[operand[o]] # None /\ mem_refs_'[operand[o]].type = "SML"
<1>1. operand[o] \in 1..Len(mem_refs_)
  BY DEF IInv, TypeOK
<1> QED
  BY <1>1, PushList DEF IInv, OperandInv

LEMMA BindStep ==
  ASSUME IInv, PoolInv', UNCHANGED <<contents, dropped, destroying, operand, small>>,
         NEW ref \in Ref \cup {None}, Push(ref)
  PROVE  IInv'
<1>1. TypeOK'
  <2>1. operand' \in [Operand -> 0..Len(mem_refs_')]
    BY PushList DEF IInv, TypeOK
  <2> QED
    BY <2>1 DEF IInv, TypeOK, PoolInv, PoolType
<1>2. OperandInv'
  BY PushOperands DEF OperandInv
<1> QED
  BY <1>1, <1>2 DEF IInv, PoolInv

\* An operand takes the reference that was pushed; a small value is a copy.
LEMMA SetStep ==
  ASSUME IInv, PoolInv', UNCHANGED <<contents, dropped, destroying>>,
         NEW ref \in Ref \cup {None}, Push(ref),
         NEW o \in Operand, NEW s \in BOOLEAN,
         operand' = [operand EXCEPT ![o] = Len(mem_refs_')],
         small' = [small EXCEPT ![o] = s],
         s => ref # None /\ ref.type = "SML"
  PROVE  IInv'
<1>1. operand \in [Operand -> 0..Len(mem_refs_)] /\ small \in [Operand -> BOOLEAN]
  BY DEF IInv, TypeOK
<1>2. TypeOK'
  <2>1. operand' \in [Operand -> 0..Len(mem_refs_')] /\ small' \in [Operand -> BOOLEAN]
    BY <1>1, PushList DEF IInv
  <2> QED
    BY <2>1 DEF IInv, TypeOK, PoolInv, PoolType
<1>3. OperandInv'
  <2> SUFFICES ASSUME NEW p \in Operand, operand'[p] > dropped', small'[p]
               PROVE  mem_refs_'[operand'[p]] # None /\ mem_refs_'[operand'[p]].type = "SML"
    BY DEF OperandInv
  <2>1. CASE p = o
    BY <1>1, <2>1, PushList DEF IInv
  <2>2. CASE p # o
    BY <1>1, <2>2, PushOperands
  <2> QED
    BY <2>1, <2>2
<1> QED
  BY <1>2, <1>3 DEF IInv, PoolInv

LEMMA IInvStep == IInv /\ [Next]_vars => IInv'
<1> SUFFICES ASSUME IInv, [Next]_vars
             PROVE  IInv'
  OBVIOUS
<1>1. CASE UNCHANGED pool /\ UNCHANGED <<operand, small>>
           /\ contents' \in [Buffer -> Data] /\ destroying' \in BOOLEAN
  <2>1. TypeOK' /\ AddressInv' /\ OperandInv'
    BY <1>1 DEF IInv, TypeOK, AddressInv, OperandInv, pool
  <2>2. \A type, field, block : LiveRefs(type, field, block)' = LiveRefs(type, field, block)
    BY <1>1 DEF LiveRefs, pool
  <2>3. CountsMatchRefs'
    BY <1>1, <2>2 DEF IInv, CountsMatchRefs, pool
  <2> QED
    BY <2>1, <2>3 DEF IInv
<1>2. ASSUME NEW b \in Buffer, NEW d \in Data, Write(b, d)
      PROVE  IInv'
  <2>1. contents' \in [Buffer -> Data] /\ destroying' \in BOOLEAN
    BY <1>2 DEF Write, IInv, TypeOK
  <2> QED
    BY <1>1, <1>2, <2>1 DEF Write, pool
<1>3. ASSUME NEW b \in Buffer, NEW len \in Lengths, bindBuffer(b, len)
      PROVE  IInv'
  BY <1>3, AddNml, BindStep DEF bindBuffer
<1>4. ASSUME NEW b \in Buffer, NEW len \in Lengths, NEW o \in Operand,
             setOperandValue(o, b, len)
      PROVE  IInv'
  <2>1. /\ UNCHANGED <<contents, dropped, destroying>>
        /\ operand' = [operand EXCEPT ![o] = Len(mem_refs_')]
        /\ small' = [small EXCEPT ![o] = len <= Threshold]
        /\ (len <= Threshold) \in BOOLEAN
    BY <1>4 DEF setOperandValue
  <2>2. CASE len <= Threshold
    <3>1. addSml(b, len)
      BY <1>4, <2>2 DEF setOperandValue
    <3>2. PICK ref \in Ref : ref.type = "SML" /\ Push(ref)
      BY <2>1, <3>1, AddSmlInv
    <3>3. PoolInv'
      BY <2>1, <3>1, AddSmlInv
    <3>4. ref \in Ref \cup {None} /\ ref # None
      BY Constants
    <3> QED
      BY <2>1, <3>2, <3>3, <3>4, SetStep
  <2>3. CASE ~(len <= Threshold)
    <3>1. addNml(b, len)
      BY <1>4, <2>3 DEF setOperandValue
    <3>2. PICK ref \in Ref \cup {None} : Push(ref)
      BY <2>1, <3>1, AddNml
    <3>3. PoolInv'
      BY <2>1, <3>1, AddNml
    <3> QED
      BY <2>1, <2>3, <3>2, <3>3, SetStep
  <2> QED
    BY <2>2, <2>3
<1>5. ASSUME NEW m \in Memory, NEW offset \in Offsets, NEW len \in Lengths,
             bindMemory(m, offset, len)
      PROVE  IInv'
  BY <1>5, AddMmp, BindStep DEF bindMemory
<1>6. ASSUME NEW m \in Memory, NEW offset \in Offsets, NEW len \in Lengths,
             NEW o \in Operand, setOperandValueFromMemory(o, m, offset, len)
      PROVE  IInv'
  <2>1. /\ UNCHANGED <<contents, dropped, destroying>> /\ addMmp(m, offset, len)
        /\ operand' = [operand EXCEPT ![o] = Len(mem_refs_')]
        /\ small' = [small EXCEPT ![o] = FALSE]
    BY <1>6 DEF setOperandValueFromMemory
  <2>2. PICK ref \in Ref \cup {None} : Push(ref)
    BY <2>1, AddMmp
  <2>3. PoolInv'
    BY <2>1, AddMmp
  <2> QED
    BY <2>1, <2>2, <2>3, SetStep
<1>7. CASE destroyModel
  BY <1>1, <1>7 DEF destroyModel, pool, IInv, TypeOK
<1>8. CASE DropRef
  <2>1. PoolInv'
    BY <1>8, DropInv
  <2>2. /\ UNCHANGED <<contents, mem_refs_, destroying, operand, small>>
        /\ dropped' = dropped + 1 /\ dropped \in Nat
        /\ operand \in [Operand -> 0..Len(mem_refs_)]
    BY <1>8 DEF DropRef, IInv, TypeOK
  <2>3. TypeOK'
    BY <2>1, <2>2 DEF IInv, TypeOK, PoolInv, PoolType
  <2>4. OperandInv'
    BY <2>2 DEF IInv, OperandInv
  <2> QED
    BY <2>1, <2>3, <2>4 DEF IInv, PoolInv
<1>9. CASE UNCHANGED vars
  BY <1>1, <1>9 DEF vars, pool, IInv, TypeOK
<1> QED
  BY <1>2, <1>3, <1>4, <1>5, <1>6, <1>7, <1>8, <1>9 DEF Next

\* The conjunction above holds in every state that can be reached.
THEOREM Invariance == Spec => []IInv
  BY InitIInv, IInvStep, PTL DEF Spec

\* A region of a Memory that Model::add_memory_reference hands out lies inside
\* it, and every value has its type.
THEOREM TypeOKThm == Spec => []TypeOK
<1>1. IInv => TypeOK
  BY DEF IInv
<1> QED
  BY <1>1, Invariance, PTL

\* The counts that add_reference and del_reference keep are those of the
\* references in mem_refs_: a copy lives exactly as long as its references.
THEOREM CountsMatchRefsThm == Spec => []CountsMatchRefs
<1>1. IInv => CountsMatchRefs
  BY DEF IInv
<1> QED
  BY <1>1, Invariance, PTL

-----------------------------------------------------------------------------
(* The value of a small constant                                           *)

\* The copy a live operand with a small value stands for.
LEMMA CopyOf ==
  ASSUME IInv, NEW o \in Operand, operand[o] > dropped, small[o]
  PROVE  /\ operand[o] \in 1..Len(mem_refs_)
         /\ mem_refs_[operand[o]] \in Ref
         /\ mem_refs_[operand[o]].address \in DOMAIN sml
<1> DEFINE k == operand[o]
           a == mem_refs_[k].address
<1>1. /\ k \in 1..Len(mem_refs_) /\ k \in dropped + 1..Len(mem_refs_)
      /\ mem_refs_[k] \in Ref /\ mem_refs_[k] # None /\ mem_refs_[k].type = "SML"
  BY DEF IInv, TypeOK, OperandInv
<1>2. a \in 1..MaxRefs
  BY <1>1 DEF Ref, Region
<1>3. k \in LiveRefs("SML", "address", a)
  BY <1>1 DEF LiveRefs
<1> QED
  BY <1>1, <1>2, <1>3 DEF IInv, CountsMatchRefs

\* The bytes of a copy and the reference that names it outlive every push.
LEMMA PushValue ==
  ASSUME IInv, UNCHANGED dropped, NEW ref \in Ref \cup {None}, Push(ref),
         \A a \in DOMAIN sml : sml'[a].data = sml[a].data,
         NEW o \in Operand, operand[o] > dropped, small[o],
         operand'[o] = operand[o], small'[o] = small[o]
  PROVE  ValueOf(o)' = ValueOf(o)
<1>1. mem_refs_'[operand[o]] = mem_refs_[operand[o]]
  BY PushOperands
<1>2. mem_refs_[operand[o]].address \in DOMAIN sml
  BY CopyOf
<1> QED
  BY <1>1, <1>2 DEF ValueOf

LEMMA ValueStep ==
  ASSUME IInv, [Next]_vars, NEW o \in Operand,
         ValueOf(o) # None, operand'[o] = operand[o], UNCHANGED dropped
  PROVE  ValueOf(o)' = ValueOf(o)
<1>1. /\ operand[o] > dropped /\ small[o]
      /\ Len(mem_refs_) \in Nat /\ dropped \in Nat
      /\ operand \in [Operand -> 0..Len(mem_refs_)] /\ small \in [Operand -> BOOLEAN]
  BY DEF ValueOf, IInv, TypeOK
<1>2. ASSUME UNCHANGED <<sml, mem_refs_, operand, small>>
      PROVE  ValueOf(o)' = ValueOf(o)
  BY <1>2 DEF ValueOf
<1>3. ASSUME NEW ref \in Ref \cup {None}, Push(ref), NEW p \in Operand, NEW s \in BOOLEAN,
             operand' = [operand EXCEPT ![p] = Len(mem_refs_')],
             small' = [small EXCEPT ![p] = s]
      PROVE  small'[o] = small[o]
  <2>1. Len(mem_refs_') = Len(mem_refs_) + 1
    BY <1>3, PushList DEF IInv
  <2>2. p # o
    BY <1>1, <1>3, <2>1
  <2> QED
    BY <1>1, <1>3, <2>2
<1>4. ASSUME NEW b \in Buffer, NEW d \in Data, Write(b, d)
      PROVE  ValueOf(o)' = ValueOf(o)
  BY <1>2, <1>4 DEF Write
<1>5. ASSUME NEW b \in Buffer, NEW len \in Lengths, bindBuffer(b, len)
      PROVE  ValueOf(o)' = ValueOf(o)
  <2>1. PICK ref \in Ref \cup {None} : Push(ref)
    BY <1>5, AddNml DEF bindBuffer
  <2> QED
    BY <1>1, <1>5, <2>1, PushValue DEF bindBuffer, addNml
<1>6. ASSUME NEW b \in Buffer, NEW len \in Lengths, NEW p \in Operand,
             setOperandValue(p, b, len)
      PROVE  ValueOf(o)' = ValueOf(o)
  <2>1. /\ operand' = [operand EXCEPT ![p] = Len(mem_refs_')]
        /\ small' = [small EXCEPT ![p] = len <= Threshold]
        /\ (len <= Threshold) \in BOOLEAN
    BY <1>6 DEF setOperandValue
  <2>2. CASE len <= Threshold
    <3>1. addSml(b, len)
      BY <1>6, <2>2 DEF setOperandValue
    <3>2. PICK ref \in Ref : Push(ref)
      BY <3>1, AddSmlInv
    <3>3. \A a \in DOMAIN sml : sml'[a].data = sml[a].data
      BY <3>1, AddSml
    <3>4. small'[o] = small[o]
      BY <1>3, <2>1, <3>2
    <3> QED
      BY <1>1, <3>2, <3>3, <3>4, PushValue
  <2>3. CASE ~(len <= Threshold)
    <3>1. addNml(b, len)
      BY <1>6, <2>3 DEF setOperandValue
    <3>2. PICK ref \in Ref \cup {None} : Push(ref)
      BY <3>1, AddNml
    <3>3. small'[o] = small[o]
      BY <1>3, <2>1, <3>2
    <3> QED
      BY <1>1, <3>1, <3>2, <3>3, PushValue DEF addNml
  <2> QED
    BY <2>2, <2>3
<1>7. ASSUME NEW m \in Memory, NEW offset \in Offsets, NEW len \in Lengths,
             bindMemory(m, offset, len)
      PROVE  ValueOf(o)' = ValueOf(o)
  <2>1. PICK ref \in Ref \cup {None} : Push(ref)
    BY <1>7, AddMmp DEF bindMemory
  <2> QED
    BY <1>1, <1>7, <2>1, PushValue DEF bindMemory, addMmp
<1>8. ASSUME NEW m \in Memory, NEW offset \in Offsets, NEW len \in Lengths,
             NEW p \in Operand, setOperandValueFromMemory(p, m, offset, len)
      PROVE  ValueOf(o)' = ValueOf(o)
  <2>1. PICK ref \in Ref \cup {None} : Push(ref)
    BY <1>8, AddMmp DEF setOperandValueFromMemory
  <2>2. small'[o] = small[o]
    BY <1>3, <1>8, <2>1 DEF setOperandValueFromMemory
  <2> QED
    BY <1>1, <1>8, <2>1, <2>2, PushValue DEF setOperandValueFromMemory, addMmp
<1>9. CASE destroyModel
  BY <1>2, <1>9 DEF destroyModel
<1>10. CASE DropRef
  BY <1>1, <1>10 DEF DropRef
<1>11. CASE UNCHANGED vars
  BY <1>2, <1>11 DEF vars
<1> QED
  BY <1>4, <1>5, <1>6, <1>7, <1>8, <1>9, <1>10, <1>11 DEF Next

\* A small constant keeps its value until it is set again or the Model goes,
\* whatever the application does with the buffer it was set from.
THEOREM SmallValuesStableThm == Spec => SmallValuesStable
<1> DEFINE Stable == \A o \in Operand :
             ValueOf(o) # None /\ operand'[o] = operand[o] /\ dropped' = dropped
               => ValueOf(o)' = ValueOf(o)
<1>1. IInv /\ [Next]_vars => [Stable]_vars
  BY ValueStep
<1>2. Spec => [][Stable]_vars
  BY <1>1, Invariance, PTL DEF Spec
<1> QED
  BY <1>2 DEF SmallValuesStable
=============================================================================

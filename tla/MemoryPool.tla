----------------------------- MODULE MemoryPool -----------------------------
(***************************************************************************)
(* nnrt/memory_pool.cpp as nnrt/model.cpp and model.hpp use it: the        *)
(* reference-counted blocks behind the operands of a Model and behind the  *)
(* inputs and outputs of its executions.                                   *)
(*                                                                         *)
(* There are three kinds of block: a region of a mapped Memory object      *)
(* (MMP), a buffer of the application that is only pointed at (NML), and a *)
(* copy of a small buffer (SML).  Each kind counts its references.  The    *)
(* Model keeps every reference it makes in mem_refs_ until its destructor  *)
(* drops them one by one.  The application may change its buffers at any   *)
(* time.                                                                   *)
(*                                                                         *)
(* A length is at least one, and offset + length is assumed not to exceed  *)
(* the width of size_t.                                                    *)
(***************************************************************************)
EXTENDS Naturals, Sequences, FiniteSets

CONSTANTS
  Operand,    \* operands of the Model
  Buffer,     \* addresses of buffers of the application
  Memory,     \* its Memory objects
  Size,       \* the length of each of them
  Data,       \* contents a buffer may have
  Lengths,    \* lengths that are asked for
  Offsets,    \* offsets that are asked for
  Threshold,  \* small_block_shreshold
  MaxRefs,    \* bound of the model on the references ever made
  None

Copy  == [src : Buffer, data : Data, len : Lengths, count : Nat]
Region == {r \in [type : {"MMP"}, src : Memory, address : Offsets, len : Nat] :
             r.address + r.len <= Size[r.src]}
Ref   == Region
    \cup [type : {"NML"}, src : Buffer, address : Buffer, len : Lengths]
    \cup [type : {"SML"}, src : Buffer, address : 1..MaxRefs, len : Lengths]

ASSUME PoolAssumption ==
  /\ Size \in [Memory -> Nat \ {0}]
  /\ Lengths \subseteq Nat \ {0} /\ Offsets \subseteq Nat
  /\ Threshold \in Nat /\ MaxRefs \in Nat
  /\ None \notin Ref

VARIABLES
  contents,   \* what each buffer holds
  mmp,        \* Mmp_block_list::mem_list_, 0 for no entry
  nml,        \* Nml_block_list::mem_list_, 0 for no entry
  sml,        \* Sml_block_list: address of the copy -> what is known of it
  mem_refs_,  \* Model::mem_refs_, None for a null pointer
  dropped,    \* how many of them the destructor has destroyed
  destroying, \* the destructor runs
  operand,    \* weak_mem_ref: the position in mem_refs_, 0 for none
  small       \* history: the value last given to the operand was small

vars == <<contents, mmp, nml, sml, mem_refs_, dropped, destroying, operand, small>>

\* Types, among them that every region of a Memory that is handed out lies inside it.
TypeOK ==
  /\ contents \in [Buffer -> Data]
  /\ mmp \in [Memory -> Nat]
  /\ nml \in [Buffer -> Nat]
  /\ DOMAIN sml \subseteq 1..MaxRefs
  /\ \A a \in DOMAIN sml : sml[a] \in Copy
  /\ mem_refs_ \in Seq(Ref \cup {None})
  /\ dropped \in 0..Len(mem_refs_)
  /\ destroying \in BOOLEAN
  /\ operand \in [Operand -> 0..Len(mem_refs_)]
  /\ small \in [Operand -> BOOLEAN]

Init ==
  /\ contents \in [Buffer -> Data]
  /\ mmp = [m \in Memory |-> 0]
  /\ nml = [b \in Buffer |-> 0]
  /\ sml = <<>>
  /\ mem_refs_ = <<>>
  /\ dropped = 0
  /\ destroying = FALSE
  /\ operand = [o \in Operand |-> 0]
  /\ small = [o \in Operand |-> FALSE]

\* The application reuses a buffer.
Write(b, d) ==
  /\ contents' = [contents EXCEPT ![b] = d]
  /\ UNCHANGED <<mmp, nml, sml, mem_refs_, dropped, destroying, operand, small>>

-----------------------------------------------------------------------------
(* add_reference of the three block lists: each pushes the reference onto  *)
(* mem_refs_                                                               *)

Push(ref) ==
  /\ ~destroying
  /\ Len(mem_refs_) < MaxRefs
  /\ mem_refs_' = Append(mem_refs_, ref)

\* Mutant: a region that ends past the memory is not cut.
clipNot(m, offset, len) == len

clip(m, offset, len) == IF offset + len < Size[m] THEN len ELSE Size[m] - offset

\* A region that starts past the end fails, and the entry of the memory is
\* erased, whoever else refers to it.
addMmp(m, offset, len) ==
  /\ UNCHANGED <<nml, sml>>
  /\ \/ /\ offset >= Size[m]
        /\ mmp' = [mmp EXCEPT ![m] = 0]
        /\ Push(None)
     \/ /\ offset < Size[m]
        /\ mmp' = [mmp EXCEPT ![m] = @ + 1]
        /\ Push([type |-> "MMP", src |-> m, address |-> offset, len |-> clip(m, offset, len)])

\* Blocks are told apart by their address only.
addNml(b, len) ==
  /\ nml' = [nml EXCEPT ![b] = @ + 1]
  /\ Push([type |-> "NML", src |-> b, address |-> b, len |-> len])
  /\ UNCHANGED <<mmp, sml>>

\* A new copy has an address of its own.
NewCopy(b, len) ==
  LET a == Len(mem_refs_) + 1
  IN  /\ sml' = [x \in DOMAIN sml \cup {a} |->
                   IF x = a THEN [src |-> b, data |-> contents[b], len |-> len, count |-> 1]
                            ELSE sml[x]]
      /\ Push([type |-> "SML", src |-> b, address |-> a, len |-> len])

\* Mutant: a copy that is shared is brought up to date.
ShareUpdated(a, len) ==
  /\ sml' = [sml EXCEPT ![a].count = @ + 1, ![a].data = contents[sml[a].src]]
  /\ Push([type |-> "SML", src |-> sml[a].src, address |-> a, len |-> sml[a].len])

\* Mutant: a shared copy is not counted again.
ShareUncounted(a, len) ==
  /\ Push([type |-> "SML", src |-> sml[a].src, address |-> a, len |-> sml[a].len])
  /\ UNCHANGED sml

\* The same source address again: the copy made then, at its length then,
\* whatever the buffer holds now and however long it is.
Share(a, len) ==
  /\ sml' = [sml EXCEPT ![a].count = @ + 1]
  /\ Push([type |-> "SML", src |-> sml[a].src, address |-> a, len |-> sml[a].len])

CopiesOf(b) == {a \in DOMAIN sml : sml[a].src = b}

addSml(b, len) ==
  /\ \/ CopiesOf(b) = {} /\ NewCopy(b, len)
     \/ \E a \in CopiesOf(b) : Share(a, len)
  /\ UNCHANGED <<mmp, nml>>

-----------------------------------------------------------------------------
(* The Model and its executions                                            *)

\* Model::setOperandValue on a tensor; Manager::add_reference picks the list.
setOperandValue(o, b, len) ==
  /\ IF len <= Threshold THEN addSml(b, len) ELSE addNml(b, len)
  /\ operand' = [operand EXCEPT ![o] = Len(mem_refs_')]
  /\ small' = [small EXCEPT ![o] = len <= Threshold]
  /\ UNCHANGED <<contents, dropped, destroying>>

setOperandValueFromMemory(o, m, offset, len) ==
  /\ addMmp(m, offset, len)
  /\ operand' = [operand EXCEPT ![o] = Len(mem_refs_')]
  /\ small' = [small EXCEPT ![o] = FALSE]
  /\ UNCHANGED <<contents, dropped, destroying>>

\* Model::add_memory_reference for an input or output of an execution: buffers
\* are never copied, whatever their length.
bindBuffer(b, len) ==
  /\ addNml(b, len)
  /\ UNCHANGED <<contents, dropped, destroying, operand, small>>

bindMemory(m, offset, len) ==
  /\ addMmp(m, offset, len)
  /\ UNCHANGED <<contents, dropped, destroying, operand, small>>

-----------------------------------------------------------------------------
(* Model::~Model destroys mem_refs_; Ref_deleter calls del_reference       *)

destroyModel ==
  /\ ~destroying
  /\ destroying' = TRUE
  /\ UNCHANGED <<contents, mmp, nml, sml, mem_refs_, dropped, operand, small>>

delSml(ref) ==
  /\ sml' = IF sml[ref.address].count = 1
            THEN [a \in DOMAIN sml \ {ref.address} |-> sml[a]]
            ELSE [sml EXCEPT ![ref.address].count = @ - 1]
  /\ UNCHANGED <<mmp, nml>>

\* Nothing is found when the entry has been erased.
Decrement(count) == IF count = 0 THEN 0 ELSE count - 1

delNml(ref) == nml' = [nml EXCEPT ![ref.src] = Decrement(@)] /\ UNCHANGED <<mmp, sml>>

delMmp(ref) == mmp' = [mmp EXCEPT ![ref.src] = Decrement(@)] /\ UNCHANGED <<nml, sml>>

DropRef ==
  /\ destroying
  /\ dropped < Len(mem_refs_)
  /\ dropped' = dropped + 1
  /\ LET ref == mem_refs_[dropped + 1]
     IN  \/ ref = None /\ UNCHANGED <<mmp, nml, sml>>
         \/ ref # None /\ ref.type = "SML" /\ delSml(ref)
         \/ ref # None /\ ref.type = "NML" /\ delNml(ref)
         \/ ref # None /\ ref.type = "MMP" /\ delMmp(ref)
  /\ UNCHANGED <<contents, mem_refs_, destroying, operand, small>>

-----------------------------------------------------------------------------
Next ==
  \/ \E b \in Buffer, d \in Data : Write(b, d)
  \/ \E b \in Buffer, len \in Lengths :
       \/ bindBuffer(b, len)
       \/ \E o \in Operand : setOperandValue(o, b, len)
  \/ \E m \in Memory, offset \in Offsets, len \in Lengths :
       \/ bindMemory(m, offset, len)
       \/ \E o \in Operand : setOperandValueFromMemory(o, m, offset, len)
  \/ destroyModel
  \/ DropRef

Spec == Init /\ [][Next]_vars

-----------------------------------------------------------------------------
(* Properties                                                              *)

\* The references that exist, of one type and to one block.
LiveRefs(type, field, block) ==
  {k \in dropped + 1..Len(mem_refs_) :
     mem_refs_[k] # None /\ mem_refs_[k].type = type /\ mem_refs_[k][field] = block}

\* A small copy lives exactly as long as references to it, over sharing and
\* through the destructor, and a pointed-at buffer is counted once per
\* reference; a mapped memory is never counted more often than it is referred to.
CountsMatchRefs ==
  /\ \A a \in 1..MaxRefs :
       LET refs == LiveRefs("SML", "address", a)
       IN  /\ a \in DOMAIN sml <=> refs # {}
           /\ a \in DOMAIN sml => sml[a].count = Cardinality(refs)
  /\ \A b \in Buffer : nml[b] = Cardinality(LiveRefs("NML", "src", b))
  /\ \A m \in Memory : mmp[m] <= Cardinality(LiveRefs("MMP", "src", m))

\* The bytes a small operand stands for, None if it has none (any more).
ValueOf(o) ==
  IF operand[o] > dropped /\ small[o]
  THEN [data |-> sml[mem_refs_[operand[o]].address].data, len |-> mem_refs_[operand[o]].len]
  ELSE None

\* A small constant, once set, keeps its value until it is set again or the
\* Model goes, whatever the application does with its buffer and whichever
\* other operand is set from the same buffer.
SmallValuesStable ==
  [][\A o \in Operand : ValueOf(o) # None /\ operand'[o] = operand[o] /\ dropped' = dropped
       => ValueOf(o)' = ValueOf(o)]_vars
=============================================================================

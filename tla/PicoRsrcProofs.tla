--------------------------- MODULE PicoRsrcProofs ---------------------------
(***************************************************************************)
(* Theorems about the resource manager: for any resource files, names and  *)
(* limits, lock counts are the references of the engine's voice, and so    *)
(* what the voice points at stays loaded; and no call loses memory or an   *)
(* open file, but for the failing loads and definitions that are named.    *)
(* Then theorems about the program that uses it: whatever call of          *)
(* pico2wave fails, the ladder of labels takes down what was built, and an *)
(* exit status of zero means that nothing was left behind.                 *)
(***************************************************************************)
EXTENDS PicoStart, PicoInduction, SequenceTheorems, TLAPS

-----------------------------------------------------------------------------
(* The inductive invariant. *)

\* The resources and their files.
RInv ==
  /\ Loaded \subseteq Handles /\ IsFiniteSet(Loaded)
  /\ rsrc \in [Loaded -> [file : Sources, lockCount : Int]]
  /\ numResources = Cardinality(Loaded) /\ numResources <= PICO_MAX_NUM_RESOURCES
  /\ \A g, h \in Loaded : Name(g) = Name(h) => g = h
  /\ openFiles \in 0 .. MaxFiles /\ Cardinality(FilesLoaded) <= openFiles

GoodVdef(d) ==
  /\ Len(d.rs) >= 1 /\ Len(d.rs) <= PICO_MAX_NUM_RSRC_PER_VOICE
  /\ d.rs[1] = NameOf[Default]

\* The voice definitions.
DInv ==
  /\ vdefs \in Seq([name : VoiceNames, rs : Seq(Names)])
  /\ numVdefs = Len(vdefs) /\ numVdefs <= PICO_MAX_NUM_VOICE_DEFINITIONS
  /\ freeVdefs \in Nat
  /\ \A i, j \in DOMAIN vdefs : vdefs[i].name = vdefs[j].name => i = j
  /\ \A i \in DOMAIN vdefs : GoodVdef(vdefs[i])

\* What a voice that lists the names ns is like.
GoodVoice(v) ==
  /\ v \in Voice
  /\ Len(v.rs) <= PICO_MAX_NUM_RSRC_PER_VOICE
  /\ \A i \in DOMAIN v.rs : v.rs[i] \in Loaded
  /\ \A k \in KbIds : v.kb[k] # NULL => \E i \in DOMAIN v.rs : v.kb[k] = v.rs[i] /\ k \in Kbs(v.rs[i])
  /\ \A k \in KbIds : (\E i \in DOMAIN v.rs : k \in Kbs(v.rs[i])) => v.kb[k] # NULL
  /\ \E i \in DOMAIN v.rs : Name(v.rs[i]) = NameOf[Default]

\* The voices.
VInv ==
  /\ engine # NULL => GoodVoice(engine)
  /\ numVoices = IF engine = NULL THEN 0 ELSE 1
  /\ freeVoices \in Seq(Voice)
  /\ LockCounts

IInv ==
  /\ up \in BOOLEAN /\ used \in Int /\ used <= Memory /\ status \in Statuses
  /\ ~up => Loaded = {} /\ vdefs = <<>> /\ engine = NULL
  /\ RInv /\ DInv /\ VInv

-----------------------------------------------------------------------------
(* Facts about sequences and counting. *)

\* A nonempty set of indices has a last one.
LEMMA LastIndex ==
  ASSUME NEW n \in Nat, NEW T \in SUBSET (1 .. n), T # {}
  PROVE  \E i \in T : \A j \in T : j <= i
<1> DEFINE D == {n - i : i \in T}
<1>1. \A i \in T : i \in Int /\ i <= n
  OBVIOUS
<1>2. D \subseteq Nat
  BY <1>1
<1>3. D # {}
  <2>1. PICK i \in T : TRUE
    OBVIOUS
  <2>2. n - i \in D
    BY <2>1
  <2> QED
    BY <2>2
<1>4. PICK x \in D : \A y \in D : ~ (y < x)
  <2> DEFINE R == OpToRel(<, Nat)
  <2>1. IsWellFoundedOn(R, Nat)
    BY NatLessThanWellFounded
  <2>2. ASSUME NEW x \in Nat, NEW y \in Nat, y < x PROVE <<y, x>> \in R
    BY <2>2, Zenon DEF OpToRel
  <2> HIDE DEF D, R
  <2>3. PICK x \in D : \A y \in D : ~ (<<y, x>> \in R)
    BY <1>2, <1>3, <2>1, WFMin
  <2> QED
    BY <1>2, <2>2, <2>3
<1>5. ASSUME NEW y \in D PROVE x <= y
  BY <1>2, <1>4
<1>6. PICK i \in T : x = n - i
  BY <1>4
<1>7. ASSUME NEW j \in T PROVE j <= i
  <2>1. n - j \in D
    OBVIOUS
  <2>2. x <= n - j
    BY <1>5, <2>1
  <2> QED
    BY <1>1, <1>6, <2>2
<1> QED
  BY <1>7

LEMMA IntervalSize ==
  ASSUME NEW n \in Nat
  PROVE  IsFiniteSet(1 .. n) /\ Cardinality(1 .. n) = n
<1>1. IsFiniteSet(1 .. n) /\ Cardinality(1 .. n) = IF 1 > n THEN 0 ELSE n - 1 + 1
  BY FS_Interval
<1> QED
  BY <1>1

\* A use count is zero exactly if there is no use.
LEMMA UsesType ==
  ASSUME NEW v \in Voice, NEW h
  PROVE  Uses(v, h) \in Nat /\ (Uses(v, h) = 0 <=> \A i \in DOMAIN v.rs : v.rs[i] # h)
<1> DEFINE S == {i \in DOMAIN v.rs : v.rs[i] = h}
<1>1. v.rs \in Seq(Handles)
  BY DEF Voice
<1>2. DOMAIN v.rs = 1 .. Len(v.rs) /\ Len(v.rs) \in Nat
  BY <1>1
<1>3. IsFiniteSet(1 .. Len(v.rs))
  BY <1>2, FS_Interval
<1>4. IsFiniteSet(S)
  BY <1>2, <1>3, FS_Subset
<1>5. Cardinality(S) \in Nat /\ (Cardinality(S) = 0 <=> S = {})
  <2> HIDE DEF S
  <2> QED
    BY <1>4, FS_CardinalityType, FS_EmptySet
<1> QED
  BY <1>5 DEF Uses

-----------------------------------------------------------------------------
(* The voice that picorsrc_createVoice makes. *)

LEMMA MadeVoiceIsGood ==
  ASSUME RInv, NEW ns \in Seq(Names), Len(ns) >= 1, Len(ns) <= PICO_MAX_NUM_RSRC_PER_VOICE,
         ns[1] = NameOf[Default], \A i \in DOMAIN ns : IsLoaded(ns[i])
  PROVE  GoodVoice(MadeVoice(ns))
<1> DEFINE rs == Resources(ns)
           kb == KbArray(CleanVoice, rs)
<1>1. DOMAIN ns = 1 .. Len(ns) /\ Len(ns) \in Nat
  OBVIOUS
<1>2. \A i \in DOMAIN ns : rs[i] \in Loaded /\ Name(rs[i]) = ns[i]
  BY DEF Resources, FindResource, IsLoaded
<1>3. rs \in Seq(Handles) /\ DOMAIN rs = DOMAIN ns /\ Len(rs) = Len(ns)
  <2>1. rs \in [1 .. Len(ns) -> Handles]
    BY <1>1, <1>2 DEF Resources, RInv
  <2> QED
    BY <1>1, <2>1
<1> HIDE DEF rs
<1>4. ASSUME NEW k \in KbIds
      PROVE  /\ kb[k] # NULL => \E i \in DOMAIN rs : kb[k] = rs[i] /\ k \in Kbs(rs[i])
             /\ (\E i \in DOMAIN rs : k \in Kbs(rs[i])) => kb[k] # NULL
             /\ kb[k] \in Handles \cup {NULL}
  <2>1. CASE \E i \in DOMAIN rs : k \in Kbs(rs[i])
    <3> DEFINE T == {i \in DOMAIN rs : k \in Kbs(rs[i])}
    <3>1. T \in SUBSET (1 .. Len(ns)) /\ T # {}
      BY <1>1, <1>3, <2>1
    <3>2. PICK i \in T : \A j \in T : j <= i
      <4> HIDE DEF T
      <4> QED
        BY <1>1, <3>1, LastIndex
    <3>3. i \in DOMAIN rs /\ k \in Kbs(rs[i]) /\ \A j \in i + 1 .. Len(rs) : k \notin Kbs(rs[j])
      <4>1. \A j \in i + 1 .. Len(rs) : j \in DOMAIN rs /\ ~ (j <= i)
        BY <1>1, <1>3
      <4> QED
        BY <3>2, <4>1
    <3>4. \E j \in DOMAIN rs : kb[k] = rs[j] /\ k \in Kbs(rs[j])
      BY <2>1, <3>3 DEF KbArray
    <3>5. kb[k] \in Handles
      BY <1>3, <3>4
    <3> QED
      BY <3>4, <3>5, RsrcAssumption
  <2>2. CASE ~ \E i \in DOMAIN rs : k \in Kbs(rs[i])
    BY <2>2 DEF KbArray, CleanVoice
  <2> QED
    BY <2>1, <2>2
<1>5. kb \in [KbIds -> Handles \cup {NULL}]
  BY <1>4 DEF KbArray
<1>6. MadeVoice(ns) = [rs |-> rs, kb |-> kb]
  BY DEF MadeVoice, rs
<1> HIDE DEF kb
<1>7. \E i \in DOMAIN rs : Name(rs[i]) = NameOf[Default]
  BY <1>1, <1>2, <1>3
<1> QED
  BY <1>1, <1>2, <1>3, <1>4, <1>5, <1>6, <1>7 DEF GoodVoice, Voice

\* A voice stays good while its resources are loaded.
LEMMA GoodVoiceKept ==
  ASSUME NEW CONSTANT v, GoodVoice(v),
         \A i \in DOMAIN v.rs : v.rs[i] \in DOMAIN rsrc' /\ rsrc'[v.rs[i]].file = rsrc[v.rs[i]].file
  PROVE  GoodVoice(v)'
<1>1. \A i \in DOMAIN v.rs : Kbs(v.rs[i])' = Kbs(v.rs[i]) /\ Name(v.rs[i])' = Name(v.rs[i])
  BY DEF Kbs, Name
<1> QED
  BY <1>1 DEF GoodVoice, Loaded

-----------------------------------------------------------------------------
(* The resources. *)

\* A file is opened and no resource added.
LEMMA OpensKeeps ==
  ASSUME RInv, Opens, UNCHANGED rsrcVars
  PROVE  RInv'
<1>1. Cardinality(FilesLoaded) \in Nat
  BY FS_Subset, FS_CardinalityType DEF RInv, FilesLoaded
<1>2. openFiles' = openFiles + 1 /\ openFiles < MaxFiles /\ openFiles \in Int
  BY DEF Opens, RInv
<1>3. /\ Loaded' = Loaded /\ FilesLoaded' = FilesLoaded
      /\ \A h : Name(h)' = Name(h)
  BY DEF rsrcVars, Loaded, FilesLoaded, Name
<1>4. openFiles' \in 0 .. MaxFiles /\ Cardinality(FilesLoaded)' <= openFiles'
  BY <1>1, <1>2, <1>3, RsrcAssumption DEF RInv
<1> QED
  BY <1>3, <1>4 DEF RInv, rsrcVars

\* A resource is added, and its file stays open.
LEMMA AddedKeeps ==
  ASSUME RInv, NEW h \in Handles \ Loaded, NEW f \in Sources, Added(h, f),
         ~IsLoaded(NameOf[f]), numResources < PICO_MAX_NUM_RESOURCES,
         openFiles' \in 0 .. MaxFiles,
         openFiles' = IF f = Default THEN openFiles ELSE openFiles + 1
  PROVE  /\ RInv'
         /\ Loaded' = Loaded \cup {h} /\ rsrc'[h].lockCount = 0
         /\ \A x \in Loaded : rsrc'[x] = rsrc[x]
<1>1. /\ Loaded' = Loaded \cup {h}
      /\ rsrc'[h] = [file |-> f, lockCount |-> 0]
      /\ \A x \in Loaded : rsrc'[x] = rsrc[x]
      /\ rsrc' = [x \in Loaded \cup {h} |-> rsrc'[x]]
  BY DEF Added, Loaded
<1>2. rsrc' \in [Loaded' -> [file : Sources, lockCount : Int]]
  BY <1>1 DEF RInv
<1>3. Loaded' \subseteq Handles /\ IsFiniteSet(Loaded')
  BY <1>1, FS_AddElement DEF RInv
<1>4. numResources' = Cardinality(Loaded') /\ numResources' <= PICO_MAX_NUM_RESOURCES
  <2>1. Cardinality(Loaded') = Cardinality(Loaded) + 1
    BY <1>1, FS_AddElement DEF RInv
  <2>2. Cardinality(Loaded) \in Nat
    BY FS_CardinalityType DEF RInv
  <2> QED
    BY <2>1, <2>2, RsrcAssumption DEF Added, RInv
<1>5. \A x, y \in Loaded' : Name(x)' = Name(y)' => x = y
  <2>1. Name(h)' = NameOf[f] /\ \A x \in Loaded : Name(x)' = Name(x)
    BY <1>1 DEF Name
  <2> QED
    BY <1>1, <2>1 DEF RInv, IsLoaded
<1>6. Cardinality(FilesLoaded') <= openFiles'
  <2>1. IsFiniteSet(FilesLoaded) /\ Cardinality(FilesLoaded) \in Nat
    BY FS_Subset, FS_CardinalityType DEF RInv, FilesLoaded
  <2>2. CASE f = Default
    <3>1. FilesLoaded' = FilesLoaded
      BY <1>1, <2>2 DEF FilesLoaded
    <3> QED
      BY <2>2, <3>1 DEF RInv
  <2>3. CASE f # Default
    <3>1. FilesLoaded' = FilesLoaded \cup {h}
      BY <1>1, <2>3 DEF FilesLoaded
    <3>2. h \notin FilesLoaded
      BY DEF FilesLoaded
    <3>3. Cardinality(FilesLoaded') = Cardinality(FilesLoaded) + 1
      BY <2>1, <3>1, <3>2, FS_AddElement
    <3> QED
      BY <2>1, <2>3, <3>3 DEF RInv
  <2> QED
    BY <2>2, <2>3
<1> QED
  BY <1>1, <1>2, <1>3, <1>4, <1>5, <1>6 DEF RInv

\* A resource is removed, and its file closed.
LEMMA RemovedKeeps ==
  ASSUME RInv, NEW h \in Loaded, rsrc[h].file # Default,
         rsrc' = [x \in Loaded \ {h} |-> rsrc[x]],
         numResources' = numResources - 1, openFiles' = openFiles - 1
  PROVE  RInv' /\ Loaded' = Loaded \ {h} /\ \A x \in Loaded' : rsrc'[x] = rsrc[x]
<1>1. Loaded' = Loaded \ {h} /\ \A x \in Loaded' : rsrc'[x] = rsrc[x]
  BY DEF Loaded
<1>2. rsrc' \in [Loaded' -> [file : Sources, lockCount : Int]]
  BY <1>1 DEF RInv
<1>3. Loaded' \subseteq Handles /\ IsFiniteSet(Loaded')
  BY <1>1, FS_RemoveElement DEF RInv
<1>4. numResources' = Cardinality(Loaded') /\ numResources' <= PICO_MAX_NUM_RESOURCES
  <2>1. Cardinality(Loaded') = Cardinality(Loaded) - 1
    BY <1>1, FS_RemoveElement DEF RInv
  <2>2. Cardinality(Loaded) \in Nat
    BY FS_CardinalityType DEF RInv
  <2> QED
    BY <2>1, <2>2, RsrcAssumption DEF RInv
<1>5. \A x, y \in Loaded' : Name(x)' = Name(y)' => x = y
  <2>1. \A x \in Loaded' : Name(x)' = Name(x)
    BY <1>1 DEF Name
  <2> QED
    BY <1>1, <2>1 DEF RInv
<1>6. openFiles' \in 0 .. MaxFiles /\ Cardinality(FilesLoaded') <= openFiles'
  <2>1. IsFiniteSet(FilesLoaded) /\ Cardinality(FilesLoaded) \in Nat
    BY FS_Subset, FS_CardinalityType DEF RInv, FilesLoaded
  <2>2. FilesLoaded' = FilesLoaded \ {h} /\ h \in FilesLoaded
    BY <1>1 DEF FilesLoaded
  <2>3. Cardinality(FilesLoaded') = Cardinality(FilesLoaded) - 1
    BY <2>1, <2>2, FS_RemoveElement
  <2>4. IsFiniteSet(FilesLoaded') /\ Cardinality(FilesLoaded') \in Nat
    BY <2>1, <2>2, FS_RemoveElement, FS_CardinalityType
  <2> QED
    BY <2>1, <2>3, <2>4, RsrcAssumption DEF RInv
<1> QED
  BY <1>1, <1>2, <1>3, <1>4, <1>5, <1>6 DEF RInv

\* Only lock counts change.
LEMMA LocksKeep ==
  ASSUME RInv, Loaded' = Loaded,
         rsrc' \in [Loaded -> [file : Sources, lockCount : Int]],
         \A h \in Loaded : rsrc'[h].file = rsrc[h].file,
         UNCHANGED <<numResources, openFiles>>
  PROVE  RInv'
<1>1. \A h \in Loaded : Name(h)' = Name(h)
  BY DEF Name
<1>2. FilesLoaded' = FilesLoaded
  BY DEF FilesLoaded
<1> QED
  BY <1>1, <1>2 DEF RInv

-----------------------------------------------------------------------------
(* The voice definitions. *)

VdefType == [name : VoiceNames, rs : Seq(Names)]

LEMMA VdefIndex ==
  ASSUME NEW v, Defined(v)
  PROVE  Vdef(v) \in DOMAIN vdefs /\ vdefs[Vdef(v)].name = v
BY DEF Defined, Vdef

LEMMA CreateVoiceDefinitionKeeps ==
  ASSUME DInv, NEW v \in VoiceNames \cup {LongVoice}, CreateVoiceDefinition(v)
  PROVE  DInv'
<1>1. CASE UNCHANGED vdefVars
  BY <1>1 DEF DInv, vdefVars
<1>2. CASE /\ ~Defined(v) /\ numVdefs < PICO_MAX_NUM_VOICE_DEFINITIONS
           /\ TakeVdef
           /\ v = LongVoice /\ UNCHANGED <<vdefs, numVdefs>>
  <2>1. freeVdefs' \in Nat
    BY <1>2 DEF TakeVdef, DInv
  <2> QED
    BY <1>2, <2>1 DEF DInv
<1>3. CASE /\ ~Defined(v) /\ numVdefs < PICO_MAX_NUM_VOICE_DEFINITIONS
           /\ TakeVdef
           /\ v # LongVoice
           /\ vdefs' = <<[name |-> v, rs |-> <<NameOf[Default]>>]>> \o vdefs
           /\ numVdefs' = numVdefs + 1
  <2> DEFINE r == [name |-> v, rs |-> <<NameOf[Default]>>]
  <2>1. freeVdefs' \in Nat
    BY <1>3 DEF TakeVdef, DInv
  <2>2. r \in VdefType /\ GoodVdef(r) /\ r.name = v
    BY <1>3, RsrcAssumption DEF VdefType, Sources, GoodVdef
  <2>3. vdefs \in Seq(VdefType) /\ Len(vdefs) \in Nat /\ DOMAIN vdefs = 1 .. Len(vdefs)
    BY DEF DInv, VdefType
  <2> HIDE DEF r
  <2>4. /\ vdefs' \in Seq(VdefType) /\ Len(vdefs') = Len(vdefs) + 1
        /\ DOMAIN vdefs' = 1 .. Len(vdefs) + 1
        /\ \A i \in 1 .. Len(vdefs) + 1 : vdefs'[i] = IF i = 1 THEN r ELSE vdefs[i - 1]
    BY <1>3, <2>2, <2>3 DEF r
  <2>5. \A i \in 1 .. Len(vdefs) : vdefs[i].name # v
    BY <1>3, <2>3 DEF Defined
  <2>6. \A i \in DOMAIN vdefs' : i # 1 => i - 1 \in DOMAIN vdefs
    BY <2>3, <2>4
  <2>7. \A i, j \in DOMAIN vdefs' : vdefs'[i].name = vdefs'[j].name => i = j
    <3>1. \A i, j \in DOMAIN vdefs : vdefs[i].name = vdefs[j].name => i = j
      BY DEF DInv
    <3>2. \A i \in DOMAIN vdefs' : i # 1 => vdefs'[i].name = vdefs[i - 1].name
      BY <2>4
    <3>3. \A i \in DOMAIN vdefs' : i # 1 => vdefs'[i].name # v
      BY <2>3, <2>5, <2>6, <3>2
    <3>4. vdefs'[1].name = v
      BY <2>2, <2>3, <2>4
    <3>5. \A i, j \in DOMAIN vdefs' :
            i # 1 /\ j # 1 /\ vdefs'[i].name = vdefs'[j].name => i - 1 = j - 1
      BY <2>6, <3>1, <3>2
    <3>6. \A i \in DOMAIN vdefs' : i \in Int
      BY <2>4
    <3> QED
      BY <3>3, <3>4, <3>5, <3>6
  <2>8. \A i \in DOMAIN vdefs' : GoodVdef(vdefs'[i])
    BY <2>2, <2>4, <2>6 DEF DInv
  <2>9. numVdefs' = Len(vdefs') /\ numVdefs' <= PICO_MAX_NUM_VOICE_DEFINITIONS
    BY <1>3, <2>3, <2>4, RsrcAssumption DEF DInv
  <2> QED
    BY <2>1, <2>4, <2>7, <2>8, <2>9 DEF DInv, VdefType
<1> QED
  BY <1>1, <1>2, <1>3 DEF CreateVoiceDefinition, Answer, vdefVars

LEMMA AddResourceKeeps ==
  ASSUME DInv, NEW v \in VoiceNames, NEW n \in Names \cup {LongName},
         AddResourceToVoiceDefinition(v, n)
  PROVE  DInv'
<1>1. CASE UNCHANGED vdefVars
  BY <1>1 DEF DInv, vdefVars
<1>2. CASE /\ Defined(v) /\ HasPlace(Vdef(v))
           /\ vdefs' = [vdefs EXCEPT ![Vdef(v)].rs = Append(@, Cut(n))]
           /\ UNCHANGED <<numVdefs, freeVdefs>>
  <2> DEFINE d == Vdef(v)
             l == vdefs[d].rs
  <2>1. vdefs \in Seq(VdefType) /\ d \in DOMAIN vdefs
    BY <1>2, VdefIndex DEF DInv, VdefType
  <2>2. Cut(n) \in Names
    BY RsrcAssumption DEF Cut
  <2>3. /\ vdefs[d] \in VdefType /\ l \in Seq(Names) /\ Len(l) \in Nat
        /\ GoodVdef(vdefs[d]) /\ Len(l) < PICO_MAX_NUM_RSRC_PER_VOICE
    <3>1. vdefs[d] \in VdefType
      BY <2>1
    <3>2. l \in Seq(Names) /\ Len(l) \in Nat
      BY <3>1 DEF VdefType
    <3>3. GoodVdef(vdefs[d])
      BY <2>1 DEF DInv
    <3> QED
      BY <1>2, <3>1, <3>2, <3>3 DEF HasPlace
  <2> HIDE DEF d
  <2>4. /\ vdefs' \in Seq(VdefType) /\ Len(vdefs') = Len(vdefs) /\ DOMAIN vdefs' = DOMAIN vdefs
        /\ \A i \in DOMAIN vdefs : i # d => vdefs'[i] = vdefs[i]
        /\ vdefs'[d].name = vdefs[d].name /\ vdefs'[d].rs = Append(l, Cut(n))
    <3> DEFINE r == [vdefs[d] EXCEPT !.rs = Append(l, Cut(n))]
    <3>1. vdefs' = [vdefs EXCEPT ![d] = r]
      BY <1>2 DEF d
    <3>2. Append(l, Cut(n)) \in Seq(Names)
      BY <2>2, <2>3
    <3>3. r \in VdefType /\ r.name = vdefs[d].name /\ r.rs = Append(l, Cut(n))
      BY <2>3, <3>2 DEF VdefType
    <3> HIDE DEF r
    <3> QED
      BY <2>1, <3>1, <3>3
  <2> HIDE DEF l
  <2>5. GoodVdef(vdefs'[d])
    <3>1. Len(l) >= 1 /\ l[1] = NameOf[Default]
      BY <2>3 DEF GoodVdef, l
    <3>2. Len(Append(l, Cut(n))) = Len(l) + 1 /\ Append(l, Cut(n))[1] = l[1]
      BY <2>2, <2>3, <3>1
    <3> QED
      BY <2>3, <2>4, <3>1, <3>2, RsrcAssumption DEF GoodVdef
  <2>6. \A i, j \in DOMAIN vdefs' : vdefs'[i].name = vdefs'[j].name => i = j
    BY <2>4 DEF DInv
  <2>7. \A i \in DOMAIN vdefs' : GoodVdef(vdefs'[i])
    BY <2>4, <2>5 DEF DInv
  <2> QED
    BY <1>2, <2>4, <2>6, <2>7 DEF DInv, VdefType
<1> QED
  BY <1>1, <1>2 DEF AddResourceToVoiceDefinition, Answer, vdefVars

LEMMA ReleaseVoiceDefinitionKeeps ==
  ASSUME DInv, NEW v \in VoiceNames, ReleaseVoiceDefinition(v)
  PROVE  DInv'
<1>1. CASE UNCHANGED vdefVars
  BY <1>1 DEF DInv, vdefVars
<1>2. CASE /\ Defined(v)
           /\ vdefs' = Without(Vdef(v))
           /\ freeVdefs' = freeVdefs + 1
           /\ numVdefs' = numVdefs - 1
  <2> DEFINE d == Vdef(v)
             At(i) == IF i < d THEN i ELSE i + 1
  <2>1. vdefs \in Seq(VdefType) /\ d \in 1 .. Len(vdefs) /\ Len(vdefs) \in Nat
        /\ DOMAIN vdefs = 1 .. Len(vdefs)
    BY <1>2, VdefIndex DEF DInv, VdefType
  <2> HIDE DEF d
  <2>2. /\ vdefs' \in Seq(VdefType) /\ Len(vdefs') = Len(vdefs) - 1
        /\ DOMAIN vdefs' = 1 .. Len(vdefs) - 1
        /\ \A i \in 1 .. Len(vdefs) - 1 : vdefs'[i] = vdefs[At(i)]
    <3>1. vdefs' = SubSeq(vdefs, 1, d - 1) \o SubSeq(vdefs, d + 1, Len(vdefs))
      BY <1>2 DEF Without, d
    <3>2. /\ SubSeq(vdefs, 1, d - 1) \in Seq(VdefType) /\ Len(SubSeq(vdefs, 1, d - 1)) = d - 1
          /\ \A i \in 1 .. d - 1 : SubSeq(vdefs, 1, d - 1)[i] = vdefs[i]
      BY <2>1
    <3>3. /\ SubSeq(vdefs, d + 1, Len(vdefs)) \in Seq(VdefType)
          /\ Len(SubSeq(vdefs, d + 1, Len(vdefs))) = Len(vdefs) - d
          /\ \A i \in 1 .. Len(vdefs) - d : SubSeq(vdefs, d + 1, Len(vdefs))[i] = vdefs[d + i]
      <4> DEFINE t == SubSeq(vdefs, d + 1, Len(vdefs))
      <4>1. d + 1 \in Int /\ Len(vdefs) \in Int /\ \A i \in d + 1 .. Len(vdefs) : vdefs[i] \in VdefType
        BY <2>1
      <4>2. /\ t \in Seq(VdefType)
            /\ Len(t) = IF d + 1 <= Len(vdefs) THEN Len(vdefs) - (d + 1) + 1 ELSE 0
            /\ \A i \in 1 .. Len(vdefs) - (d + 1) + 1 : t[i] = vdefs[d + 1 + i - 1]
        BY <4>1, SubSeqProperties
      <4> HIDE DEF t
      <4>3. Len(t) = Len(vdefs) - d
        <5>1. d \in Nat /\ Len(vdefs) \in Nat /\ d <= Len(vdefs)
          BY <2>1
        <5>2. CASE d < Len(vdefs)
          <6>1. d + 1 <= Len(vdefs) /\ Len(vdefs) - (d + 1) + 1 = Len(vdefs) - d
            BY <5>1, <5>2
          <6> QED
            BY <4>2, <6>1
        <5>3. CASE d = Len(vdefs)
          <6>1. ~ (d + 1 <= Len(vdefs)) /\ Len(vdefs) - d = 0
            BY <5>1, <5>3
          <6> QED
            BY <4>2, <6>1
        <5> QED
          BY <5>1, <5>2, <5>3
      <4>4. ASSUME NEW i \in 1 .. Len(vdefs) - d PROVE t[i] = vdefs[d + i]
        <5>1. i \in 1 .. Len(vdefs) - (d + 1) + 1 /\ d + 1 + i - 1 = d + i
          BY <2>1
        <5> QED
          BY <4>2, <5>1
      <4> QED
        BY <4>2, <4>3, <4>4 DEF t
    <3> DEFINE a == SubSeq(vdefs, 1, d - 1)
               b == SubSeq(vdefs, d + 1, Len(vdefs))
    <3> HIDE DEF a, b
    <3>4. vdefs' = a \o b /\ a \in Seq(VdefType) /\ b \in Seq(VdefType)
      BY <3>1, <3>2, <3>3 DEF a, b
    <3>5. Len(a) = d - 1 /\ Len(b) = Len(vdefs) - d
      BY <3>2, <3>3 DEF a, b
    <3>6. /\ \A i \in 1 .. d - 1 : a[i] = vdefs[i]
          /\ \A i \in 1 .. Len(vdefs) - d : b[i] = vdefs[d + i]
      BY <3>2, <3>3 DEF a, b
    <3>7. vdefs' \in Seq(VdefType) /\ Len(vdefs') = Len(vdefs) - 1
      <4>1. vdefs' \in Seq(VdefType) /\ Len(vdefs') = Len(a) + Len(b)
        BY <3>4, ConcatProperties
      <4> QED
        BY <2>1, <3>5, <4>1
    <3>8. ASSUME NEW i \in 1 .. Len(vdefs) - 1 PROVE vdefs'[i] = vdefs[At(i)]
      <4>1. CASE i < d
        BY <2>1, <3>4, <3>5, <3>6, <4>1
      <4>2. CASE ~ (i < d)
        <5>1. i - (d - 1) \in 1 .. Len(vdefs) - d /\ d + (i - (d - 1)) = i + 1
          BY <2>1, <4>2
        <5>2. vdefs'[i] = b[i - (d - 1)]
          BY <2>1, <3>4, <3>5, <4>2
        <5> QED
          BY <3>6, <4>2, <5>1, <5>2
      <4> QED
        BY <4>1, <4>2
    <3> QED
      BY <2>1, <3>7, <3>8
  <2>3. \A i \in 1 .. Len(vdefs) - 1 : At(i) \in DOMAIN vdefs
    BY <2>1
  <2>4. \A i, j \in 1 .. Len(vdefs) - 1 : At(i) = At(j) => i = j
    BY <2>1
  <2> HIDE DEF At
  <2>5. \A i, j \in DOMAIN vdefs' : vdefs'[i].name = vdefs'[j].name => i = j
    <3>1. \A i, j \in DOMAIN vdefs : vdefs[i].name = vdefs[j].name => i = j
      BY DEF DInv
    <3> QED
      BY <2>2, <2>3, <2>4, <3>1
  <2>6. \A i \in DOMAIN vdefs' : GoodVdef(vdefs'[i])
    BY <2>2, <2>3 DEF DInv
  <2>7. numVdefs' = Len(vdefs') /\ numVdefs' <= PICO_MAX_NUM_VOICE_DEFINITIONS
    BY <1>2, <2>1, <2>2, RsrcAssumption DEF DInv
  <2> QED
    BY <1>2, <2>2, <2>5, <2>6, <2>7 DEF DInv, VdefType
<1> QED
  BY <1>1, <1>2 DEF ReleaseVoiceDefinition, Answer, vdefVars

-----------------------------------------------------------------------------
(* The voices. *)

\* Resources come, and go when they are not locked, without harm to the voice.
LEMMA VoiceUnaffected ==
  ASSUME RInv, VInv, UNCHANGED voiceVars,
         \A h \in Loaded \cap Loaded' : rsrc'[h] = rsrc[h],
         \A h \in Loaded' \ Loaded : rsrc'[h].lockCount = 0,
         \A h \in Loaded \ Loaded' : rsrc[h].lockCount <= 0
  PROVE  VInv'
<1>1. CASE engine = NULL
  <2>1. \A h \in Loaded' : rsrc'[h].lockCount = 0
    BY <1>1 DEF VInv, LockCounts
  <2> QED
    BY <1>1, <2>1 DEF VInv, LockCounts, voiceVars
<1>2. CASE engine # NULL
  <2>1. PICK v : v = engine
    OBVIOUS
  <2>2. GoodVoice(v) /\ v \in Voice /\ engine' = v /\ v # NULL
    BY <1>2, <2>1 DEF VInv, GoodVoice, voiceVars
  <2>3. \A h \in Loaded : rsrc[h].lockCount = Uses(v, h)
    BY <1>2, <2>1 DEF VInv, LockCounts
  <2>4. \A i \in DOMAIN v.rs : v.rs[i] \in Loaded /\ v.rs[i] \in Loaded'
    <3> SUFFICES ASSUME NEW i \in DOMAIN v.rs PROVE v.rs[i] \in Loaded /\ v.rs[i] \in Loaded'
      OBVIOUS
    <3>1. v.rs[i] \in Loaded
      BY <2>2 DEF GoodVoice
    <3>2. Uses(v, v.rs[i]) \in Nat /\ Uses(v, v.rs[i]) # 0
      BY <2>2, UsesType
    <3>3. ~ (rsrc[v.rs[i]].lockCount <= 0)
      BY <2>3, <3>1, <3>2
    <3> QED
      BY <3>1, <3>3
  <2>5. GoodVoice(v)'
    BY <2>2, <2>4, GoodVoiceKept DEF Loaded
  <2>6. ASSUME NEW h \in Loaded' PROVE rsrc'[h].lockCount = Uses(v, h)
    <3>1. CASE h \in Loaded
      BY <2>3, <3>1
    <3>2. CASE h \notin Loaded
      <4>1. Uses(v, h) = 0
        BY <2>2, <2>4, <3>2, UsesType
      <4> QED
        BY <3>2, <4>1
    <3> QED
      BY <3>1, <3>2
  <2>7. (engine # NULL => GoodVoice(engine))'
    BY <2>2, <2>5
  <2>8. LockCounts'
    BY <2>2, <2>6 DEF LockCounts, Uses
  <2> QED
    BY <2>7, <2>8 DEF VInv, voiceVars
<1> QED
  BY <1>1, <1>2

LEMMA NewEngineKeeps ==
  ASSUME RInv, DInv, VInv, NEW v \in VoiceNames, NewEngine(v)
  PROVE  RInv' /\ VInv'
<1> DEFINE ns == vdefs[Vdef(v)].rs
<1>1. /\ Defined(v) /\ numVoices < PICORSRC_MAX_NUM_VOICES
      /\ \A i \in DOMAIN ns : IsLoaded(ns[i])
  <2>1. numVoices \in Int /\ CreateVoiceStatus(v) = "OK"
    BY DEF VInv, NewEngine
  <2>2. numVoices < PICORSRC_MAX_NUM_VOICES
    BY <2>1, RsrcAssumption DEF CreateVoiceStatus
  <2>3. Defined(v)
    BY <2>1, <2>2, RsrcAssumption DEF CreateVoiceStatus
  <2> QED
    BY <2>1, <2>2, <2>3, RsrcAssumption DEF CreateVoiceStatus
<1>2. /\ ns \in Seq(Names) /\ Len(ns) >= 1 /\ Len(ns) <= PICO_MAX_NUM_RSRC_PER_VOICE
      /\ ns[1] = NameOf[Default]
  <2>1. Vdef(v) \in DOMAIN vdefs
    BY <1>1, VdefIndex
  <2>2. vdefs[Vdef(v)] \in VdefType
    <3>1. vdefs \in Seq(VdefType)
      BY DEF DInv, VdefType
    <3> QED
      BY <2>1, <3>1
  <2> QED
    BY <2>1, <2>2 DEF DInv, GoodVdef, VdefType
<1> HIDE DEF ns
<1>3. PICK m : m = MadeVoice(ns)
  OBVIOUS
<1>4. GoodVoice(m) /\ m \in Voice /\ m # NULL
  BY <1>1, <1>2, <1>3, MadeVoiceIsGood, RsrcAssumption DEF GoodVoice
<1>5. engine = NULL /\ engine' = m /\ rsrc' = Locked(m)
  BY <1>3 DEF NewEngine, ns, Locked, Uses
<1>6. /\ Loaded' = Loaded
      /\ \A h \in Loaded : rsrc'[h] = [rsrc[h] EXCEPT !.lockCount = @ + Uses(m, h)]
  BY <1>5 DEF Locked, Loaded
<1>7. \A h \in Loaded : rsrc[h].lockCount = 0
  BY <1>5 DEF VInv, LockCounts
<1>8. \A h \in Loaded : Uses(m, h) \in Nat
  BY <1>4, UsesType
<1>9. ASSUME NEW h \in Loaded
      PROVE  /\ rsrc'[h] \in [file : Sources, lockCount : Int]
             /\ rsrc'[h].file = rsrc[h].file /\ rsrc'[h].lockCount = Uses(m, h)
  <2>1. rsrc[h] \in [file : Sources, lockCount : Int]
    BY DEF RInv
  <2>2. rsrc[h].lockCount + Uses(m, h) = Uses(m, h)
    BY <1>7, <1>8
  <2>3. rsrc'[h] = [rsrc[h] EXCEPT !.lockCount = Uses(m, h)]
    BY <1>6, <2>2
  <2> QED
    BY <1>8, <2>1, <2>3
<1>10. rsrc' \in [Loaded -> [file : Sources, lockCount : Int]]
  <2>1. rsrc' = [h \in Loaded |-> rsrc'[h]]
    BY <1>5 DEF Locked
  <2> QED
    BY <1>9, <2>1
<1>11. RInv'
  BY <1>6, <1>9, <1>10, LocksKeep DEF NewEngine
<1>12. GoodVoice(m)'
  <2>1. \A i \in DOMAIN m.rs : m.rs[i] \in Loaded
    BY <1>4 DEF GoodVoice
  <2> QED
    BY <1>4, <1>6, <1>9, <2>1, GoodVoiceKept DEF Loaded
<1>13. freeVoices' \in Seq(Voice)
  BY DEF NewEngine, VoicesLeft, VInv
<1>14. numVoices' = 1
  BY <1>5 DEF NewEngine, VInv
<1>15. \A h \in Loaded' : rsrc'[h].lockCount = Uses(m, h)
  BY <1>6, <1>9
<1> QED
  BY <1>4, <1>5, <1>11, <1>12, <1>13, <1>14, <1>15 DEF VInv, LockCounts, Uses

LEMMA DisposeEngineKeeps ==
  ASSUME RInv, VInv, DisposeEngine
  PROVE  RInv' /\ VInv'
<1>1. PICK v : v = engine
  OBVIOUS
<1>2. v \in Voice /\ v # NULL
  BY <1>1 DEF VInv, DisposeEngine, GoodVoice
<1>3. rsrc' = Unlocked(v) /\ engine' = NULL /\ freeVoices' = <<v>> \o freeVoices
  BY <1>1 DEF DisposeEngine
<1>4. /\ Loaded' = Loaded
      /\ \A h \in Loaded : rsrc'[h] = [rsrc[h] EXCEPT !.lockCount = @ - Uses(v, h)]
  BY <1>3 DEF Unlocked, Loaded
<1>5. \A h \in Loaded : rsrc[h].lockCount = Uses(v, h)
  BY <1>1, <1>2 DEF VInv, LockCounts
<1>6. ASSUME NEW h \in Loaded
      PROVE  /\ rsrc'[h] \in [file : Sources, lockCount : Int]
             /\ rsrc'[h].file = rsrc[h].file /\ rsrc'[h].lockCount = 0
  <2>1. rsrc[h] \in [file : Sources, lockCount : Int] /\ Uses(v, h) \in Nat
    BY <1>2, UsesType DEF RInv
  <2>2. rsrc[h].lockCount - Uses(v, h) = 0
    BY <1>5, <2>1
  <2>3. rsrc'[h] = [rsrc[h] EXCEPT !.lockCount = 0]
    BY <1>4, <2>2
  <2> QED
    BY <2>1, <2>3
<1>7. rsrc' \in [Loaded -> [file : Sources, lockCount : Int]]
  <2>1. rsrc' = [h \in Loaded |-> rsrc'[h]]
    BY <1>3 DEF Unlocked
  <2> QED
    BY <1>6, <2>1
<1>8. RInv'
  BY <1>4, <1>6, <1>7, LocksKeep DEF DisposeEngine
<1>9. freeVoices' \in Seq(Voice)
  BY <1>2, <1>3 DEF VInv
<1>10. numVoices' = 0
  BY <1>1, <1>2 DEF DisposeEngine, VInv
<1> QED
  BY <1>3, <1>4, <1>6, <1>8, <1>9, <1>10 DEF VInv, LockCounts

-----------------------------------------------------------------------------
(* The steps of the system. *)

LEMMA RInvUnchanged == RInv /\ UNCHANGED <<rsrcVars, openFiles>> => RInv'
BY DEF RInv, rsrcVars, Loaded, FilesLoaded, Name

LEMMA DInvUnchanged == DInv /\ UNCHANGED vdefVars => DInv'
BY DEF DInv, vdefVars

LEMMA VInvUnchanged == RInv /\ VInv /\ UNCHANGED <<rsrc, voiceVars>> => VInv'
BY VoiceUnaffected DEF Loaded

LEMMA AnswerKeeps ==
  ASSUME IInv, NEW s \in Statuses, Answer(s)
  PROVE  IInv'
BY RInvUnchanged, DInvUnchanged, VInvUnchanged DEF IInv, Answer, rsrcVars, vdefVars, voiceVars, Loaded

LEMMA InitInvariant == Init => IInv
<1> SUFFICES ASSUME Init PROVE IInv
  OBVIOUS
<1>1. Loaded = {} /\ FilesLoaded = {}
  BY DEF Init, Loaded, FilesLoaded
<1>2. rsrc \in [Loaded -> [file : Sources, lockCount : Int]]
  BY <1>1 DEF Init, Loaded
<1>3. RInv
  BY <1>1, <1>2, FS_EmptySet, RsrcAssumption DEF Init, RInv
<1>4. DInv
  BY RsrcAssumption DEF Init, DInv
<1>5. VInv
  BY <1>1 DEF Init, VInv, LockCounts
<1>6. up = FALSE /\ vdefs = <<>> /\ engine = NULL /\ status \in Statuses
  BY DEF Init, Statuses
<1>7. used \in Int /\ used <= Memory
  BY RsrcAssumption DEF Init
<1> QED
  BY <1>1, <1>3, <1>4, <1>5, <1>6, <1>7, Zenon DEF IInv

LEMMA UnitsAreNat == \A f \in Sources : Cardinality(KbsOf[f]) \in Nat
<1> SUFFICES ASSUME NEW f \in Sources PROVE Cardinality(KbsOf[f]) \in Nat
  OBVIOUS
<1>1. KbsOf[f] \in SUBSET KbIds
  BY RsrcAssumption
<1> QED
  BY <1>1, FS_Subset, FS_CardinalityType, RsrcAssumption

LEMMA LoadKeeps == IInv /\ Load => IInv'
<1> SUFFICES ASSUME IInv, Load PROVE IInv'
  OBVIOUS
<1>1. CASE LoadRefused
  BY <1>1, AnswerKeeps DEF LoadRefused, Statuses
<1>2. ASSUME Opens, UNCHANGED <<up, rsrcVars, vdefVars, voiceVars>>,
             status' \in Statuses, used' \in Int, used' <= Memory
      PROVE  IInv'
  BY <1>2, OpensKeeps, DInvUnchanged, VInvUnchanged
     DEF IInv, rsrcVars, vdefVars, voiceVars, Loaded
<1>3. CASE LoadBroken
  BY <1>2, <1>3 DEF LoadBroken, Statuses, IInv
<1>4. ASSUME NEW f \in Files, LoadTwice(f) PROVE IInv'
  BY <1>2, <1>4 DEF LoadTwice, Statuses, IInv
<1>5. ASSUME NEW f \in Files, NEW n \in 0 .. Cardinality(KbsOf[f]), LoadKbsFail(f, n) PROVE IInv'
  <2>1. n \in Nat
    BY UnitsAreNat DEF Sources
  <2>2. used' \in Int /\ used' <= Memory
    BY <1>5, <2>1, RsrcAssumption DEF LoadKbsFail, Fits, IInv
  <2> QED
    BY <1>2, <1>5, <2>2 DEF LoadKbsFail, Statuses
<1>6. ASSUME NEW f \in Files, NEW h \in Handles, LoadDone(h, f) PROVE IInv'
  <2>1. f \in Sources /\ f # Default /\ Cardinality(KbsOf[f]) \in Nat
    BY UnitsAreNat, RsrcAssumption DEF Sources
  <2>2. h \in Handles \ Loaded /\ Added(h, f) /\ ~IsLoaded(NameOf[f]) /\ Opens
    BY <1>6 DEF LoadDone
  <2>3. openFiles' = openFiles + 1 /\ openFiles' \in 0 .. MaxFiles
    BY <2>2, RsrcAssumption DEF Opens, IInv, RInv
  <2>4. /\ RInv' /\ Loaded' = Loaded \cup {h} /\ rsrc'[h].lockCount = 0
        /\ \A x \in Loaded : rsrc'[x] = rsrc[x]
    BY <2>1, <2>2, <2>3, AddedKeeps DEF Opens, IInv
  <2>5. VInv'
    BY <1>6, <2>4, VoiceUnaffected DEF LoadDone, IInv
  <2>6. DInv'
    BY <1>6, DInvUnchanged DEF LoadDone, IInv
  <2>7. used' \in Int /\ used' <= Memory
    BY <1>6, <2>1, <2>2, RsrcAssumption DEF LoadDone, Fits, Added, IInv
  <2>8. up /\ up' = up /\ status' \in Statuses
    BY <1>6 DEF LoadDone, Opens, Statuses
  <2> QED
    BY <2>4, <2>5, <2>6, <2>7, <2>8 DEF IInv
<1> QED
  BY <1>1, <1>3, <1>4, <1>5, <1>6 DEF Load

LEMMA UnloadKeeps ==
  ASSUME IInv, NEW h \in Handles, UnloadResource(h)
  PROVE  IInv'
<1>1. CASE Answer("BUSY")
  BY <1>1, AnswerKeeps DEF Statuses
<1>2. CASE ~ Answer("BUSY")
  <2>1. /\ up /\ h \in Loaded /\ rsrc[h].file # Default /\ rsrc[h].lockCount <= 0
        /\ rsrc' = [x \in Loaded \ {h} |-> rsrc[x]]
        /\ numResources' = numResources - 1 /\ openFiles' = openFiles - 1
        /\ used' = used - 1 - Cardinality(Kbs(h))
        /\ status' = "OK" /\ UNCHANGED <<up, vdefVars, voiceVars>>
    BY <1>2 DEF UnloadResource, MayUnload, Remaining
  <2>2. RInv' /\ Loaded' = Loaded \ {h} /\ \A x \in Loaded' : rsrc'[x] = rsrc[x]
    BY <2>1, RemovedKeeps DEF IInv
  <2>3. VInv'
    BY <2>1, <2>2, VoiceUnaffected DEF IInv
  <2>4. DInv'
    BY <2>1, DInvUnchanged DEF IInv
  <2>5. Cardinality(Kbs(h)) \in Nat
    BY <2>1, UnitsAreNat DEF Kbs, IInv, RInv
  <2>6. used' \in Int /\ used' <= Memory
    BY <2>1, <2>5, RsrcAssumption DEF IInv
  <2> QED
    BY <2>1, <2>2, <2>3, <2>4, <2>6 DEF IInv, Statuses
<1> QED
  BY <1>1, <1>2

LEMMA DefinitionsKeep == IInv /\ Definitions => IInv'
<1> SUFFICES ASSUME IInv, Definitions PROVE IInv'
  OBVIOUS
<1>1. ASSUME NEW s \in Statuses, Answer(s) PROVE IInv'
  BY <1>1, AnswerKeeps
<1>2. ASSUME up, DInv', UNCHANGED <<up, rsrcVars, voiceVars, openFiles>>,
             status' \in Statuses, used' \in Int, used' <= Memory
      PROVE  IInv'
  BY <1>2, RInvUnchanged, VInvUnchanged DEF IInv, rsrcVars
<1>3. ASSUME NEW v \in VoiceNames \cup {LongVoice}, CreateVoiceDefinition(v) PROVE IInv'
  <2>1. DInv'
    BY <1>3, CreateVoiceDefinitionKeeps DEF IInv
  <2>2. CASE \E s \in {"CONFLICT", "MAX", "NOMEM"} : Answer(s)
    BY <1>1, <2>2 DEF Statuses
  <2>3. CASE ~ \E s \in {"CONFLICT", "MAX", "NOMEM"} : Answer(s)
    <3>1. /\ up /\ (freeVdefs > 0 \/ Fits(1)) /\ TakeVdef
          /\ status' \in {"ILLEGAL", "OK"} /\ UNCHANGED <<up, rsrcVars, voiceVars, openFiles>>
      BY <1>3, <2>3 DEF CreateVoiceDefinition
    <3>2. used' \in Int /\ used' <= Memory
      BY <3>1, RsrcAssumption DEF TakeVdef, Fits, IInv
    <3> QED
      BY <1>2, <2>1, <3>1, <3>2 DEF Statuses
  <2> QED
    BY <2>2, <2>3
<1>4. ASSUME NEW v \in VoiceNames, NEW n \in Names \cup {LongName},
             AddResourceToVoiceDefinition(v, n)
      PROVE  IInv'
  <2>1. DInv'
    BY <1>4, AddResourceKeeps DEF IInv
  <2>2. CASE \E s \in {"UNDEFINED", "MAX"} : Answer(s)
    BY <1>1, <2>2 DEF Statuses
  <2>3. CASE ~ \E s \in {"UNDEFINED", "MAX"} : Answer(s)
    <3>1. /\ up /\ status' \in {"ILLEGAL", "OK"} /\ used' = used
          /\ UNCHANGED <<up, rsrcVars, voiceVars, openFiles>>
      BY <1>4, <2>3 DEF AddResourceToVoiceDefinition
    <3> QED
      BY <1>2, <2>1, <3>1 DEF Statuses, IInv
  <2> QED
    BY <2>2, <2>3
<1>5. ASSUME NEW v \in VoiceNames, ReleaseVoiceDefinition(v) PROVE IInv'
  <2>1. DInv'
    BY <1>5, ReleaseVoiceDefinitionKeeps DEF IInv
  <2>2. CASE Answer("OK")
    BY <1>1, <2>2 DEF Statuses
  <2>3. CASE ~ Answer("OK")
    <3>1. up /\ status' = "OK" /\ used' = used /\ UNCHANGED <<up, rsrcVars, voiceVars, openFiles>>
      BY <1>5, <2>3 DEF ReleaseVoiceDefinition
    <3> QED
      BY <1>2, <2>1, <3>1 DEF Statuses, IInv
  <2> QED
    BY <2>2, <2>3
<1> QED
  BY <1>3, <1>4, <1>5 DEF Definitions

LEMMA EngineKeeps ==
  ASSUME IInv, NEW v \in VoiceNames, NewEngineRefused(v) \/ NewEngineFails(v) \/ NewEngine(v)
  PROVE  IInv'
<1>1. CASE NewEngineRefused(v)
  <2>1. numVoices \in Int
    BY DEF IInv, VInv
  <2>2. CreateVoiceStatus(v) \in Statuses
    BY <2>1, RsrcAssumption DEF CreateVoiceStatus, Statuses
  <2>3. PICK s : s = CreateVoiceStatus(v)
    OBVIOUS
  <2>4. CASE Answer(s)
    BY <2>2, <2>3, <2>4, AnswerKeeps
  <2>5. CASE Answer("MAX") \/ Answer("NOMEM")
    BY <2>5, AnswerKeeps DEF Statuses
  <2> QED
    BY <1>1, <2>3, <2>4, <2>5 DEF NewEngineRefused
<1> DEFINE ns == vdefs[Vdef(v)].rs
<1>2. VoiceUnits \in Nat
  BY DEF VoiceUnits
<1>3. CreateVoiceStatus(v) = "OK" => Fits(1 + VoiceUnits)
  <2>1. numVoices \in Int
    BY DEF IInv, VInv
  <2> QED
    BY <2>1, RsrcAssumption DEF CreateVoiceStatus
<1>4. CASE NewEngineFails(v)
  <2>1. RInv' /\ DInv'
    BY <1>4, RInvUnchanged, DInvUnchanged DEF NewEngineFails, ReleaseAfterFailure, IInv, rsrcVars
  <2>2. PICK m : m = MadeVoice(ns)
    OBVIOUS
  <2>3. m \in Voice
    <3>1. /\ Defined(v) /\ \A i \in DOMAIN ns : IsLoaded(ns[i])
      <4>1. numVoices \in Int /\ CreateVoiceStatus(v) = "OK"
        BY <1>4 DEF IInv, VInv, NewEngineFails
      <4> QED
        BY <4>1, RsrcAssumption DEF CreateVoiceStatus
    <3>2. vdefs \in Seq(VdefType) /\ Vdef(v) \in DOMAIN vdefs
      BY <3>1, VdefIndex DEF IInv, DInv, VdefType
    <3>3. vdefs[Vdef(v)] \in VdefType /\ GoodVdef(vdefs[Vdef(v)])
      BY <3>2 DEF IInv, DInv
    <3>4. ns \in Seq(Names) /\ Len(ns) >= 1 /\ Len(ns) <= PICO_MAX_NUM_RSRC_PER_VOICE
          /\ ns[1] = NameOf[Default]
      BY <3>3 DEF GoodVdef, VdefType
    <3> HIDE DEF ns
    <3>5. GoodVoice(m)
      BY <2>2, <3>1, <3>4, MadeVoiceIsGood DEF IInv
    <3> QED
      BY <3>5 DEF GoodVoice
  <2>4. freeVoices' = <<m>> \o VoicesLeft
    BY <1>4, <2>2 DEF NewEngineFails, ReleaseAfterFailure
  <2>5. freeVoices' \in Seq(Voice)
    BY <2>3, <2>4 DEF VoicesLeft, IInv, VInv
  <2>6. rsrc' = rsrc /\ UNCHANGED <<engine, numVoices, up>> /\ up
    BY <1>4 DEF NewEngineFails, ReleaseAfterFailure
  <2>7. VInv'
    BY <1>4, <2>5, <2>6 DEF VInv, LockCounts, IInv, Loaded, NewEngineFails
  <2>8. used' \in Int /\ used' <= Memory
    BY <1>2, <1>3, <1>4, RsrcAssumption DEF NewEngineFails, ReleaseAfterFailure, Fits, IInv
  <2>9. status' \in Statuses
    BY <1>4 DEF NewEngineFails, Statuses
  <2> QED
    BY <2>1, <2>6, <2>7, <2>8, <2>9 DEF IInv
<1>5. CASE NewEngine(v)
  <2>1. RInv' /\ VInv'
    BY <1>5, NewEngineKeeps DEF IInv
  <2>2. DInv'
    BY <1>5, DInvUnchanged DEF NewEngine, IInv
  <2>3. used' \in Int /\ used' <= Memory
    BY <1>2, <1>3, <1>5, RsrcAssumption DEF NewEngine, Fits, IInv
  <2> QED
    BY <1>5, <2>1, <2>2, <2>3 DEF NewEngine, IInv, Statuses
<1> QED
  BY <1>1, <1>4, <1>5

LEMMA NextInvariant == IInv /\ [Next]_vars => IInv'
<1> SUFFICES ASSUME IInv, [Next]_vars PROVE IInv'
  OBVIOUS
<1>1. ASSUME NEW h \in Handles, Initialize(h) PROVE IInv'
  <2>1. Loaded = {} /\ Default \in Sources /\ Cardinality(KbsOf[Default]) \in Nat
    BY <1>1, UnitsAreNat DEF Initialize, IInv, Sources
  <2>2. numResources < PICO_MAX_NUM_RESOURCES
    BY <2>1, FS_EmptySet, RsrcAssumption DEF IInv, RInv
  <2>3. h \in Handles \ Loaded /\ Added(h, Default) /\ ~IsLoaded(NameOf[Default])
    BY <1>1, <2>1 DEF Initialize, IsLoaded
  <2>4. openFiles' = openFiles /\ openFiles' \in 0 .. MaxFiles
    BY <1>1 DEF Initialize, IInv, RInv
  <2>5. /\ RInv' /\ Loaded' = Loaded \cup {h} /\ rsrc'[h].lockCount = 0
        /\ \A x \in Loaded : rsrc'[x] = rsrc[x]
    BY <2>1, <2>2, <2>3, <2>4, AddedKeeps DEF IInv
  <2>6. VInv'
    BY <1>1, <2>5, VoiceUnaffected DEF Initialize, IInv
  <2>7. DInv'
    BY <1>1, DInvUnchanged DEF Initialize, IInv
  <2>8. used' \in Int /\ used' <= Memory
    BY <1>1, <2>1, <2>3, RsrcAssumption DEF Initialize, Fits, Added, IInv
  <2> QED
    BY <1>1, <2>5, <2>6, <2>7, <2>8 DEF Initialize, IInv, Statuses
<1>2. CASE Terminate
  <2>1. Loaded' = {} /\ FilesLoaded' = {} /\ rsrc' \in [Loaded' -> [file : Sources, lockCount : Int]]
    BY <1>2 DEF Terminate, Loaded, FilesLoaded
  <2>2. RInv'
    BY <1>2, <2>1, FS_EmptySet, RsrcAssumption DEF Terminate, RInv, IInv
  <2>3. DInv'
    BY <1>2, RsrcAssumption DEF Terminate, DInv
  <2>4. VInv'
    BY <1>2, <2>1 DEF Terminate, VInv, LockCounts
  <2>5. up' = FALSE /\ vdefs' = <<>> /\ engine' = NULL /\ status' \in Statuses
    BY <1>2 DEF Terminate, Statuses
  <2>6. used' \in Int /\ used' <= Memory
    BY <1>2, RsrcAssumption DEF Terminate
  <2> QED
    BY <2>1, <2>2, <2>3, <2>4, <2>5, <2>6, Zenon DEF IInv
<1>3. CASE Load
  BY <1>3, LoadKeeps
<1>4. ASSUME NEW h \in Handles, UnloadResource(h) PROVE IInv'
  BY <1>4, UnloadKeeps
<1>5. CASE Definitions
  BY <1>5, DefinitionsKeep
<1>6. ASSUME NEW v \in VoiceNames, NewEngineRefused(v) \/ NewEngineFails(v) \/ NewEngine(v)
      PROVE  IInv'
  BY <1>6, EngineKeeps
<1>7. CASE DisposeEngine
  <2>1. RInv' /\ VInv'
    BY <1>7, DisposeEngineKeeps DEF IInv
  <2>2. DInv'
    BY <1>7, DInvUnchanged DEF DisposeEngine, IInv
  <2> QED
    BY <1>7, <2>1, <2>2, RsrcAssumption DEF DisposeEngine, IInv, Statuses
<1>8. CASE UNCHANGED vars
  <2>1. RInv' /\ DInv' /\ VInv'
    BY <1>8, RInvUnchanged, DInvUnchanged, VInvUnchanged
       DEF IInv, vars, rsrcVars, vdefVars, voiceVars
  <2> QED
    BY <1>8, <2>1 DEF IInv, vars, rsrcVars, vdefVars, voiceVars, Loaded
<1> QED
  BY <1>1, <1>2, <1>3, <1>4, <1>5, <1>6, <1>7, <1>8 DEF Next

-----------------------------------------------------------------------------
(* Theorems. *)

\* IInv holds in every state of the system.
THEOREM Invariant == Spec => []IInv
BY InitInvariant, NextInvariant, PTL DEF Spec

\* Every variable has its type: the counters stay within the limits of picorsrc.h, and the
\* memory in use within the block that the application gave.
THEOREM TypeCorrect == Spec => []TypeOK
<1>1. IInv => TypeOK
  <2> SUFFICES ASSUME IInv PROVE TypeOK
    OBVIOUS
  <2>1. numResources \in 0 .. PICO_MAX_NUM_RESOURCES
    BY FS_CardinalityType, RsrcAssumption DEF IInv, RInv
  <2>2. numVdefs \in 0 .. PICO_MAX_NUM_VOICE_DEFINITIONS
    BY RsrcAssumption DEF IInv, DInv
  <2>3. numVoices \in 0 .. PICORSRC_MAX_NUM_VOICES
    BY RsrcAssumption DEF IInv, VInv
  <2>4. engine \in Voice \cup {NULL}
    BY DEF IInv, VInv, GoodVoice
  <2> QED
    BY <2>1, <2>2, <2>3, <2>4 DEF TypeOK, IInv, RInv, DInv, VInv, Loaded
<1> QED
  BY <1>1, Invariant, PTL

\* The counters of the resource manager are the lengths of its lists, whatever calls came before.
THEOREM CountersMatch == Spec => []CountsMatch
<1>1. IInv => CountsMatch
  BY DEF IInv, RInv, DInv, VInv, CountsMatch
<1> QED
  BY <1>1, Invariant, PTL

\* The lock count of every resource is the number of its uses by the engine's voice.
THEOREM LocksCount == Spec => []LockCounts
<1>1. IInv => LockCounts
  BY DEF IInv, VInv
<1> QED
  BY <1>1, Invariant, PTL

\* A lock count stays within its eight bits: it never wraps, and never falls below zero.
THEOREM LocksFit == Spec => [](\A h \in Loaded : rsrc[h].lockCount \in 0 .. 127)
<1>1. IInv => \A h \in Loaded : rsrc[h].lockCount \in 0 .. 127
  <2> SUFFICES ASSUME IInv, NEW h \in Loaded PROVE rsrc[h].lockCount \in 0 .. 127
    OBVIOUS
  <2>1. CASE engine = NULL
    BY <2>1 DEF IInv, VInv, LockCounts
  <2>2. CASE engine # NULL
    <3> DEFINE S == {i \in DOMAIN engine.rs : engine.rs[i] = h}
    <3>1. engine \in Voice /\ Len(engine.rs) <= 127
      BY <2>2, RsrcAssumption DEF IInv, VInv, GoodVoice, Voice
    <3>2. Len(engine.rs) \in Nat /\ DOMAIN engine.rs = 1 .. Len(engine.rs)
      BY <3>1 DEF Voice
    <3>3. IsFiniteSet(1 .. Len(engine.rs)) /\ Cardinality(1 .. Len(engine.rs)) = Len(engine.rs)
      BY <3>2, IntervalSize, Zenon
    <3>4. S \subseteq 1 .. Len(engine.rs)
      BY <3>2
    <3> HIDE DEF S
    <3>5. Cardinality(S) <= Len(engine.rs) /\ IsFiniteSet(S)
      BY <3>3, <3>4, FS_Subset
    <3>6. Cardinality(S) \in Nat
      BY <3>5, FS_CardinalityType
    <3>7. rsrc[h].lockCount = Cardinality(S)
      BY <2>2 DEF IInv, VInv, LockCounts, Uses, S
    <3>8. ASSUME NEW c \in Nat, NEW n \in Nat, c <= n, n <= 127 PROVE c \in 0 .. 127
      BY <3>8
    <3>9. Cardinality(S) \in 0 .. 127
      BY <3>1, <3>2, <3>5, <3>6, <3>8, Zenon
    <3> QED
      BY <3>7, <3>9
  <2> QED
    BY <2>1, <2>2
<1> QED
  BY <1>1, Invariant, PTL

\* As long as there is an engine, its voice points at loaded resources only, and within its array.
THEOREM VoiceStaysLoaded == Spec => []VoiceLoaded
<1>1. IInv => VoiceLoaded
  BY DEF IInv, VInv, GoodVoice, VoiceLoaded
<1> QED
  BY <1>1, Invariant, PTL

\* The engine's voice has a knowledge base exactly where its resources bring one, also in a
\* voice that is used again, and lists the default resource.
THEOREM VoiceIsComplete == Spec => []VoiceComplete
<1>1. IInv => VoiceComplete
  BY DEF IInv, VInv, GoodVoice, VoiceComplete
<1> QED
  BY <1>1, Invariant, PTL

\* No two loaded resources, and no two voice definitions, have the same name.
THEOREM NamesAreUnique == Spec => []NamesUnique
<1>1. IInv => NamesUnique
  BY DEF IInv, RInv, DInv, NamesUnique
<1> QED
  BY <1>1, Invariant, PTL

\* The lists of picorsrc.c have the lengths that are counted and no name twice.
THEOREM ListsAreSound == Spec => []ListsSound
<1>1. CountsMatch /\ NamesUnique => ListsSound
  BY DEF ListsSound
<1> QED
  BY <1>1, CountersMatch, NamesAreUnique, PTL

\* The voice of the engine is loaded, locked and complete, after every history of calls.
THEOREM VoiceIsSound == Spec => []VoiceSound
<1>1. LockCounts /\ VoiceLoaded /\ VoiceComplete => VoiceSound
  BY DEF VoiceSound
<1> QED
  BY <1>1, LocksCount, VoiceStaysLoaded, VoiceIsComplete, PTL

-----------------------------------------------------------------------------
(* The memory of the resources. *)

Weights(r) == [h \in DOMAIN r |-> 1 + Cardinality(KbsOf[r[h].file])]

GoodRsrc(r) == IsFiniteSet(DOMAIN r) /\ \A h \in DOMAIN r : r[h].file \in Sources

LEMMA UnitsSum ==
  ASSUME NEW r, GoodRsrc(r)
  PROVE  \E f : IsSum(f, Weights(r), DOMAIN r) /\ UnitsOf(r) = f[DOMAIN r]
<1> DEFINE U == DOMAIN r
           w == Weights(r)
           f == CHOOSE g : IsSum(g, w, U)
<1>1. IsFiniteSet(U) /\ \A x \in U : w[x] \in Int
  BY UnitsAreNat DEF GoodRsrc, Weights
<1>2. \E g : IsSum(g, w, U)
  <2> HIDE DEF U, w
  <2> QED BY <1>1, SumExists
<1>3. IsSum(f, w, U)
  <2> HIDE DEF w, U
  <2> QED BY <1>2
<1> DEFINE it(g) == g = [s \in SUBSET U |->
                IF s = {} THEN 0
                ELSE LET x == CHOOSE x \in s : TRUE
                     IN  (1 + Cardinality(KbsOf[r[x].file])) + g[s \ {x}]]
<1>4. UnitsOf(r) = (CHOOSE g : it(g))[U]
  BY DEF UnitsOf, MapThenSumSet, MapThenFoldSet
<1>5. ASSUME NEW g PROVE it(g) <=> IsSum(g, w, U)
  <2> DEFINE e1(s) == IF s = {} THEN 0
                ELSE LET x == CHOOSE x \in s : TRUE
                     IN  (1 + Cardinality(KbsOf[r[x].file])) + g[s \ {x}]
             e2(s) == IF s = {} THEN 0 ELSE w[First(s)] + g[s \ {First(s)}]
  <2>1. ASSUME NEW s \in SUBSET U PROVE e1(s) = e2(s)
    <3>1. CASE s = {} BY <3>1
    <3>2. CASE s # {}
      <4>1. First(s) \in s BY <3>2 DEF First
      <4>2. w[First(s)] = 1 + Cardinality(KbsOf[r[First(s)].file]) BY <4>1 DEF Weights
      <4> QED BY <3>2, <4>2 DEF First
    <3> QED BY <3>1, <3>2
  <2>2. [s \in SUBSET U |-> e1(s)] = [s \in SUBSET U |-> e2(s)] BY <2>1
  <2>3. IsSum(g, w, U) <=> g = [s \in SUBSET U |-> e2(s)] BY DEF IsSum
  <2> QED BY <2>2, <2>3
<1>6. (CHOOSE g : it(g)) = f
  <2> HIDE DEF it, w, U
  <2> QED BY <1>5
<1> HIDE DEF f, it
<1> QED BY <1>3, <1>4, <1>6

LEMMA UnitsType == ASSUME NEW r, GoodRsrc(r) PROVE UnitsOf(r) \in Int
<1>1. PICK f : IsSum(f, Weights(r), DOMAIN r) /\ UnitsOf(r) = f[DOMAIN r] BY UnitsSum
<1>2. IsFiniteSet(DOMAIN r) /\ \A x \in DOMAIN r : Weights(r)[x] \in Int
  BY UnitsAreNat DEF GoodRsrc, Weights
<1>3. \A s \in SUBSET DOMAIN r : f[s] \in Int
  <2> HIDE DEF Weights
  <2> QED BY <1>1, <1>2, SumType
<1> QED BY <1>1, <1>3

\* Only the files count.
LEMMA UnitsSame ==
  ASSUME NEW r, GoodRsrc(r), NEW q, GoodRsrc(q),
         DOMAIN q = DOMAIN r, \A x \in DOMAIN r : q[x].file = r[x].file
  PROVE  UnitsOf(q) = UnitsOf(r)
<1>1. PICK f : IsSum(f, Weights(r), DOMAIN r) /\ UnitsOf(r) = f[DOMAIN r] BY UnitsSum
<1>2. Weights(q) = Weights(r) BY DEF Weights
<1>3. PICK g : IsSum(g, Weights(q), DOMAIN q) /\ UnitsOf(q) = g[DOMAIN q] BY UnitsSum
<1>4. IsFiniteSet(DOMAIN r) BY DEF GoodRsrc
<1>5. IsSum(g, Weights(r), DOMAIN r) /\ UnitsOf(q) = g[DOMAIN r] BY <1>2, <1>3
<1>6. \A s \in SUBSET DOMAIN r : f[s] = g[s]
  <2>1. DOMAIN r \subseteq DOMAIN r /\ \A x \in DOMAIN r : Weights(r)[x] = Weights(r)[x] OBVIOUS
  <2> QED BY <1>1, <1>4, <1>5, <2>1, SumUnique
<1> QED BY <1>1, <1>5, <1>6

\* One more resource has its own unit and one for each of its knowledge bases.
LEMMA UnitsGrow ==
  ASSUME NEW r, GoodRsrc(r), NEW q, GoodRsrc(q), NEW h, h \notin DOMAIN r,
         DOMAIN q = DOMAIN r \cup {h}, \A x \in DOMAIN r : q[x].file = r[x].file
  PROVE  UnitsOf(q) = UnitsOf(r) + 1 + Cardinality(KbsOf[q[h].file])
<1> DEFINE U == DOMAIN r
           V == DOMAIN q
           w == Weights(r)
           z == Weights(q)
<1>1. PICK f : IsSum(f, w, U) /\ UnitsOf(r) = f[U] BY UnitsSum
<1>2. PICK g : IsSum(g, z, V) /\ UnitsOf(q) = g[V] BY UnitsSum
<1>3. IsFiniteSet(U) /\ IsFiniteSet(V) /\ U \subseteq V /\ h \in V /\ V \ {h} = U
  BY DEF GoodRsrc
<1>4. \A x \in U : w[x] = z[x] BY DEF Weights
<1>5. z[h] = 1 + Cardinality(KbsOf[q[h].file]) /\ \A x \in V : z[x] \in Int
  BY UnitsAreNat DEF Weights, GoodRsrc
<1>6. f[U] \in Int
  <2>1. UnitsOf(r) \in Int BY UnitsType
  <2> QED BY <1>1, <2>1
<1>7. Cardinality(KbsOf[q[h].file]) \in Nat BY UnitsAreNat, <1>3 DEF GoodRsrc
<1>a. IsSum(f, w, U) BY <1>1
<1>b. IsSum(g, z, V) BY <1>2
<1>c. IsFiniteSet(U) BY <1>3
<1>d. IsFiniteSet(V) BY <1>3
<1>e. \A x \in V : z[x] \in Int BY <1>5
<1>f. U \subseteq V BY <1>3
<1> HIDE DEF U, V, w, z
<1>8. \A s \in SUBSET U : f[s] = g[s] BY <1>a, <1>b, <1>c, <1>f, <1>4, SumUnique
<1>9. ASSUME NEW s \in SUBSET V, NEW y \in s PROVE g[s] = z[y] + g[s \ {y}]
  BY <1>b, <1>d, <1>e, SumRemove
<1>10. g[V] = z[h] + g[U]
  <2>1. V \in SUBSET V OBVIOUS
  <2> QED BY <1>3, <1>9, <2>1
<1>11. g[U] = f[U] BY <1>8
<1> QED BY <1>1, <1>2, <1>5, <1>6, <1>7, <1>10, <1>11

-----------------------------------------------------------------------------
(* What a step takes and gives back. *)

LEMMA RsrcGood == RInv => GoodRsrc(rsrc)
BY DEF RInv, GoodRsrc, Loaded

\* The numbers that Lost and Stray are made from.
LEMMA Numbers ==
  ASSUME IInv
  PROVE  /\ used \in Int /\ UnitsOf(rsrc) \in Int /\ InLists \in Int
         /\ openFiles \in Int /\ Cardinality(FilesLoaded) \in Int /\ IsFiniteSet(FilesLoaded)
         /\ Lost \in Int /\ Stray \in Int
<1>1. UnitsOf(rsrc) \in Int BY RsrcGood, UnitsType DEF IInv
<1>2. InLists \in Int
  <2>1. Len(vdefs) \in Int /\ Len(freeVoices) \in Int /\ freeVdefs \in Int
    BY DEF IInv, DInv, VInv
  <2> QED BY <2>1 DEF InLists
<1>3. used \in Int /\ openFiles \in Int BY DEF IInv, RInv
<1>4. IsFiniteSet(FilesLoaded) /\ Cardinality(FilesLoaded) \in Int
  BY FS_Subset, FS_CardinalityType DEF IInv, RInv, FilesLoaded
<1> QED BY <1>1, <1>2, <1>3, <1>4 DEF Lost, Held, Stray

\* The step loses m units of memory and leaves n files open.
Loses(m, n) == Lost' = Lost + m /\ Stray' = Stray + n

\* ... when it takes these units and opens these files.
LEMMA Ledger ==
  ASSUME IInv, NEW du, du \in Int, NEW dr, dr \in Int, NEW dl, dl \in Int, NEW do, do \in Int,
         NEW df, df \in Int,
         used' = used + du, UnitsOf(rsrc') = UnitsOf(rsrc) + dr, InLists' = InLists + dl,
         openFiles' = openFiles + do, Cardinality(FilesLoaded') = Cardinality(FilesLoaded) + df
  PROVE  Loses(du - dr - dl, do - df)
<1>1. Lost' = used' - (UnitsOf(rsrc') + InLists') /\ Stray' = openFiles' - Cardinality(FilesLoaded')
  BY DEF Lost, Held, Stray
<1>2. Lost = used - (UnitsOf(rsrc) + InLists) /\ Stray = openFiles - Cardinality(FilesLoaded)
  BY DEF Lost, Held, Stray
<1>3. /\ used \in Int /\ UnitsOf(rsrc) \in Int /\ InLists \in Int
      /\ openFiles \in Int /\ Cardinality(FilesLoaded) \in Int
  BY Numbers
<1>4. Lost' = Lost + (du - dr - dl) BY <1>1, <1>2, <1>3
<1>5. Stray' = Stray + (do - df) BY <1>1, <1>2, <1>3
<1> QED BY <1>4, <1>5 DEF Loses

\* A step that leaves the files of the resources alone.
LEMMA FilesSame ==
  ASSUME IInv, RInv', Loaded' = Loaded, \A h \in Loaded : rsrc'[h].file = rsrc[h].file
  PROVE  UnitsOf(rsrc') = UnitsOf(rsrc) /\ FilesLoaded' = FilesLoaded
<1>1. FilesLoaded' = FilesLoaded BY DEF FilesLoaded
<1>2. GoodRsrc(rsrc) BY RsrcGood DEF IInv
<1>3. GoodRsrc(rsrc') BY DEF RInv, GoodRsrc, Loaded
<1>4. DOMAIN rsrc' = DOMAIN rsrc /\ \A x \in DOMAIN rsrc : rsrc'[x].file = rsrc[x].file
  BY DEF Loaded
<1>5. PICK r, q : r = rsrc /\ q = rsrc' OBVIOUS
<1>6. GoodRsrc(r) /\ GoodRsrc(q) BY <1>2, <1>3, <1>5
<1>7. DOMAIN q = DOMAIN r /\ \A x \in DOMAIN r : q[x].file = r[x].file BY <1>4, <1>5
<1>8. UnitsOf(q) = UnitsOf(r) BY <1>6, <1>7, UnitsSame
<1> QED BY <1>1, <1>5, <1>8

\* A step that changes neither the resources nor the files.
LEMMA OnlyLists ==
  ASSUME IInv, IInv', Loaded' = Loaded, \A h \in Loaded : rsrc'[h].file = rsrc[h].file,
         openFiles' = openFiles,
         NEW m, m \in Int, NEW n, n \in Int, used' = used + m, InLists' = InLists + n
  PROVE  Loses(m - n, 0)
<1>1. UnitsOf(rsrc') = UnitsOf(rsrc) + 0 /\ Cardinality(FilesLoaded') = Cardinality(FilesLoaded) + 0
  <2>1. RInv' BY DEF IInv
  <2>2. UnitsOf(rsrc') = UnitsOf(rsrc) /\ FilesLoaded' = FilesLoaded BY <2>1, FilesSame
  <2> QED BY <2>2, Numbers
<1>2. openFiles' = openFiles + 0 BY Numbers
<1>3. Loses(m - 0 - n, 0 - 0) BY <1>1, <1>2, Ledger
<1> QED BY <1>3

LEMMA ListsSame == UNCHANGED <<vdefs, freeVdefs, freeVoices, engine>> => InLists' = InLists
BY DEF InLists

LEMMA AnswerLosesNothing == ASSUME IInv, IInv', NEW s, Answer(s) PROVE Loses(0, 0)
<1>1. InLists' = InLists + 0 /\ used' = used + 0
  BY ListsSame, Numbers DEF Answer, vdefVars, voiceVars
<1>2. Loaded' = Loaded /\ openFiles' = openFiles /\ \A h \in Loaded : rsrc'[h].file = rsrc[h].file
  BY DEF Answer, rsrcVars, Loaded
<1>3. Loses(0 - 0, 0) BY <1>1, <1>2, OnlyLists
<1> QED BY <1>3

\* A load that gives no handle leaves its file open; only one that fails also loses memory.
LEMMA LoadLoses ==
  ASSUME IInv, IInv', Opens, UNCHANGED <<rsrcVars, vdefVars, voiceVars>>,
         NEW n \in Nat, used' = used + n
  PROVE  Loses(n, 1)
<1>1. InLists' = InLists + 0 BY ListsSame, Numbers DEF vdefVars, voiceVars
<1>2. UnitsOf(rsrc') = UnitsOf(rsrc) + 0 /\ Cardinality(FilesLoaded') = Cardinality(FilesLoaded) + 0
  BY Numbers DEF rsrcVars, FilesLoaded, Loaded
<1>3. openFiles' = openFiles + 1 BY DEF Opens
<1>4. Loses(n - 0 - 0, 1 - 0) BY <1>1, <1>2, <1>3, Ledger
<1> QED BY <1>4

\* A load that makes a resource loses nothing.
LEMMA LoadDoneLoses ==
  ASSUME IInv, IInv', NEW f \in Files, NEW h \in Handles, LoadDone(h, f)
  PROVE  Loses(0, 0)
<1>1. f \in Sources /\ f # Default BY RsrcAssumption DEF Sources
<1>2. PICK c : c = 1 + Cardinality(KbsOf[f]) OBVIOUS
<1>3. c \in Int BY <1>1, <1>2, UnitsAreNat
<1>4. /\ h \notin Loaded /\ Loaded' = Loaded \cup {h} /\ rsrc'[h].file = f
      /\ \A x \in Loaded : rsrc'[x] = rsrc[x]
      /\ used' = used + c /\ openFiles' = openFiles + 1
  <2>1. used' = used + 1 + Cardinality(KbsOf[f]) BY DEF LoadDone, Added
  <2>2. used' = used + c BY <1>1, <1>2, <2>1, Numbers, UnitsAreNat
  <2> QED BY <2>2 DEF LoadDone, Added, Opens, Loaded
<1>5. UnitsOf(rsrc') = UnitsOf(rsrc) + c
  <2>1. PICK r, q : r = rsrc /\ q = rsrc' OBVIOUS
  <2>2. GoodRsrc(r) BY <2>1, RsrcGood DEF IInv
  <2>3. GoodRsrc(q) BY <2>1 DEF IInv, RInv, GoodRsrc, Loaded
  <2>4. h \notin DOMAIN r /\ DOMAIN q = DOMAIN r \cup {h} /\ \A x \in DOMAIN r : q[x].file = r[x].file
    BY <1>4, <2>1 DEF Loaded
  <2>5. UnitsOf(q) = UnitsOf(r) + 1 + Cardinality(KbsOf[q[h].file]) BY <2>2, <2>3, <2>4, UnitsGrow
  <2>6. UnitsOf(r) \in Int /\ Cardinality(KbsOf[f]) \in Int BY <1>1, <2>1, Numbers, UnitsAreNat
  <2> QED BY <1>2, <1>4, <2>1, <2>5, <2>6
<1>6. Cardinality(FilesLoaded') = Cardinality(FilesLoaded) + 1
  <2>1. FilesLoaded' = FilesLoaded \cup {h} /\ h \notin FilesLoaded
    BY <1>1, <1>4 DEF FilesLoaded
  <2>2. IsFiniteSet(FilesLoaded) BY Numbers
  <2> QED BY <2>1, <2>2, FS_AddElement
<1>7. InLists' = InLists + 0 BY ListsSame, Numbers DEF LoadDone, vdefVars, voiceVars
<1>8. Loses(c - c - 0, 1 - 1) BY <1>3, <1>4, <1>5, <1>6, <1>7, Ledger
<1> QED BY <1>3, <1>8

LEMMA UnloadLoses ==
  ASSUME IInv, IInv', NEW h \in Handles, UnloadResource(h)
  PROVE  Loses(0, 0)
<1>1. CASE Answer("BUSY") BY <1>1, AnswerLosesNothing
<1>2. CASE ~Answer("BUSY")
  <2>1. /\ h \in Loaded /\ rsrc[h].file # Default
        /\ rsrc' = [x \in Loaded \ {h} |-> rsrc[x]] /\ openFiles' = openFiles - 1
        /\ used' = used - 1 - Cardinality(Kbs(h)) /\ UNCHANGED <<vdefVars, voiceVars>>
    BY <1>2 DEF UnloadResource, Remaining
  <2>2. rsrc[h].file \in Sources BY <2>1 DEF IInv, RInv
  <2>3. PICK c : c = 1 + Cardinality(KbsOf[rsrc[h].file]) OBVIOUS
  <2>4. c \in Int /\ Cardinality(KbsOf[rsrc[h].file]) \in Int BY <2>2, <2>3, UnitsAreNat
  <2>5. used' = used + (0 - c) /\ openFiles' = openFiles + (0 - 1)
    BY <2>1, <2>3, <2>4, Numbers DEF Kbs
  <2>6. Loaded' = Loaded \ {h} /\ \A x \in Loaded' : rsrc'[x] = rsrc[x] BY <2>1 DEF Loaded
  <2>7. UnitsOf(rsrc') = UnitsOf(rsrc) + (0 - c)
    <3>1. PICK r, q : r = rsrc' /\ q = rsrc OBVIOUS
    <3>2. GoodRsrc(q) BY <3>1, RsrcGood DEF IInv
    <3>3. GoodRsrc(r) BY <3>1 DEF IInv, RInv, GoodRsrc, Loaded
    <3>4. h \notin DOMAIN r /\ DOMAIN q = DOMAIN r \cup {h} /\ \A x \in DOMAIN r : q[x].file = r[x].file
      BY <2>1, <2>6, <3>1 DEF Loaded
    <3>5. UnitsOf(q) = UnitsOf(r) + 1 + Cardinality(KbsOf[q[h].file]) BY <3>2, <3>3, <3>4, UnitsGrow
    <3>6. UnitsOf(r) \in Int BY <3>3, UnitsType
    <3> QED BY <2>3, <2>4, <3>1, <3>5, <3>6
  <2>8. Cardinality(FilesLoaded') = Cardinality(FilesLoaded) + (0 - 1)
    <3>1. FilesLoaded' = FilesLoaded \ {h} /\ h \in FilesLoaded BY <2>1, <2>6 DEF FilesLoaded
    <3>2. IsFiniteSet(FilesLoaded) /\ Cardinality(FilesLoaded) \in Int BY Numbers
    <3>3. Cardinality(FilesLoaded \ {h}) = Cardinality(FilesLoaded) - 1
      BY <3>1, <3>2, FS_RemoveElement
    <3> QED BY <3>1, <3>2, <3>3
  <2>9. InLists' = InLists + 0 BY <2>1, ListsSame, Numbers DEF vdefVars, voiceVars
  <2>10. Loses((0 - c) - (0 - c) - 0, (0 - 1) - (0 - 1)) BY <2>4, <2>5, <2>7, <2>8, <2>9, Ledger
  <2> QED BY <2>4, <2>10
<1> QED BY <1>1, <1>2

\* Only a voice definition with a name that is too long is lost.
LEMMA CreateVoiceDefinitionLoses ==
  ASSUME IInv, IInv', NEW v \in VoiceNames \cup {LongVoice}, CreateVoiceDefinition(v)
  PROVE  Loses(0, 0) \/ (Loses(1, 0) /\ status' = "ILLEGAL")
<1>1. CASE \E s : Answer(s)
  <2>1. Loses(0, 0) BY <1>1, AnswerLosesNothing
  <2> QED BY <2>1 DEF Loses
<1>2. CASE ~\E s : Answer(s)
  <2>1. /\ TakeVdef /\ UNCHANGED <<rsrcVars, voiceVars, openFiles>>
        /\ \/ status' = "ILLEGAL" /\ UNCHANGED <<vdefs, numVdefs>>
           \/ vdefs' = <<[name |-> v, rs |-> <<NameOf[Default]>>]>> \o vdefs
    BY <1>2 DEF CreateVoiceDefinition
  <2>2. Loaded' = Loaded /\ openFiles' = openFiles /\ \A h \in Loaded : rsrc'[h].file = rsrc[h].file
    BY <2>1 DEF rsrcVars, Loaded
  <2>3. /\ Len(vdefs) \in Int /\ Len(freeVoices) \in Int /\ freeVdefs \in Int /\ used \in Int
        /\ freeVoices' = freeVoices /\ engine' = engine
    BY <2>1 DEF IInv, DInv, VInv, voiceVars
  <2>4. used' + freeVdefs = used + freeVdefs' + 1 /\ used' \in Int /\ freeVdefs' \in Int
    BY <2>1, <2>3 DEF TakeVdef
  <2>6. PICK d \in Int : used' = used + d /\ freeVdefs' = freeVdefs + d - 1
    <3>1. freeVdefs' = freeVdefs + (used' - used) - 1
      <4>1. PICK u, n, x, y : u = used /\ n = freeVdefs /\ x = used' /\ y = freeVdefs' OBVIOUS
      <4>2. u \in Int /\ n \in Int /\ x \in Int /\ y \in Int /\ x + n = u + y + 1
        BY <2>3, <2>4, <4>1
      <4>3. y = n + (x - u) - 1 BY <4>2
      <4> QED BY <4>1, <4>3
    <3>2. used' - used \in Int /\ used' = used + (used' - used)
      <4>1. PICK u, x : u = used /\ x = used' OBVIOUS
      <4>2. u \in Int /\ x \in Int BY <2>3, <2>4, <4>1
      <4>3. x - u \in Int /\ x = u + (x - u) BY <4>2
      <4> QED BY <4>1, <4>3
    <3> QED BY <3>1, <3>2
  <2>7. CASE status' = "ILLEGAL" /\ UNCHANGED <<vdefs, numVdefs>>
    <3>1. InLists' = InLists + (d - 1) BY <2>3, <2>6, <2>7 DEF InLists
    <3>2. d - 1 \in Int BY <2>6
    <3>3. Loses(d - (d - 1), 0) BY <2>2, <2>6, <3>1, <3>2, OnlyLists
    <3>4. d - (d - 1) = 1 OBVIOUS
    <3>5. Loses(1, 0) BY <3>3, <3>4
    <3> QED BY <2>7, <3>5, Zenon
  <2>8. CASE vdefs' = <<[name |-> v, rs |-> <<NameOf[Default]>>]>> \o vdefs
    <3>1. vdefs \in Seq([name : VoiceNames, rs : Seq(Names)]) BY DEF IInv, DInv
    <3>2. Len(vdefs') = Len(vdefs) + 1 BY <2>8, <3>1
    <3>3. InLists' = InLists + d BY <2>3, <2>6, <3>2 DEF InLists
    <3>4. Loses(d - d, 0) BY <2>2, <2>6, <3>3, OnlyLists
    <3>5. d - d = 0 OBVIOUS
    <3>6. Loses(0, 0) BY <3>4, <3>5
    <3> QED BY <3>6 DEF Loses
  <2> QED BY <2>1, <2>7, <2>8
<1> QED BY <1>1, <1>2

LEMMA AddResourceLoses ==
  ASSUME IInv, IInv', NEW v, NEW n, AddResourceToVoiceDefinition(v, n)
  PROVE  Loses(0, 0)
<1>1. CASE \E s : Answer(s) BY <1>1, AnswerLosesNothing
<1>2. CASE ~\E s : Answer(s)
  <2>1. /\ vdefs' = [vdefs EXCEPT ![Vdef(v)].rs = Append(@, Cut(n))]
        /\ UNCHANGED <<rsrcVars, freeVdefs, voiceVars, used, openFiles>>
    BY <1>2 DEF AddResourceToVoiceDefinition
  <2>2. Loaded' = Loaded /\ openFiles' = openFiles /\ \A h \in Loaded : rsrc'[h].file = rsrc[h].file
    BY <2>1 DEF rsrcVars, Loaded
  <2>3. vdefs \in Seq(VdefType) BY DEF IInv, DInv, VdefType
  <2>4. Len(vdefs') = Len(vdefs) BY <2>1, <2>3
  <2>5. InLists' = InLists + 0 /\ used' = used + 0 BY <2>1, <2>4, Numbers DEF InLists, voiceVars
  <2>6. Loses(0 - 0, 0) BY <2>2, <2>5, OnlyLists
  <2> QED BY <2>6
<1> QED BY <1>1, <1>2

LEMMA WithoutLength ==
  ASSUME vdefs \in Seq(VdefType), NEW d \in DOMAIN vdefs
  PROVE  Len(Without(d)) = Len(vdefs) - 1
<1>1. Len(vdefs) \in Nat /\ d \in 1 .. Len(vdefs) OBVIOUS
<1> DEFINE a == SubSeq(vdefs, 1, d - 1)
           b == SubSeq(vdefs, d + 1, Len(vdefs))
<1>2. a \in Seq(VdefType) /\ Len(a) = d - 1 BY <1>1
<1>3. b \in Seq(VdefType) /\ Len(b) = Len(vdefs) - d
  <2>1. d + 1 \in Int /\ Len(vdefs) \in Int /\ \A i \in d + 1 .. Len(vdefs) : vdefs[i] \in VdefType
    BY <1>1
  <2>2. b \in Seq(VdefType) /\ Len(b) = IF d + 1 <= Len(vdefs) THEN Len(vdefs) - (d + 1) + 1 ELSE 0
    BY <2>1, SubSeqProperties
  <2> HIDE DEF b
  <2> QED BY <1>1, <2>2
<1> HIDE DEF a, b
<1>4. Len(a \o b) = Len(a) + Len(b) BY <1>2, <1>3, ConcatProperties
<1>5. Without(d) = a \o b BY DEF Without, a, b
<1> QED BY <1>1, <1>2, <1>3, <1>4, <1>5

LEMMA ReleaseVoiceDefinitionLoses ==
  ASSUME IInv, IInv', NEW v, ReleaseVoiceDefinition(v)
  PROVE  Loses(0, 0)
<1>1. CASE \E s : Answer(s) BY <1>1, AnswerLosesNothing
<1>2. CASE ~\E s : Answer(s)
  <2>1. /\ Defined(v) /\ vdefs' = Without(Vdef(v)) /\ freeVdefs' = freeVdefs + 1
        /\ UNCHANGED <<rsrcVars, voiceVars, used, openFiles>>
    BY <1>2 DEF ReleaseVoiceDefinition
  <2>2. Loaded' = Loaded /\ openFiles' = openFiles /\ \A h \in Loaded : rsrc'[h].file = rsrc[h].file
    BY <2>1 DEF rsrcVars, Loaded
  <2>3. vdefs \in Seq(VdefType) /\ Vdef(v) \in DOMAIN vdefs BY <2>1, VdefIndex DEF IInv, DInv, VdefType
  <2>4. Len(vdefs') = Len(vdefs) - 1 BY <2>1, <2>3, WithoutLength
  <2>5. Len(vdefs) \in Int /\ Len(freeVoices) \in Int /\ freeVdefs \in Int
    BY DEF IInv, DInv, VInv
  <2>6. InLists' = InLists + 0 /\ used' = used + 0
    BY <2>1, <2>4, <2>5, Numbers DEF InLists, voiceVars
  <2>7. Loses(0 - 0, 0) BY <2>2, <2>6, OnlyLists
  <2> QED BY <2>7
<1> QED BY <1>1, <1>2

LEMMA VoicesLeftLength ==
  ASSUME freeVoices \in Seq(Voice)
  PROVE  VoicesLeft \in Seq(Voice) /\ Len(VoicesLeft) = Len(freeVoices) + VoiceUnits - 1
BY DEF VoicesLeft, VoiceUnits

LEMMA EngineLoses ==
  ASSUME IInv, IInv', NEW v, NewEngineRefused(v) \/ NewEngineFails(v) \/ NewEngine(v)
  PROVE  Loses(0, 0)
<1>1. CASE \E s : Answer(s) BY <1>1, AnswerLosesNothing
<1>2. /\ freeVoices \in Seq(Voice) /\ Len(vdefs) \in Int /\ Len(freeVoices) \in Int
      /\ freeVdefs \in Int /\ used \in Int /\ VoiceUnits \in Int
  BY DEF IInv, DInv, VInv, VoiceUnits
<1>3. CASE NewEngineFails(v)
  <2>1. PICK m : m = MadeVoice(vdefs[Vdef(v)].rs) OBVIOUS
  <2>2. /\ rsrc' = rsrc /\ freeVoices' = <<m>> \o VoicesLeft /\ used' = used + VoiceUnits
        /\ UNCHANGED <<vdefVars, engine, openFiles>> /\ engine = NULL
    BY <1>3, <2>1 DEF NewEngineFails, ReleaseAfterFailure
  <2>3. Len(freeVoices') = Len(freeVoices) + VoiceUnits
    <3>1. VoicesLeft \in Seq(Voice) /\ Len(VoicesLeft) = Len(freeVoices) + VoiceUnits - 1
      BY <1>2, VoicesLeftLength
    <3>2. Len(<<m>> \o VoicesLeft) = 1 + Len(VoicesLeft) BY <3>1
    <3> QED BY <1>2, <2>2, <3>1, <3>2
  <2>4. InLists' = InLists + VoiceUnits BY <1>2, <2>2, <2>3 DEF InLists, vdefVars
  <2>5. Loaded' = Loaded /\ openFiles' = openFiles /\ \A h \in Loaded : rsrc'[h].file = rsrc[h].file
    BY <2>2 DEF Loaded
  <2>6. Loses(VoiceUnits - VoiceUnits, 0) BY <1>2, <2>2, <2>4, <2>5, OnlyLists
  <2> QED BY <1>2, <2>6
<1>4. CASE NewEngine(v)
  <2>1. PICK m : m = engine' OBVIOUS
  <2>2. /\ rsrc' = Locked(m) /\ freeVoices' = VoicesLeft /\ used' = used + 1 + VoiceUnits
        /\ engine = NULL /\ numVoices' = numVoices + 1 /\ UNCHANGED <<vdefVars, openFiles>>
    BY <1>4, <2>1 DEF NewEngine, Locked, Uses
  <2>3. engine' # NULL
    <3>1. numVoices = 0 BY <2>2 DEF IInv, VInv
    <3>2. numVoices' # 0 BY <2>2, <3>1
    <3> QED BY <3>2 DEF IInv, VInv
  <2>4. Len(freeVoices') = Len(freeVoices) + VoiceUnits - 1 BY <1>2, <2>2, VoicesLeftLength
  <2>5. InLists' = InLists + (1 + VoiceUnits) BY <1>2, <2>2, <2>3, <2>4 DEF InLists, vdefVars
  <2>6. Loaded' = Loaded /\ openFiles' = openFiles /\ \A h \in Loaded : rsrc'[h].file = rsrc[h].file
    <3>1. Loaded' = Loaded BY <2>2 DEF Loaded, Locked
    <3>2. ASSUME NEW h \in Loaded PROVE rsrc'[h].file = rsrc[h].file
      <4>1. rsrc[h] \in [file : Sources, lockCount : Int] BY DEF IInv, RInv
      <4>2. rsrc'[h] = [rsrc[h] EXCEPT !.lockCount = @ + Uses(m, h)] BY <2>2 DEF Locked
      <4> QED BY <4>1, <4>2
    <3> QED BY <2>2, <3>1, <3>2
  <2>7. used' = used + (1 + VoiceUnits) /\ 1 + VoiceUnits \in Int BY <1>2, <2>2
  <2>8. PICK u : u = 1 + VoiceUnits OBVIOUS
  <2>9. Loses(u - u, 0) BY <2>5, <2>6, <2>7, <2>8, OnlyLists
  <2> QED BY <2>7, <2>8, <2>9
<1> QED BY <1>1, <1>3, <1>4 DEF NewEngineRefused

LEMMA DisposeEngineLoses == ASSUME IInv, IInv', DisposeEngine PROVE Loses(0, 0)
<1>1. /\ Len(vdefs) \in Int /\ freeVoices \in Seq(Voice) /\ Len(freeVoices) \in Int
      /\ freeVdefs \in Int /\ used \in Int
  BY DEF IInv, DInv, VInv
<1>2. PICK m : m = engine OBVIOUS
<1>3. /\ m # NULL /\ engine' = NULL /\ rsrc' = Unlocked(m) /\ freeVoices' = <<m>> \o freeVoices
      /\ used' = used + (0 - 1) /\ UNCHANGED <<vdefVars, openFiles>>
  BY <1>1, <1>2 DEF DisposeEngine
<1>4. Len(freeVoices') = Len(freeVoices) + 1 BY <1>1, <1>3
<1>5. InLists' = InLists + (0 - 1) BY <1>1, <1>2, <1>3, <1>4 DEF InLists, vdefVars
<1>6. Loaded' = Loaded /\ openFiles' = openFiles /\ \A h \in Loaded : rsrc'[h].file = rsrc[h].file
  <2>1. Loaded' = Loaded BY <1>3 DEF Loaded, Unlocked
  <2>2. ASSUME NEW h \in Loaded PROVE rsrc'[h].file = rsrc[h].file
    <3>1. rsrc[h] \in [file : Sources, lockCount : Int] BY DEF IInv, RInv
    <3>2. rsrc'[h] = [rsrc[h] EXCEPT !.lockCount = @ - Uses(m, h)] BY <1>3 DEF Unlocked
    <3> QED BY <3>1, <3>2
  <2> QED BY <1>3, <2>1, <2>2
<1>7. Loses((0 - 1) - (0 - 1), 0) BY <1>3, <1>5, <1>6, OnlyLists
<1> QED BY <1>7

\* What a step may lose while the system is up.
LosesKnown ==
  \/ Loses(0, 0)
  \/ Loses(0, 1) /\ openFiles' = openFiles + 1 /\ rsrc' = rsrc
  \/ Loses(1, 0) /\ status' = "ILLEGAL"
  \/ /\ \E n \in Nat : Loses(n, 1)
     /\ openFiles' = openFiles + 1 /\ rsrc' = rsrc /\ status' = "FAILED"

LEMMA LoadLosesKnown == ASSUME IInv, IInv', Load PROVE LosesKnown
<1>1. CASE \E s : Answer(s)
  <2>1. Loses(0, 0) BY <1>1, AnswerLosesNothing
  <2> QED BY <2>1 DEF LosesKnown
<1>2. ASSUME Opens, UNCHANGED <<rsrcVars, vdefVars, voiceVars>>, used' = used
      PROVE  LosesKnown
  <2>1. used' = used + 0 BY <1>2, Numbers
  <2>2. Loses(0, 1) BY <1>2, <2>1, LoadLoses
  <2> QED BY <1>2, <2>2 DEF LosesKnown, Opens, rsrcVars
<1>3. CASE LoadBroken BY <1>2, <1>3 DEF LoadBroken
<1>4. ASSUME NEW f \in Files, LoadTwice(f) PROVE LosesKnown
  BY <1>2, <1>4 DEF LoadTwice
<1>5. ASSUME NEW f \in Files, NEW n \in 0 .. Cardinality(KbsOf[f]), LoadKbsFail(f, n)
      PROVE  LosesKnown
  <2>1. n \in Nat BY UnitsAreNat DEF Sources
  <2>2. Loses(n, 1) BY <1>5, <2>1, LoadLoses DEF LoadKbsFail
  <2>3. openFiles' = openFiles + 1 /\ rsrc' = rsrc /\ status' = "FAILED"
    BY <1>5 DEF LoadKbsFail, Opens, rsrcVars
  <2> QED BY <2>1, <2>2, <2>3 DEF LosesKnown
<1>6. ASSUME NEW f \in Files, NEW h \in Handles, LoadDone(h, f) PROVE LosesKnown
  <2>1. Loses(0, 0) BY <1>6, LoadDoneLoses
  <2> QED BY <2>1 DEF LosesKnown
<1> QED BY <1>1, <1>3, <1>4, <1>5, <1>6 DEF Load, LoadRefused

LEMMA NextLosesKnown == ASSUME IInv, IInv', up, up', [Next]_vars PROVE LosesKnown
<1>1. ASSUME NEW h \in Handles, Initialize(h) PROVE LosesKnown
  BY <1>1 DEF Initialize
<1>2. CASE Terminate
  BY <1>2 DEF Terminate
<1>3. CASE Load
  BY <1>3, LoadLosesKnown
<1> SUFFICES ASSUME ~Load, ~Terminate, \A h \in Handles : ~Initialize(h),
                    ~(Loses(1, 0) /\ status' = "ILLEGAL")
             PROVE  Loses(0, 0)
  BY <1>1, <1>2, <1>3 DEF LosesKnown
<1>4. ASSUME NEW h \in Handles, UnloadResource(h) PROVE Loses(0, 0)
  BY <1>4, UnloadLoses
<1>5. CASE Definitions
  <2>1. ASSUME NEW v \in VoiceNames \cup {LongVoice}, CreateVoiceDefinition(v) PROVE Loses(0, 0)
    BY <2>1, CreateVoiceDefinitionLoses
  <2>2. ASSUME NEW v \in VoiceNames, NEW n \in Names \cup {LongName},
               AddResourceToVoiceDefinition(v, n)
        PROVE  Loses(0, 0)
    BY <2>2, AddResourceLoses
  <2>3. ASSUME NEW v \in VoiceNames, ReleaseVoiceDefinition(v) PROVE Loses(0, 0)
    BY <2>3, ReleaseVoiceDefinitionLoses
  <2> QED BY <1>5, <2>1, <2>2, <2>3 DEF Definitions
<1>6. ASSUME NEW v \in VoiceNames, NewEngineRefused(v) \/ NewEngineFails(v) \/ NewEngine(v)
      PROVE  Loses(0, 0)
  BY <1>6, EngineLoses
<1>7. CASE DisposeEngine
  BY <1>7, DisposeEngineLoses
<1>8. CASE UNCHANGED vars
  <2>1. Answer(status)
    BY <1>8 DEF vars, Answer
  <2> QED BY <2>1, AnswerLosesNothing
<1> QED BY <1>4, <1>5, <1>6, <1>7, <1>8 DEF Next

\* Memory is lost only in a load that fails in its knowledge bases and in a voice definition
\* with an illegal name, and a file only in a load that gives no handle, for any files, names
\* and limits; and no call gives memory back or closes a file twice.
THEOREM NothingElseLeaks == Spec => NothingLeaks
<1> DEFINE memory == up /\ up' => Lost' >= Lost /\ (Lost' > Lost => status' \in {"FAILED", "ILLEGAL"})
           files == up /\ up' =>
                      Stray' >= Stray /\ (Stray' > Stray => openFiles' > openFiles /\ UNCHANGED rsrc)
<1>1. IInv /\ IInv' /\ [Next]_vars => memory /\ files
  <2> SUFFICES ASSUME IInv, IInv', [Next]_vars, up, up'
               PROVE  /\ Lost' >= Lost /\ (Lost' > Lost => status' \in {"FAILED", "ILLEGAL"})
                      /\ Stray' >= Stray /\ (Stray' > Stray => openFiles' > openFiles /\ UNCHANGED rsrc)
    OBVIOUS
  <2>1. LosesKnown BY NextLosesKnown
  <2>2. Lost \in Int /\ Stray \in Int /\ openFiles \in Int BY Numbers
  <2>3. CASE Loses(0, 0) BY <2>2, <2>3 DEF Loses
  <2>4. CASE Loses(0, 1) /\ openFiles' = openFiles + 1 /\ rsrc' = rsrc BY <2>2, <2>4 DEF Loses
  <2>5. CASE Loses(1, 0) /\ status' = "ILLEGAL" BY <2>2, <2>5 DEF Loses
  <2>6. CASE /\ \E n \in Nat : Loses(n, 1)
             /\ openFiles' = openFiles + 1 /\ rsrc' = rsrc /\ status' = "FAILED"
    <3>1. PICK n \in Nat : Loses(n, 1) BY <2>6
    <3> QED BY <2>2, <2>6, <3>1 DEF Loses
  <2> QED BY <2>1, <2>3, <2>4, <2>5, <2>6 DEF LosesKnown
<1>2. IInv /\ IInv' /\ [Next]_vars => [memory]_vars /\ [files]_vars
  BY <1>1
<1>3. Spec => [][memory]_vars /\ [][files]_vars
  BY <1>2, Invariant, PTL DEF Spec
<1> QED
  BY <1>3 DEF NothingLeaks, MemoryKept, FilesKept

-----------------------------------------------------------------------------
(* The start and the end of pico2wave: the inductive invariant. *)

Build == {"initialize", "loadTa", "loadSg", "names", "create", "addTa", "addSg", "newEngine",
          "synthesis"}

Ladder == {"disposeEngine", "releaseVoice", "unloadSg", "unloadTa"}

\* The resources whose handles main has.
HandlesHeld == {picoTaResource, picoSgResource} \ {NULL}

\* Where main is, and what there is by then.
Where ==
  /\ pc \in Build \cup Ladder \cup {"terminate", "exit"}
  /\ langIndex \in Langs
  /\ pc \in (Build \cup Ladder) \ {"initialize"} => up
  /\ pc = "initialize" => ~up
  /\ engine # NULL => pc \in {"synthesis", "disposeEngine"}
  /\ pc \in Build => ret = 0

\* main has the handles of the resources that are loaded, and of no others.
HandlesKept ==
  /\ HandlesHeld \subseteq Handles /\ FilesLoaded = HandlesHeld
  /\ picoTaResource = picoSgResource => picoTaResource = NULL
  /\ pc \in {"initialize", "loadTa", "loadSg", "unloadTa", "terminate", "exit"} => picoSgResource = NULL
  /\ pc \in {"initialize", "loadTa", "terminate", "exit"} => picoTaResource = NULL
  /\ pc \in {"create", "addTa", "addSg", "newEngine"} => picoTaResource # NULL /\ picoSgResource # NULL

\* A load that gave no handle has left its file open, which is noticed at the latest where the
\* names are asked for.
Clean ==
  ret = 0 /\ pc # "exit" =>
    /\ Lost = 0
    /\ \/ Stray = 0
       \/ pc = "loadSg" /\ picoTaResource = NULL
       \/ pc = "names" /\ NULL \in {picoTaResource, picoSgResource}

StartInv == IInv /\ Where /\ HandlesKept /\ Clean

-----------------------------------------------------------------------------
(* The start. *)

\* Nothing is held before the first call.
LEMMA EmptyHolds == ASSUME Init PROVE Lost = 0 /\ Stray = 0
<1>1. DOMAIN rsrc = {} BY DEF Init
<1>2. GoodRsrc(rsrc) BY <1>1, FS_EmptySet DEF GoodRsrc
<1>3. UnitsOf(rsrc) = 0
  <2>1. PICK f : IsSum(f, Weights(rsrc), DOMAIN rsrc) /\ UnitsOf(rsrc) = f[DOMAIN rsrc]
    BY <1>2, UnitsSum
  <2>2. f[{}] = 0
    <3>1. {} \in SUBSET DOMAIN rsrc OBVIOUS
    <3> QED BY <2>1, <3>1 DEF IsSum
  <2> QED BY <1>1, <2>1, <2>2
<1>4. InLists = 0 BY DEF Init, InLists
<1>5. FilesLoaded = {} BY <1>1 DEF FilesLoaded, Loaded
<1>6. Cardinality(FilesLoaded) = 0 BY <1>5, FS_EmptySet
<1> QED BY <1>3, <1>4, <1>6 DEF Init, Lost, Held, Stray

LEMMA StartInitInvariant == StartInit => StartInv
<1> SUFFICES ASSUME StartInit PROVE StartInv OBVIOUS
<1>1. Init /\ IInv BY InitInvariant DEF StartInit
<1>2. Where BY <1>1 DEF StartInit, Init, Where, Build, Ladder
<1>3. HandlesKept BY <1>1 DEF StartInit, Init, HandlesKept, HandlesHeld, FilesLoaded, Loaded
<1>4. Clean BY <1>1, EmptyHolds DEF Clean
<1> QED BY <1>1, <1>2, <1>3, <1>4 DEF StartInv

\* pico_initialize loses nothing.
LEMMA InitializeLoses ==
  ASSUME IInv, IInv', NEW h \in Handles, Initialize(h)
  PROVE  Loses(0, 0) /\ FilesLoaded' = FilesLoaded
<1>1. Default \in Sources BY DEF Sources
<1>2. PICK c : c = 1 + Cardinality(KbsOf[Default]) OBVIOUS
<1>3. c \in Int BY <1>1, <1>2, UnitsAreNat
<1>4. /\ h \notin Loaded /\ Loaded' = Loaded \cup {h} /\ rsrc'[h].file = Default
      /\ \A x \in Loaded : rsrc'[x] = rsrc[x]
      /\ used' = used + c /\ openFiles' = openFiles + 0
  <2>1. used' = used + 1 + Cardinality(KbsOf[Default]) BY DEF Initialize, Added
  <2>2. used' = used + c BY <1>1, <1>2, <2>1, Numbers, UnitsAreNat
  <2>3. Loaded = {} BY DEF Initialize, IInv
  <2>4. openFiles' = openFiles + 0 BY Numbers DEF Initialize
  <2> QED BY <2>2, <2>3, <2>4 DEF Initialize, Added, Loaded
<1>5. UnitsOf(rsrc') = UnitsOf(rsrc) + c
  <2>1. PICK r, q : r = rsrc /\ q = rsrc' OBVIOUS
  <2>2. GoodRsrc(r) BY <2>1, RsrcGood DEF IInv
  <2>3. GoodRsrc(q) BY <2>1 DEF IInv, RInv, GoodRsrc, Loaded
  <2>4. h \notin DOMAIN r /\ DOMAIN q = DOMAIN r \cup {h} /\ \A x \in DOMAIN r : q[x].file = r[x].file
    BY <1>4, <2>1 DEF Loaded
  <2>5. UnitsOf(q) = UnitsOf(r) + 1 + Cardinality(KbsOf[q[h].file]) BY <2>2, <2>3, <2>4, UnitsGrow
  <2>6. UnitsOf(r) \in Int /\ Cardinality(KbsOf[Default]) \in Int
    BY <1>1, <2>1, Numbers, UnitsAreNat
  <2> QED BY <1>2, <1>4, <2>1, <2>5, <2>6
<1>6. FilesLoaded' = FilesLoaded BY <1>4 DEF FilesLoaded
<1>7. Cardinality(FilesLoaded') = Cardinality(FilesLoaded) + 0 BY <1>6, Numbers
<1>8. InLists' = InLists + 0 BY ListsSame, Numbers DEF Initialize, vdefVars, voiceVars
<1>9. Loses(c - c - 0, 0 - 0) BY <1>3, <1>4, <1>5, <1>7, <1>8, Ledger
<1> QED BY <1>3, <1>6, <1>9

-----------------------------------------------------------------------------
(* The calls. *)

\* Every step of main is a call of the system, or leaves it alone.
LEMMA StepIsCall == ASSUME StartInv, StartNext PROVE [Next]_vars
<1> USE DEF StartInv
<1>1. PICO_VOICE_NAME \in VoiceNames BY StartAssumption
<1>2. ASSUME NEW f \in Files, NEW r \in Handles \cup {NULL}, LoadFile(f, r) PROVE Next
  <2>1. Load BY <1>2 DEF LoadFile, Load
  <2> QED BY <2>1 DEF Next
<1>3. CASE InitializeSystem BY <1>3 DEF InitializeSystem, Next
<1>4. CASE LoadTa BY <1>2, <1>4, StartAssumption DEF LoadTa, Where
<1>5. CASE LoadSg BY <1>2, <1>5, StartAssumption DEF LoadSg, Where
<1>6. CASE DefineVoice
  <2>1. ASSUME NEW h, h \in HandlesHeld PROVE Name(h) \in Names
    BY <2>1, RsrcAssumption DEF HandlesKept, FilesLoaded, Name, IInv, RInv
  <2>2. ASSUME NEW h, h \in HandlesHeld, AddResourceToVoiceDefinition(PICO_VOICE_NAME, Name(h))
        PROVE  Next
    BY <1>1, <2>1, <2>2 DEF Definitions, Next
  <2>3. CASE pc = "create" /\ CreateVoiceDefinition(PICO_VOICE_NAME)
    BY <1>1, <2>3 DEF Definitions, Next
  <2>4. CASE pc = "addTa" /\ AddResourceToVoiceDefinition(PICO_VOICE_NAME, Name(picoTaResource))
    <3>1. picoTaResource \in HandlesHeld BY <2>4 DEF HandlesKept, HandlesHeld
    <3> QED BY <2>2, <2>4, <3>1
  <2>5. CASE pc = "addSg" /\ AddResourceToVoiceDefinition(PICO_VOICE_NAME, Name(picoSgResource))
    <3>1. picoSgResource \in HandlesHeld BY <2>5 DEF HandlesKept, HandlesHeld
    <3> QED BY <2>2, <2>5, <3>1
  <2> QED BY <1>6, <2>3, <2>4, <2>5 DEF DefineVoice
<1>7. CASE CreateEngine BY <1>1, <1>7 DEF CreateEngine, Next
<1>8. CASE LeaveEngine BY <1>1, <1>8 DEF LeaveEngine, Next, Definitions
<1>9. ASSUME NEW r, Unload(r), r = NULL \/ r \in HandlesHeld PROVE [Next]_vars
  BY <1>9 DEF Unload, Next, HandlesKept
<1>10. CASE UnloadSg BY <1>9, <1>10 DEF UnloadSg, HandlesHeld
<1>11. CASE UnloadTa BY <1>9, <1>11 DEF UnloadTa, HandlesHeld
<1>12. CASE Exit BY <1>12 DEF Exit, Next
<1>13. CASE GetNames \/ Synthesize BY <1>13 DEF GetNames, Synthesize
<1> QED BY <1>3, <1>4, <1>5, <1>6, <1>7, <1>8, <1>10, <1>11, <1>12, <1>13 DEF StartNext

\* A call that succeeds loses no memory.
LEMMA SuccessLosesNothing ==
  ASSUME IInv, IInv', up, up', [Next]_vars, status' = "OK", Lost = 0
  PROVE  Lost' = 0
<1>1. LosesKnown BY NextLosesKnown
<1>2. Stray \in Int BY Numbers
<1>3. CASE Loses(0, 0) BY <1>3 DEF Loses
<1>4. CASE Loses(0, 1) BY <1>4 DEF Loses
<1>5. "ILLEGAL" # "OK" /\ "FAILED" # "OK" OBVIOUS
<1> QED BY <1>1, <1>3, <1>4, <1>5 DEF LosesKnown

LEMMA LoadEffect ==
  ASSUME IInv, IInv', up, NEW f \in Files, NEW r \in Handles \cup {NULL}, LoadFile(f, r)
  PROVE  /\ up' = up /\ engine' = engine
         /\ r = NULL => FilesLoaded' = FilesLoaded
         /\ r # NULL => /\ r \notin Loaded /\ FilesLoaded' = FilesLoaded \cup {r}
                        /\ status' = "OK" /\ Loses(0, 0)
         /\ status' = "OK" /\ Lost = 0 => Lost' = 0
<1>1. CASE r \in Handles /\ LoadDone(r, f)
  <2>1. /\ r \notin Loaded /\ Loaded' = Loaded \cup {r} /\ rsrc'[r].file = f
        /\ \A x \in Loaded : rsrc'[x] = rsrc[x]
        /\ up' = up /\ engine' = engine /\ status' = "OK"
    BY <1>1 DEF LoadDone, Added, Loaded, voiceVars
  <2>2. f # Default BY RsrcAssumption
  <2>3. FilesLoaded' = FilesLoaded \cup {r} BY <2>1, <2>2 DEF FilesLoaded
  <2>4. Loses(0, 0) BY <1>1, LoadDoneLoses
  <2>5. Lost' = Lost BY <2>4, Numbers DEF Loses
  <2>6. r # NULL BY <1>1, RsrcAssumption
  <2> QED BY <2>1, <2>3, <2>4, <2>5, <2>6
<1>2. CASE r = NULL /\ ~ (r \in Handles /\ LoadDone(r, f))
  <2>1. LoadRefused \/ LoadBroken \/ LoadTwice(f)
          \/ \E n \in 0 .. Cardinality(KbsOf[f]) : LoadKbsFail(f, n)
    BY <1>2 DEF LoadFile
  <2>2. up' = up /\ engine' = engine /\ rsrc' = rsrc
    BY <2>1 DEF LoadRefused, LoadBroken, LoadTwice, LoadKbsFail, Answer, rsrcVars, voiceVars
  <2>3. FilesLoaded' = FilesLoaded BY <2>2 DEF FilesLoaded, Loaded
  <2>4. Next BY <2>1 DEF Load, Next
  <2>5. status' = "OK" /\ Lost = 0 => Lost' = 0 BY <2>2, <2>4, SuccessLosesNothing
  <2> QED BY <1>2, <2>2, <2>3, <2>5
<1> QED BY <1>1, <1>2 DEF LoadFile

\* The calls that define the voice and make the engine leave the resources loaded.
LEMMA VoiceEffect ==
  ASSUME IInv, IInv', up, NEW v,
         \/ CreateVoiceDefinition(v) \/ ReleaseVoiceDefinition(v)
         \/ \E n : AddResourceToVoiceDefinition(v, n)
         \/ NewEngineRefused(v) \/ NewEngineFails(v) \/ NewEngine(v)
         \/ DisposeEngine
  PROVE  up' = up /\ FilesLoaded' = FilesLoaded
<1>1. up' = up /\ Loaded' = Loaded
  BY DEF CreateVoiceDefinition, ReleaseVoiceDefinition, AddResourceToVoiceDefinition, Answer,
         NewEngineRefused, NewEngineFails, ReleaseAfterFailure, NewEngine, DisposeEngine,
         Locked, Unlocked, Loaded, rsrcVars
<1>2. \A h \in Loaded : rsrc[h] \in [file : Sources, lockCount : Int] BY DEF IInv, RInv
<1>3. CASE rsrc' = rsrc
  <2>1. \A h \in Loaded : rsrc'[h].file = rsrc[h].file BY <1>3
  <2> QED BY <1>1, <2>1 DEF FilesLoaded
<1>4. ASSUME NEW m, rsrc' = Locked(m) \/ rsrc' = Unlocked(m) PROVE FilesLoaded' = FilesLoaded
  <2>1. ASSUME NEW h \in Loaded PROVE rsrc'[h].file = rsrc[h].file
    BY <1>2, <1>4 DEF Locked, Unlocked
  <2> QED BY <1>1, <2>1 DEF FilesLoaded
<1>5. CASE NewEngine(v)
  <2>1. PICK m : m = engine' OBVIOUS
  <2>2. rsrc' = Locked(m) BY <1>5, <2>1 DEF NewEngine, Locked, Uses
  <2> QED BY <1>1, <1>4, <2>2
<1>6. CASE DisposeEngine
  <2>1. PICK m : m = engine OBVIOUS
  <2>2. rsrc' = Unlocked(m) BY <1>6, <2>1 DEF DisposeEngine, Unlocked, Uses
  <2> QED BY <1>1, <1>4, <2>2
<1>7. CASE ~NewEngine(v) /\ ~DisposeEngine
  <2>1. rsrc' = rsrc
    BY <1>7 DEF CreateVoiceDefinition, ReleaseVoiceDefinition, AddResourceToVoiceDefinition, Answer,
         NewEngineRefused, NewEngineFails, ReleaseAfterFailure, rsrcVars
  <2> QED BY <1>1, <1>3, <2>1
<1> QED BY <1>1, <1>5, <1>6, <1>7

\* Without an engine no resource is locked, and an unload is never BUSY.
LEMMA UnloadEffect ==
  ASSUME IInv, IInv', engine = NULL, NEW r \in Loaded, UnloadResource(r)
  PROVE  /\ up' = up /\ engine' = NULL
         /\ FilesLoaded' = FilesLoaded \ {r} /\ Loses(0, 0)
<1>1. rsrc[r].lockCount = 0 BY DEF IInv, VInv, LockCounts
<1>2. MayUnload(r) BY <1>1 DEF MayUnload
<1>3. rsrc' = [x \in Loaded \ {r} |-> rsrc[x]] /\ up' = up /\ engine' = engine
  BY <1>2 DEF UnloadResource, Remaining, voiceVars
<1>4. FilesLoaded' = FilesLoaded \ {r} BY <1>3 DEF FilesLoaded, Loaded
<1>5. r \in Handles BY DEF IInv, RInv
<1>6. Loses(0, 0) BY <1>5, UnloadLoses
<1> QED BY <1>3, <1>4, <1>6

-----------------------------------------------------------------------------
(* The steps of main. *)

LEMMA InitializeSystemKeeps == ASSUME StartInv, IInv', InitializeSystem PROVE StartInv'
<1> USE DEF StartInv
<1>1. CASE \E h \in Handles : Initialize(h) /\ pc' = "loadTa" /\ UNCHANGED ret
  <2>1. PICK h \in Handles : Initialize(h) BY <1>1
  <2>2. Loses(0, 0) /\ FilesLoaded' = FilesLoaded BY <2>1, InitializeLoses
  <2>3. up' /\ engine' = engine /\ pc' = "loadTa" /\ pc = "initialize"
        /\ UNCHANGED <<ret, langIndex, picoTaResource, picoSgResource>>
    BY <1>1, <2>1 DEF Initialize, voiceVars, InitializeSystem
  <2>4. Where' BY <2>3 DEF Where, Build, Ladder
  <2>5. HandlesKept' BY <2>2, <2>3 DEF HandlesKept, HandlesHeld
  <2>6. Clean' BY <2>2, <2>3, Numbers DEF Clean, Where, Build, Loses
  <2> QED BY <2>4, <2>5, <2>6
<1>2. CASE pc' = "terminate" /\ ret' = 1 /\ UNCHANGED vars
  <2>1. /\ up' = up /\ engine' = engine /\ pc = "initialize"
        /\ FilesLoaded' = FilesLoaded
        /\ UNCHANGED <<langIndex, picoTaResource, picoSgResource>>
    BY <1>2 DEF vars, voiceVars, rsrcVars, InitializeSystem, FilesLoaded, Loaded
  <2>2. Where' BY <1>2, <2>1 DEF Where, Build, Ladder, IInv
  <2>3. HandlesKept' BY <1>2, <2>1 DEF HandlesKept, HandlesHeld
  <2>4. Clean' BY <1>2 DEF Clean
  <2> QED BY <2>2, <2>3, <2>4
<1> QED BY <1>1, <1>2 DEF InitializeSystem

LEMMA LoadTaKeeps == ASSUME StartInv, IInv', LoadTa PROVE StartInv'
<1> USE DEF StartInv
<1>1. PICK f : f = TaFile[langIndex] OBVIOUS
<1>2. f \in Files /\ up BY <1>1, StartAssumption DEF LoadTa, Where, Build
<1>3. PICK r \in Handles \cup {NULL} : LoadFile(f, r) /\ picoTaResource' = r
  BY <1>1 DEF LoadTa
<1>4. /\ up' = up /\ engine' = engine
      /\ r = NULL => FilesLoaded' = FilesLoaded
      /\ r # NULL => /\ r \notin Loaded /\ FilesLoaded' = FilesLoaded \cup {r}
                     /\ status' = "OK" /\ Loses(0, 0)
      /\ status' = "OK" /\ Lost = 0 => Lost' = 0
  BY <1>2, <1>3, LoadEffect
<1>5. /\ pc = "loadTa" /\ UNCHANGED <<langIndex, picoSgResource>>
      /\ \/ status' = "OK" /\ pc' = "loadSg" /\ ret' = ret
         \/ status' # "OK" /\ pc' = "unloadTa" /\ ret' = 1
  BY DEF LoadTa, GoOn, Label
<1>6. Where' BY <1>2, <1>4, <1>5 DEF Where, Build, Ladder
<1>7. HandlesKept'
  <2>1. picoSgResource = NULL /\ picoTaResource = NULL /\ FilesLoaded = {}
    BY <1>5 DEF HandlesKept, HandlesHeld
  <2>2. FilesLoaded' = {r} \ {NULL} BY <1>4, <2>1
  <2>3. HandlesHeld' = {r} \ {NULL} BY <1>3, <1>5, <2>1 DEF HandlesHeld
  <2> QED BY <1>3, <1>5, <2>1, <2>2, <2>3 DEF HandlesKept
<1>8. Clean'
  <2>1. CASE status' = "OK"
    <3>1. ret = 0 /\ Lost = 0 /\ Stray = 0 /\ Stray \in Int /\ ret' = 0
      BY <1>5, <2>1, Numbers DEF Clean, Where, Build
    <3>2. r # NULL => Stray' = 0 BY <1>4, <3>1 DEF Loses
    <3> QED BY <1>3, <1>4, <1>5, <2>1, <3>1, <3>2 DEF Clean
  <2>2. CASE status' # "OK" BY <1>5, <2>2 DEF Clean
  <2> QED BY <2>1, <2>2
<1> QED BY <1>6, <1>7, <1>8

LEMMA LoadSgKeeps == ASSUME StartInv, IInv', LoadSg PROVE StartInv'
<1> USE DEF StartInv
<1>1. PICK f : f = SgFile[langIndex] OBVIOUS
<1>2. f \in Files /\ up BY <1>1, StartAssumption DEF LoadSg, Where, Build
<1>3. PICK r \in Handles \cup {NULL} : LoadFile(f, r) /\ picoSgResource' = r
  BY <1>1 DEF LoadSg
<1>4. /\ up' = up /\ engine' = engine
      /\ r = NULL => FilesLoaded' = FilesLoaded
      /\ r # NULL => /\ r \notin Loaded /\ FilesLoaded' = FilesLoaded \cup {r}
                     /\ status' = "OK" /\ Loses(0, 0)
      /\ status' = "OK" /\ Lost = 0 => Lost' = 0
  BY <1>2, <1>3, LoadEffect
<1>5. /\ pc = "loadSg" /\ UNCHANGED <<langIndex, picoTaResource>>
      /\ \/ status' = "OK" /\ pc' = "names" /\ ret' = ret
         \/ status' # "OK" /\ pc' = "unloadSg" /\ ret' = 1
  BY DEF LoadSg, GoOn, Label
<1>6. Where' BY <1>2, <1>4, <1>5 DEF Where, Build, Ladder
<1>7. HandlesKept'
  <2>1. picoSgResource = NULL /\ FilesLoaded = {picoTaResource} \ {NULL}
    BY <1>5 DEF HandlesKept, HandlesHeld
  <2>2. FilesLoaded' = {picoTaResource, r} \ {NULL} BY <1>4, <2>1
  <2>3. HandlesHeld' = {picoTaResource, r} \ {NULL} BY <1>3, <1>5 DEF HandlesHeld
  <2>4. r # NULL => r # picoTaResource BY <1>4, <2>1 DEF FilesLoaded
  <2>5. HandlesHeld' \subseteq Handles BY <1>3, <2>3 DEF HandlesKept, HandlesHeld
  <2> QED BY <1>3, <1>5, <2>2, <2>3, <2>4, <2>5 DEF HandlesKept
<1>8. Clean'
  <2>1. CASE status' = "OK"
    <3>1. /\ ret = 0 /\ Lost = 0 /\ Stray \in Int /\ ret' = 0
          /\ Stray = 0 \/ picoTaResource = NULL
      BY <1>5, <2>1, Numbers DEF Clean, Where, Build
    <3>2. r # NULL => Stray' = Stray BY <1>4, <3>1 DEF Loses
    <3> QED BY <1>3, <1>4, <1>5, <2>1, <3>1, <3>2 DEF Clean
  <2>2. CASE status' # "OK" BY <1>5, <2>2 DEF Clean
  <2> QED BY <2>1, <2>2
<1> QED BY <1>6, <1>7, <1>8

LEMMA GetNamesKeeps == ASSUME StartInv, IInv', GetNames PROVE StartInv'
<1> USE DEF StartInv
<1>1. /\ pc = "names" /\ UNCHANGED <<langIndex, picoTaResource, picoSgResource>>
      /\ \/ NULL \in {picoTaResource, picoSgResource} /\ pc' = "unloadSg" /\ ret' = 1
         \/ NULL \notin {picoTaResource, picoSgResource} /\ pc' = "create" /\ ret' = ret
  BY DEF GetNames, Label
<1>2. up' = up /\ engine' = engine /\ rsrc' = rsrc /\ used' = used /\ openFiles' = openFiles
      /\ UNCHANGED <<vdefs, freeVdefs, freeVoices>>
  BY DEF GetNames, vars, rsrcVars, vdefVars, voiceVars
<1>3. FilesLoaded' = FilesLoaded BY <1>2 DEF FilesLoaded, Loaded
<1>4. Lost' = Lost /\ Stray' = Stray BY <1>2, <1>3, ListsSame DEF Lost, Held, Stray
<1>5. Where' BY <1>1, <1>2 DEF Where, Build, Ladder
<1>6. HandlesKept' BY <1>1, <1>3 DEF HandlesKept, HandlesHeld
<1>7. Clean' BY <1>1, <1>4 DEF Clean
<1> QED BY <1>5, <1>6, <1>7

\* A call of the building part that loads nothing, at c, with n after it and l on a failure.
LEMMA VoiceCallKeeps ==
  ASSUME StartInv, IInv', up, [Next]_vars, NEW n, NEW l,
         up' = up, FilesLoaded' = FilesLoaded,
         pc \in {"create", "addTa", "addSg", "newEngine"},
         \/ status' = "OK" /\ pc' = n /\ ret' = ret
         \/ status' # "OK" /\ pc' = l /\ ret' = 1,
         n \in {"addTa", "addSg", "newEngine", "synthesis"}, l \in {"unloadSg", "disposeEngine"},
         engine' = NULL \/ (n = "synthesis" /\ l = "disposeEngine"),
         status' = "OK" => Stray' = Stray,
         UNCHANGED <<langIndex, picoTaResource, picoSgResource>>
  PROVE  StartInv'
<1> USE DEF StartInv
<1>1. Where' BY DEF Where, Build, Ladder
<1>2. HandlesKept' BY DEF HandlesKept, HandlesHeld
<1>3. Clean'
  <2>1. CASE status' = "OK"
    <3>1. ret = 0 /\ Lost = 0 /\ Stray = 0 BY DEF Clean, Where, Build
    <3>2. Lost' = 0 BY <2>1, <3>1, SuccessLosesNothing
    <3> QED BY <2>1, <3>1, <3>2 DEF Clean
  <2>2. CASE status' # "OK" BY <2>2 DEF Clean
  <2> QED BY <2>1, <2>2
<1> QED BY <1>1, <1>2, <1>3

LEMMA DefineVoiceKeeps == ASSUME StartInv, IInv', DefineVoice PROVE StartInv'
<1> USE DEF StartInv
<1>1. [Next]_vars BY StepIsCall DEF StartNext
<1>2. PICK v : v = PICO_VOICE_NAME OBVIOUS
<1>3. v \in VoiceNames BY <1>2, StartAssumption
<1>4. up /\ engine = NULL BY DEF DefineVoice, Where, Build
<1>5. UNCHANGED <<langIndex, picoTaResource, picoSgResource>> BY DEF DefineVoice
<1>6. ASSUME NEW n, n \in {"addTa", "addSg", "newEngine"}, engine' = engine,
             up' = up /\ FilesLoaded' = FilesLoaded,
             pc \in {"create", "addTa", "addSg"},
             IF status' = "OK" THEN pc' = n /\ UNCHANGED ret ELSE pc' = "unloadSg" /\ ret' = 1,
             status' = "OK" => Loses(0, 0)
      PROVE  StartInv'
  <2>1. status' = "OK" => Stray' = Stray BY <1>6, Numbers DEF Loses
  <2>2. PICK l : l = "unloadSg" OBVIOUS
  <2>3. \/ status' = "OK" /\ pc' = n /\ ret' = ret
        \/ status' # "OK" /\ pc' = l /\ ret' = 1
    BY <1>6, <2>2
  <2>4. engine' = NULL BY <1>4, <1>6
  <2> QED BY <1>1, <1>4, <1>5, <1>6, <2>1, <2>2, <2>3, <2>4, VoiceCallKeeps
<1>7. CASE pc = "create" /\ CreateVoiceDefinition(v) /\ GoOn("create", "addTa")
  <2>1. up' = up /\ FilesLoaded' = FilesLoaded BY <1>4, <1>7, VoiceEffect
  <2>2. engine' = engine BY <1>7 DEF CreateVoiceDefinition, Answer, voiceVars
  <2>3. Loses(0, 0) \/ (Loses(1, 0) /\ status' = "ILLEGAL")
    BY <1>3, <1>7, CreateVoiceDefinitionLoses
  <2>4. status' = "OK" => Loses(0, 0) BY <2>3
  <2> QED BY <1>6, <1>7, <2>1, <2>2, <2>4 DEF GoOn, Label
<1>8. ASSUME NEW m, AddResourceToVoiceDefinition(v, m)
      PROVE  up' = up /\ FilesLoaded' = FilesLoaded /\ engine' = engine /\ Loses(0, 0)
  <2>1. up' = up /\ FilesLoaded' = FilesLoaded BY <1>4, <1>8, VoiceEffect
  <2>2. engine' = engine BY <1>8 DEF AddResourceToVoiceDefinition, Answer, voiceVars
  <2>3. Loses(0, 0) BY <1>8, AddResourceLoses
  <2> QED BY <2>1, <2>2, <2>3
<1>9. CASE /\ pc = "addTa" /\ AddResourceToVoiceDefinition(v, Name(picoTaResource))
           /\ GoOn("addTa", "addSg")
  BY <1>6, <1>8, <1>9 DEF GoOn, Label
<1>10. CASE /\ pc = "addSg" /\ AddResourceToVoiceDefinition(v, Name(picoSgResource))
            /\ GoOn("addSg", "newEngine")
  BY <1>6, <1>8, <1>10 DEF GoOn, Label
<1> QED BY <1>2, <1>7, <1>9, <1>10 DEF DefineVoice

LEMMA CreateEngineKeeps == ASSUME StartInv, IInv', CreateEngine PROVE StartInv'
<1> USE DEF StartInv
<1>1. [Next]_vars BY StepIsCall DEF StartNext
<1>2. PICK v : v = PICO_VOICE_NAME OBVIOUS
<1>3. up /\ pc = "newEngine" BY DEF CreateEngine, Where, Build
<1>4. NewEngineRefused(v) \/ NewEngineFails(v) \/ NewEngine(v) BY <1>2 DEF CreateEngine
<1>5. up' = up /\ FilesLoaded' = FilesLoaded BY <1>3, <1>4, VoiceEffect
<1>6. Loses(0, 0) BY <1>4, EngineLoses
<1>7. Stray' = Stray BY <1>6, Numbers DEF Loses
<1>8. \/ status' = "OK" /\ pc' = "synthesis" /\ ret' = ret
      \/ status' # "OK" /\ pc' = "disposeEngine" /\ ret' = 1
  BY DEF CreateEngine, GoOn, Label
<1>9. UNCHANGED <<langIndex, picoTaResource, picoSgResource>> BY DEF CreateEngine
<1>10. PICK n, l : n = "synthesis" /\ l = "disposeEngine" OBVIOUS
<1>11. \/ status' = "OK" /\ pc' = n /\ ret' = ret
       \/ status' # "OK" /\ pc' = l /\ ret' = 1
  BY <1>8, <1>10
<1> QED BY <1>1, <1>3, <1>5, <1>7, <1>9, <1>10, <1>11, VoiceCallKeeps

LEMMA SynthesizeKeeps == ASSUME StartInv, IInv', Synthesize PROVE StartInv'
<1> USE DEF StartInv
<1>1. /\ pc = "synthesis" /\ pc' = "disposeEngine"
      /\ UNCHANGED <<langIndex, picoTaResource, picoSgResource>>
  BY DEF Synthesize
<1>2. up' = up /\ engine' = engine /\ rsrc' = rsrc /\ used' = used /\ openFiles' = openFiles
      /\ UNCHANGED <<vdefs, freeVdefs, freeVoices>>
  BY DEF Synthesize, vars, rsrcVars, vdefVars, voiceVars
<1>3. FilesLoaded' = FilesLoaded BY <1>2 DEF FilesLoaded, Loaded
<1>4. Lost' = Lost /\ Stray' = Stray BY <1>2, <1>3, ListsSame DEF Lost, Held, Stray
<1>5. Where' BY <1>1, <1>2 DEF Where, Build, Ladder
<1>6. HandlesKept' BY <1>1, <1>3 DEF HandlesKept, HandlesHeld
<1>7. ret = 0 BY <1>1 DEF Where, Build
<1>8. Clean' BY <1>1, <1>4, <1>7 DEF Clean
<1> QED BY <1>5, <1>6, <1>8

\* A step of the ladder that loses nothing.
LEMMA LadderKeeps ==
  ASSUME StartInv, IInv', up' = up, ret' = ret, langIndex' = langIndex, engine' = NULL,
         pc \in Ladder, pc' \in {"releaseVoice", "unloadSg", "unloadTa", "terminate"},
         up, Loses(0, 0), HandlesKept'
  PROVE  StartInv'
<1> USE DEF StartInv
<1>1. Where' BY DEF Where, Build, Ladder
<1>2. Lost' = Lost /\ Stray' = Stray BY Numbers DEF Loses
<1>3. Clean' BY <1>2 DEF Clean, Ladder
<1> QED BY <1>1, <1>3

LEMMA StillLosesNothing == ASSUME IInv, UNCHANGED vars PROVE Loses(0, 0) /\ FilesLoaded' = FilesLoaded
<1>1. rsrc' = rsrc /\ used' = used /\ openFiles' = openFiles
      /\ UNCHANGED <<vdefs, freeVdefs, freeVoices, engine>>
  BY DEF vars, rsrcVars, vdefVars, voiceVars
<1>2. FilesLoaded' = FilesLoaded BY <1>1 DEF FilesLoaded, Loaded
<1>3. Lost' = Lost /\ Stray' = Stray BY <1>1, <1>2, ListsSame DEF Lost, Held, Stray
<1> QED BY <1>2, <1>3, Numbers DEF Loses

LEMMA LeaveEngineKeeps == ASSUME StartInv, IInv', LeaveEngine PROVE StartInv'
<1> USE DEF StartInv
<1>1. ret' = ret /\ langIndex' = langIndex /\ UNCHANGED <<picoTaResource, picoSgResource>>
  BY DEF LeaveEngine, mainVars
<1>2. up /\ pc \in Ladder BY DEF LeaveEngine, Where, Build, Ladder
<1>3. ASSUME FilesLoaded' = FilesLoaded, pc \in {"disposeEngine", "releaseVoice"},
             pc' \in {"releaseVoice", "unloadSg"}
      PROVE  HandlesKept'
  BY <1>1, <1>3 DEF HandlesKept, HandlesHeld
<1>4. CASE pc = "disposeEngine" /\ DisposeEngine /\ pc' = "releaseVoice"
  <2>1. up' = up /\ FilesLoaded' = FilesLoaded
    <3>1. PICK v : v = PICO_VOICE_NAME OBVIOUS
    <3> QED BY <1>2, <1>4, VoiceEffect
  <2>2. engine' = NULL BY <1>4 DEF DisposeEngine
  <2>3. Loses(0, 0) BY <1>4, DisposeEngineLoses
  <2> QED BY <1>1, <1>2, <1>3, <1>4, <2>1, <2>2, <2>3, LadderKeeps
<1>5. CASE pc = "disposeEngine" /\ engine = NULL /\ pc' = "unloadSg" /\ UNCHANGED vars
  <2>1. Loses(0, 0) /\ FilesLoaded' = FilesLoaded BY <1>5, StillLosesNothing
  <2>2. up' = up /\ engine' = NULL BY <1>5 DEF vars, voiceVars
  <2> QED BY <1>1, <1>2, <1>3, <1>5, <2>1, <2>2, LadderKeeps
<1>6. CASE pc = "releaseVoice" /\ ReleaseVoiceDefinition(PICO_VOICE_NAME) /\ pc' = "unloadSg"
  <2>1. PICK v : v = PICO_VOICE_NAME OBVIOUS
  <2>2. ReleaseVoiceDefinition(v) BY <1>6, <2>1
  <2>3. up' = up /\ FilesLoaded' = FilesLoaded BY <1>2, <2>2, VoiceEffect
  <2>4. engine' = NULL
    BY <1>6, <2>2 DEF ReleaseVoiceDefinition, Answer, voiceVars, Where
  <2>5. Loses(0, 0) BY <2>2, ReleaseVoiceDefinitionLoses
  <2> QED BY <1>1, <1>2, <1>3, <1>6, <2>3, <2>4, <2>5, LadderKeeps
<1> QED BY <1>4, <1>5, <1>6 DEF LeaveEngine

LEMMA UnloadStep ==
  ASSUME IInv, IInv', up, engine = NULL, NEW r, r = NULL \/ r \in FilesLoaded, Unload(r)
  PROVE  up' = up /\ engine' = NULL /\ FilesLoaded' = FilesLoaded \ {r} /\ Loses(0, 0)
<1>1. NULL \notin FilesLoaded BY RsrcAssumption DEF FilesLoaded, IInv, RInv
<1>2. CASE r = NULL
  <2>1. UNCHANGED vars BY <1>2 DEF Unload
  <2>2. Loses(0, 0) /\ FilesLoaded' = FilesLoaded BY <2>1, StillLosesNothing
  <2> QED BY <1>1, <1>2, <2>1, <2>2 DEF vars, voiceVars
<1>3. CASE r # NULL
  <2>1. r \in Loaded /\ UnloadResource(r) BY <1>3 DEF Unload, FilesLoaded
  <2> QED BY <2>1, UnloadEffect
<1> QED BY <1>2, <1>3

LEMMA UnloadsKeep == ASSUME StartInv, IInv', UnloadSg \/ UnloadTa PROVE StartInv'
<1> USE DEF StartInv
<1>1. up /\ engine = NULL /\ pc \in Ladder BY DEF UnloadSg, UnloadTa, Where, Build, Ladder
<1>2. FilesLoaded = HandlesHeld BY DEF HandlesKept
<1>3. CASE UnloadSg
  <2>1. PICK r : r = picoSgResource OBVIOUS
  <2>2. r = NULL \/ r \in FilesLoaded BY <1>2, <2>1 DEF HandlesHeld
  <2>3. /\ Unload(r) /\ picoSgResource' = NULL /\ pc = "unloadSg" /\ pc' = "unloadTa"
        /\ UNCHANGED <<ret, langIndex, picoTaResource>>
    BY <1>3, <2>1 DEF UnloadSg
  <2>4. up' = up /\ engine' = NULL /\ FilesLoaded' = FilesLoaded \ {r} /\ Loses(0, 0)
    BY <1>1, <2>2, <2>3, UnloadStep
  <2>5. HandlesKept' BY <2>1, <2>3, <2>4 DEF HandlesKept, HandlesHeld
  <2> QED BY <1>1, <2>3, <2>4, <2>5, LadderKeeps
<1>4. CASE UnloadTa
  <2>1. PICK r : r = picoTaResource OBVIOUS
  <2>2. r = NULL \/ r \in FilesLoaded BY <1>2, <2>1 DEF HandlesHeld
  <2>3. /\ Unload(r) /\ picoTaResource' = NULL /\ pc = "unloadTa" /\ pc' = "terminate"
        /\ UNCHANGED <<ret, langIndex, picoSgResource>>
    BY <1>4, <2>1 DEF UnloadTa
  <2>4. up' = up /\ engine' = NULL /\ FilesLoaded' = FilesLoaded \ {r} /\ Loses(0, 0)
    BY <1>1, <2>2, <2>3, UnloadStep
  <2>5. HandlesKept' BY <2>1, <2>3, <2>4 DEF HandlesKept, HandlesHeld
  <2> QED BY <1>1, <2>3, <2>4, <2>5, LadderKeeps
<1> QED BY <1>3, <1>4

LEMMA ExitKeeps == ASSUME StartInv, IInv', Exit PROVE StartInv'
<1> USE DEF StartInv
<1>1. pc = "terminate" /\ pc' = "exit" /\ UNCHANGED mainVars BY DEF Exit
<1>2. picoTaResource' = NULL /\ picoSgResource' = NULL /\ FilesLoaded = {}
      /\ UNCHANGED <<ret, langIndex>>
  BY <1>1 DEF HandlesKept, HandlesHeld, mainVars
<1>3. engine' = NULL /\ FilesLoaded' = {}
  <2>1. engine = NULL BY <1>1 DEF Where
  <2>2. CASE Terminate BY <2>2 DEF Terminate, FilesLoaded, Loaded
  <2>3. CASE UNCHANGED vars
    BY <1>2, <2>1, <2>3, StillLosesNothing DEF vars, voiceVars
  <2> QED BY <2>2, <2>3 DEF Exit
<1>4. Where' BY <1>1, <1>2, <1>3 DEF Where, Build, Ladder
<1>5. HandlesKept' BY <1>1, <1>2, <1>3 DEF HandlesKept, HandlesHeld
<1>6. Clean' BY <1>1 DEF Clean
<1> QED BY <1>4, <1>5, <1>6

LEMMA StartNextInvariant == StartInv /\ [StartNext]_startVars => StartInv'
<1> SUFFICES ASSUME StartInv, [StartNext]_startVars PROVE StartInv' OBVIOUS
<1>1. CASE StartNext
  <2>1. IInv' BY <1>1, StepIsCall, NextInvariant DEF StartInv
  <2> QED BY <1>1, <2>1, InitializeSystemKeeps, LoadTaKeeps, LoadSgKeeps, GetNamesKeeps,
             DefineVoiceKeeps, CreateEngineKeeps, SynthesizeKeeps, LeaveEngineKeeps,
             UnloadsKeep, ExitKeeps DEF StartNext
<1>2. CASE UNCHANGED startVars
  <2>1. UNCHANGED vars /\ pc' = pc /\ UNCHANGED <<ret, langIndex, picoTaResource, picoSgResource>>
    BY <1>2 DEF startVars, mainVars
  <2>2. IInv' BY <2>1, NextInvariant DEF StartInv
  <2>3. up' = up /\ engine' = engine BY <2>1 DEF vars, voiceVars
  <2>4. Loses(0, 0) /\ FilesLoaded' = FilesLoaded BY <2>1, StillLosesNothing DEF StartInv
  <2>5. Lost' = Lost /\ Stray' = Stray BY <2>4, Numbers DEF Loses, StartInv
  <2>6. Where' BY <2>1, <2>3 DEF Where, StartInv
  <2>7. HandlesKept' BY <2>1, <2>4 DEF HandlesKept, HandlesHeld, StartInv
  <2>8. Clean' BY <2>1, <2>5 DEF Clean, StartInv
  <2> QED BY <2>2, <2>6, <2>7, <2>8 DEF StartInv
<1> QED BY <1>1, <1>2

-----------------------------------------------------------------------------
(* Theorems. *)

THEOREM StartInvariant == StartSpec => []StartInv
BY StartInitInvariant, StartNextInvariant, PTL DEF StartSpec

\* Whatever call of main fails, the ladder ends without an engine and with both resources
\* unloaded; no unload is refused because of a lock.
THEOREM LadderTakesDown == StartSpec => []EndsClean
<1>1. StartInv => EndsClean
  BY DEF StartInv, Where, HandlesKept, HandlesHeld, EndsClean
<1> QED BY <1>1, StartInvariant, PTL

\* An exit status of zero means that no file is left open and no memory lost.
THEOREM SuccessLeavesNothing == StartSpec => []SuccessIsClean
<1>1. StartInv => SuccessIsClean
  <2> SUFFICES ASSUME StartInv, pc = "terminate", ret = 0 PROVE openFiles = 0 /\ Lost = 0
    BY DEF SuccessIsClean
  <2>1. FilesLoaded = {} BY DEF StartInv, HandlesKept, HandlesHeld
  <2>2. Lost = 0 /\ Stray = 0 BY DEF StartInv, Clean
  <2>3. Cardinality(FilesLoaded) = 0 BY <2>1, FS_EmptySet
  <2>4. openFiles \in Int BY Numbers DEF StartInv
  <2> QED BY <2>2, <2>3, <2>4 DEF Stray
<1> QED BY <1>1, StartInvariant, PTL

\* What main relies on when it leaves.
THEOREM StartIsSound == StartSpec => []StartSound
<1>1. EndsClean /\ SuccessIsClean => StartSound BY DEF StartSound
<1> QED BY <1>1, LadderTakesDown, SuccessLeavesNothing, PTL
=============================================================================

------------------------- MODULE InterpreterProofs -------------------------
(***************************************************************************)
(* What holds of the interpreter's tables for every set of names, terms    *)
(* and functions and any number of levels.  The names, the definitions and *)
(* the solver's frames are three stacks that different code pushes and     *)
(* pops; the proofs show that each stays well formed whatever a script     *)
(* does, and that they count the same levels and forget the same things;   *)
(* for names, until :global-declarations is changed while a level is open. *)
(***************************************************************************)
EXTENDS Interpreter, TLAPS, SequenceTheorems, FiniteSetTheorems

-----------------------------------------------------------------------------
(***************************************************************************)
(* ScopedVector                                                            *)
(***************************************************************************)

LEMMA EmptyScopedNested ==
  ASSUME NEW S
  PROVE  Scoped(S, EmptyScoped) /\ Nested(EmptyScoped)
BY EmptySeq DEF Scoped, EmptyScoped, Nested

\* Nested, over the range of the limits.
LEMMA NestedLimits ==
  ASSUME NEW S, NEW v, Scoped(S, v)
  PROVE  /\ Len(v.elements) \in Nat /\ Len(v.limits) \in Nat
         /\ \A i \in 1..Len(v.limits) : v.limits[i] \in Nat
         /\ Nested(v) <=>
              /\ \A i \in 1..Len(v.limits) : v.limits[i] <= Len(v.elements)
              /\ \A i, j \in 1..Len(v.limits) : i <= j => v.limits[i] <= v.limits[j]
<1>1. v.elements \in Seq(S) /\ v.limits \in Seq(Nat)
  BY DEF Scoped
<1>2. DOMAIN v.limits = 1..Len(v.limits)
  BY <1>1, LenProperties
<1> QED
  BY <1>1, <1>2, LenProperties, ElementOfSeq DEF Nested

\* Opening a scope keeps the elements and adds their number to the limits.
LEMMA PushScopeNested ==
  ASSUME NEW S, NEW v, Scoped(S, v), Nested(v)
  PROVE  /\ Scoped(S, PushScope(v)) /\ Nested(PushScope(v))
         /\ PushScope(v).elements = v.elements
         /\ PushScope(v).limits = Append(v.limits, Len(v.elements))
         /\ Len(PushScope(v).limits) = Len(v.limits) + 1
<1> DEFINE w == PushScope(v)
<1>1. v.elements \in Seq(S) /\ v.limits \in Seq(Nat) /\ Len(v.elements) \in Nat
  BY LenProperties DEF Scoped
<1>2. w = [elements |-> v.elements, limits |-> Append(v.limits, Len(v.elements))]
  BY DEF PushScope, Scoped
<1>3. /\ w.limits \in Seq(Nat) /\ Len(w.limits) = Len(v.limits) + 1
      /\ \A i \in 1..Len(v.limits) : w.limits[i] = v.limits[i]
      /\ w.limits[Len(v.limits) + 1] = Len(v.elements)
  BY <1>1, <1>2, AppendProperties
<1>4. Nested(w)
  BY SMTT(30), <1>1, <1>2, <1>3, LenProperties DEF Nested
<1> QED
  BY <1>1, <1>2, <1>3, <1>4 DEF Scoped

\* Closing one keeps the elements below its limit and the other limits.
LEMMA PopScopeNested ==
  ASSUME NEW S, NEW v, Scoped(S, v), Nested(v), v.limits # <<>>
  PROVE  /\ LastLimit(v) \in 0..Len(v.elements)
         /\ Len(v.limits) \in Nat \ {0}
         /\ Scoped(S, PopScope(v)) /\ Nested(PopScope(v))
         /\ Len(PopScope(v).elements) = LastLimit(v)
         /\ Len(v.elements) \in Nat /\ DOMAIN v.elements = 1..Len(v.elements)
         /\ DOMAIN PopScope(v).elements = 1..LastLimit(v)
         /\ \A i \in 1..LastLimit(v) : PopScope(v).elements[i] = v.elements[i]
         /\ Len(PopScope(v).limits) = Len(v.limits) - 1
         /\ \A i \in 1..(Len(v.limits) - 1) : PopScope(v).limits[i] = v.limits[i]
<1> DEFINE w == PopScope(v)
           L == Len(v.limits)
           K == LastLimit(v)
<1>1. v.elements \in Seq(S) /\ v.limits \in Seq(Nat)
  BY DEF Scoped
<1>2. L \in Nat \ {0} /\ DOMAIN v.limits = 1..L
  BY <1>1, EmptySeq, LenProperties
<1>3. K \in 0..Len(v.elements)
  BY <1>1, <1>2, ElementOfSeq, LenProperties DEF LastLimit, Nested
<1>4. w = [elements |-> SubSeq(v.elements, 1, K), limits |-> SubSeq(v.limits, 1, L - 1)]
  BY DEF PopScope
<1>5. /\ w.elements \in Seq(S) /\ Len(w.elements) = K
      /\ \A i \in 1..K : w.elements[i] = v.elements[i]
  <2>1. \A i \in 1..K : v.elements[i] \in S
    BY <1>1, <1>3, ElementOfSeq, LenProperties
  <2>2. /\ SubSeq(v.elements, 1, K) \in Seq(S)
        /\ Len(SubSeq(v.elements, 1, K)) = IF 1 <= K THEN K - 1 + 1 ELSE 0
        /\ \A i \in 1..(K - 1 + 1) : SubSeq(v.elements, 1, K)[i] = v.elements[1 + i - 1]
    BY <2>1, <1>3, SubSeqProperties
  <2> QED
    BY <2>2, <1>3, <1>4
<1>6. /\ w.limits \in Seq(Nat) /\ Len(w.limits) = L - 1
      /\ \A i \in 1..(L - 1) : w.limits[i] = v.limits[i]
  <2>1. \A i \in 1..(L - 1) : i \in 1..L /\ v.limits[i] \in Nat
    BY <1>1, <1>2, ElementOfSeq
  <2>2. /\ SubSeq(v.limits, 1, L - 1) \in Seq(Nat)
        /\ Len(SubSeq(v.limits, 1, L - 1)) = IF 1 <= L - 1 THEN L - 1 - 1 + 1 ELSE 0
        /\ \A i \in 1..(L - 1 - 1 + 1) :
              SubSeq(v.limits, 1, L - 1)[i] = v.limits[1 + i - 1]
    BY <2>1, <1>2, SubSeqProperties
  <2> QED
    BY <2>2, <1>2, <1>4
<1>7. Scoped(S, w)
  BY <1>4, <1>5, <1>6 DEF Scoped
<1>8. Nested(w)
  <2>1. \A i, j \in 1..L : i <= j => v.limits[i] <= v.limits[j]
    BY NestedLimits
  <2>2. \A i \in 1..(L - 1) : i \in 1..L /\ L \in 1..L /\ i <= L
    BY <1>2
  <2>3. \A i \in 1..(L - 1) : v.limits[i] <= K
    BY <2>1, <2>2 DEF LastLimit
  <2> QED
    BY <2>1, <2>2, <2>3, <1>5, <1>6, <1>7, NestedLimits
<1>9. /\ Len(v.elements) \in Nat /\ DOMAIN v.elements = 1..Len(v.elements)
      /\ DOMAIN w.elements = 1..K
  BY <1>1, <1>5, LenProperties
<1> QED
  BY <1>2, <1>3, <1>5, <1>6, <1>7, <1>8, <1>9

\* A new element goes to the innermost scope.
LEMMA PushElementNested ==
  ASSUME NEW S, NEW v, Scoped(S, v), Nested(v), NEW e \in S
  PROVE  /\ Scoped(S, PushElement(v, e)) /\ Nested(PushElement(v, e))
         /\ PushElement(v, e).limits = v.limits
         /\ PushElement(v, e).elements = Append(v.elements, e)
         /\ Len(PushElement(v, e).elements) = Len(v.elements) + 1
         /\ \A i \in 1..Len(v.elements) : PushElement(v, e).elements[i] = v.elements[i]
         /\ PushElement(v, e).elements[Len(v.elements) + 1] = e
<1>1. v.elements \in Seq(S) /\ v.limits \in Seq(Nat) /\ Len(v.elements) \in Nat
  BY LenProperties DEF Scoped
<1>2. PushElement(v, e) = [elements |-> Append(v.elements, e), limits |-> v.limits]
  BY DEF PushElement, Scoped
<1>3. /\ Append(v.elements, e) \in Seq(S) /\ Len(Append(v.elements, e)) = Len(v.elements) + 1
      /\ \A i \in 1..Len(v.elements) : Append(v.elements, e)[i] = v.elements[i]
      /\ Append(v.elements, e)[Len(v.elements) + 1] = e
  BY <1>1, AppendProperties
<1>4. Scoped(S, PushElement(v, e))
  BY <1>1, <1>2, <1>3 DEF Scoped
<1>5. Nested(PushElement(v, e))
  <2>1. /\ \A i \in 1..Len(v.limits) : v.limits[i] \in Nat /\ v.limits[i] <= Len(v.elements)
        /\ \A i, j \in 1..Len(v.limits) : i <= j => v.limits[i] <= v.limits[j]
    BY NestedLimits
  <2>2. \A i \in 1..Len(v.limits) : v.limits[i] <= Len(v.elements) + 1
    BY <2>1, <1>1
  <2> QED
    BY <2>1, <2>2, <1>2, <1>3, <1>4, NestedLimits
<1> QED
  BY <1>2, <1>3, <1>4, <1>5

LEMMA ScopedDomain ==
  ASSUME NEW S, NEW v, Scoped(S, v)
  PROVE  Len(v.elements) \in Nat /\ DOMAIN v.elements = 1..Len(v.elements)
BY LenProperties DEF Scoped

LEMMA PushElementHolds ==
  ASSUME NEW S, NEW v, Scoped(S, v), Nested(v), NEW e \in S
  PROVE  \A x : Holds(PushElement(v, e), x) <=> Holds(v, x) \/ x = e
<1> DEFINE w == PushElement(v, e)
           L == Len(v.elements)
<1>1. /\ L \in Nat /\ DOMAIN v.elements = 1..L /\ DOMAIN w.elements = 1..(L + 1)
      /\ \A i \in 1..L : w.elements[i] = v.elements[i]
      /\ w.elements[L + 1] = e
  BY PushElementNested, ScopedDomain
<1>2. \A i \in 1..(L + 1) : i \in 1..L \/ i = L + 1
  BY <1>1
<1>3. 1..L \subseteq 1..(L + 1) /\ L + 1 \in 1..(L + 1)
  BY <1>1
<1> QED
  BY <1>1, <1>2, <1>3 DEF Holds

\* Where nothing is in two scopes, popping one takes out exactly what leaves.
LEMMA PopScopeHolds ==
  ASSUME NEW S, NEW v, Scoped(S, v), Nested(v), v.limits # <<>>,
         \A i, j \in DOMAIN v.elements : v.elements[i] = v.elements[j] => i = j
  PROVE  /\ \A x : Holds(PopScope(v), x) <=> Holds(v, x) /\ x \notin Leaving(v)
         /\ \A x \in Leaving(v) : Holds(v, x)
<1> DEFINE w == PopScope(v)
           L == Len(v.elements)
           K == LastLimit(v)
<1>1. /\ L \in Nat /\ K \in 0..L /\ DOMAIN v.elements = 1..L /\ DOMAIN w.elements = 1..K
      /\ \A i \in 1..K : w.elements[i] = v.elements[i]
  BY PopScopeNested
<1>2. /\ \A i \in 1..K : i \in 1..L /\ i \notin (K + 1)..L
      /\ \A i \in 1..L : i \in 1..K \/ i \in (K + 1)..L
      /\ \A i \in (K + 1)..L : i \in 1..L
  BY <1>1
<1>3. \A x : x \in Leaving(v) <=> \E i \in (K + 1)..L : v.elements[i] = x
  BY DEF Leaving
<1>4. \A x \in Leaving(v) : Holds(v, x)
  BY <1>1, <1>2, <1>3 DEF Holds
<1>5. ASSUME NEW x, Holds(w, x) PROVE Holds(v, x) /\ x \notin Leaving(v)
  <2>1. PICK i \in 1..K : v.elements[i] = x
    BY <1>1, <1>5 DEF Holds
  <2> QED
    BY SMTT(30), <2>1, <1>1, <1>2, <1>3 DEF Holds
<1>6. ASSUME NEW x, Holds(v, x), x \notin Leaving(v) PROVE Holds(w, x)
  <2>1. PICK i \in 1..L : v.elements[i] = x
    BY <1>1, <1>6 DEF Holds
  <2>2. i \in 1..K
    BY <2>1, <1>2, <1>3, <1>6
  <2> QED
    BY <2>1, <2>2, <1>1 DEF Holds
<1> QED
  BY <1>4, <1>5, <1>6

-----------------------------------------------------------------------------
(***************************************************************************)
(* Types, and well-formed scopes whatever the options are set to           *)
(***************************************************************************)

\* The invariant that needs no hypothesis: types, and every limit inside its table.  Definitions
\* have a scope for every level above the first; only an initialized interpreter loops over levels.
BasicInv ==
    /\ TypeOK
    /\ Nested(names) /\ Nested(scopedNames)
    /\ Len(scopedNames.limits) = Len(frames) - 1
    /\ command # "none" => Initialized

LEMMA ParsedType ==
  ASSUME NEW e \in Expressions
  PROVE  /\ Parsed(e) \in Terms \cup {Undef}
         /\ e.name # NoName => e.name \in Names /\ e.inner \in Terms
BY DEF Expressions, Parsed

\* A name that is attached was in no table; the tables get it and lose nothing.
LEMMA AttachType ==
  ASSUME TypeOK, Nested(names), NEW e \in Expressions, Attach(e)
  PROVE  /\ Scoped(Names \X Terms, names') /\ Nested(names')
         /\ names'.limits = names.limits
         /\ nameToTerm' \in [Names -> Terms \cup {Undef}]
         /\ DOMAIN termToNames' \subseteq Terms
         /\ \A t \in DOMAIN termToNames' : termToNames'[t] \subseteq Names
<1>1. CASE e.name = NoName \/ NameTaken(e)
  BY <1>1 DEF Attach, nameVars, TypeOK
<1>2. CASE ~(e.name = NoName \/ NameTaken(e))
  <2>1. e.name \in Names /\ e.inner \in Terms
    BY <1>2, ParsedType
  <2>2. /\ nameToTerm' = [nameToTerm EXCEPT ![e.name] = e.inner]
        /\ termToNames' = [t \in DOMAIN termToNames \cup {e.inner} |->
              (IF t \in DOMAIN termToNames THEN termToNames[t] ELSE {})
              \cup (IF t = e.inner THEN {e.name} ELSE {})]
        /\ names' = PushElement(names, <<e.name, e.inner>>)
    BY <1>2 DEF Attach
  <2>3. Scoped(Names \X Terms, names') /\ Nested(names') /\ names'.limits = names.limits
    BY <2>1, <2>2, PushElementNested DEF TypeOK
  <2>4. nameToTerm' \in [Names -> Terms \cup {Undef}]
    BY <2>1, <2>2 DEF TypeOK
  <2>5. /\ DOMAIN termToNames' \subseteq Terms
        /\ \A t \in DOMAIN termToNames' : termToNames'[t] \subseteq Names
    BY <2>1, <2>2 DEF TypeOK
  <2> QED
    BY <2>3, <2>4, <2>5
<1> QED
  BY <1>1, <1>2

\* An inserted term goes to the innermost frame.
LEMMA InsertType ==
  ASSUME TypeOK, NEW t \in Terms, Insertable(t), Insert(t)
  PROVE  /\ frames' \in Seq(Seq(Terms \ NotBool)) /\ frames' # <<>>
         /\ Len(frames') = Len(frames)
         /\ \A i \in 1..Len(frames) : i # Len(frames) => frames'[i] = frames[i]
         /\ frames'[Len(frames)] = Append(frames[Len(frames)], t)
         /\ inserted' \in Seq(Terms \ NotBool)
         /\ top_level_flas' \in [Terms -> Nat \cup {-1}]
<1> DEFINE L == Len(frames)
           B == Terms \ NotBool
<1>1. frames \in Seq(Seq(B)) /\ L \in Nat \ {0} /\ L \in 1..L /\ t \in B
  BY EmptySeq, LenProperties DEF TypeOK, Insertable
<1>2. frames[L] \in Seq(B)
  BY <1>1, ElementOfSeq
<1>3. Append(frames[L], t) \in Seq(B)
  BY <1>1, <1>2, AppendProperties
<1>4. frames' = [frames EXCEPT ![L] = Append(frames[L], t)]
  BY DEF Insert
<1>5. /\ frames' \in Seq(Seq(B)) /\ Len(frames') = L
      /\ \A j \in 1..L : frames'[j] = IF j = L THEN Append(frames[L], t) ELSE frames[j]
  BY <1>1, <1>3, <1>4, ExceptSeq
<1>6. frames' # <<>>
  BY <1>1, <1>5, EmptySeq
<1>7. inserted' \in Seq(B) /\ top_level_flas' \in [Terms -> Nat \cup {-1}]
  BY <1>1, AppendProperties, LenProperties DEF TypeOK, Insert
<1> QED
  BY <1>1, <1>5, <1>6, <1>7

LEMMA BasicInit == Init => BasicInv
<1> SUFFICES ASSUME Init PROVE BasicInv
  OBVIOUS
<1>1. /\ << <<>> >> \in Seq(Seq(Terms \ NotBool)) /\ << <<>> >> # <<>> /\ Len(<< <<>> >>) = 1
      /\ <<>> \in Seq(Terms) /\ <<>> \in Seq(Terms \ NotBool)
  <2>1. <<>> \in Seq(Terms) /\ <<>> \in Seq(Terms \ NotBool)
    BY EmptySeq
  <2> QED
    BY <2>1
<1>2. Len(scopedNames.limits) = 0 /\ Len(frames) = 1
  BY <1>1 DEF Init, EmptyScoped
<1>3. /\ Scoped(Names \X Terms, names) /\ Scoped(Functions, scopedNames)
      /\ Nested(names) /\ Nested(scopedNames)
  BY EmptyScopedNested DEF Init
<1>4. DOMAIN termToNames = {} /\ top_level_flas \in [Terms -> Nat \cup {-1}]
  BY DEF Init
<1>5. TypeOK
  BY <1>1, <1>3, <1>4 DEF Init, TypeOK
<1> QED
  BY <1>2, <1>3, <1>5 DEF Init, BasicInv, Initialized

LEMMA BasicDefineFun ==
  ASSUME BasicInv, NEW f \in Functions, NEW e \in Expressions, NEW b \in BOOLEAN,
         DefineFun(f, e, b)
  PROVE  BasicInv'
<1> USE DEF BasicInv
<1>1. Scoped(Functions, scopedNames) /\ Nested(scopedNames)
  BY DEF TypeOK
<1>2. /\ Scoped(Functions, scopedNames') /\ Nested(scopedNames')
      /\ scopedNames'.limits = scopedNames.limits
  BY <1>1, PushElementNested DEF DefineFun, DefinedInScope
<1>3. defined_functions' \subseteq Functions
  BY DEF DefineFun, TypeOK
<1>4. Attach(e)
  BY DEF DefineFun
<1>5. Initialized /\ Initialized'
  BY DEF DefineFun, Initialized, configVars
<1> QED
  BY <1>2, <1>3, <1>4, <1>5, AttachType
  DEF DefineFun, TypeOK, configVars, solverVars, loopVars

LEMMA BasicAssert ==
  ASSUME BasicInv, NEW e \in Expressions, Assert(e)
  PROVE  BasicInv'
<1> USE DEF BasicInv
<1> DEFINE tr == Parsed(e)
<1>1. Attach(e) /\ Initialized /\ UNCHANGED <<configVars, functionVars, loopVars>>
  BY DEF Assert
<1>2. tr \in Terms \cup {Undef}
  BY ParsedType
<1>3. assertions' \in Seq(Terms)
  BY <1>2, AppendProperties DEF Assert, TypeOK
<1>4. /\ frames' \in Seq(Seq(Terms \ NotBool)) /\ frames' # <<>> /\ Len(frames') = Len(frames)
      /\ inserted' \in Seq(Terms \ NotBool)
      /\ top_level_flas' \in [Terms -> Nat \cup {-1}]
  <2>1. CASE tr # Undef /\ Insertable(tr) /\ Insert(tr)
    BY <2>1, <1>2, InsertType
  <2>2. CASE UNCHANGED solverVars
    BY <2>2 DEF solverVars, TypeOK
  <2> QED
    BY <2>1, <2>2 DEF Assert
<1> QED
  BY <1>1, <1>3, <1>4, AttachType DEF TypeOK, configVars, functionVars, loopVars, Initialized

LEMMA BasicPushLevel == ASSUME BasicInv, PushLevel PROVE BasicInv'
<1> USE DEF BasicInv
<1>1. Scoped(Functions, scopedNames) /\ Scoped(Names \X Terms, names)
  BY DEF TypeOK
<1>2. /\ Scoped(Functions, scopedNames') /\ Nested(scopedNames')
      /\ Len(scopedNames'.limits) = Len(scopedNames.limits) + 1
  BY <1>1, PushScopeNested DEF PushLevel
<1>3. Scoped(Names \X Terms, names') /\ Nested(names')
  BY <1>1, PushScopeNested DEF PushLevel, PushNames
<1>4. /\ frames' \in Seq(Seq(Terms \ NotBool)) /\ frames' # <<>>
      /\ Len(frames') = Len(frames) + 1 /\ Len(frames) \in Nat
  <2> DEFINE B == Seq(Terms \ NotBool)
  <2>1. <<>> \in B /\ frames \in Seq(B) /\ frames' = Append(frames, <<>>)
    BY EmptySeq DEF PushLevel, TypeOK
  <2> HIDE DEF B
  <2>2. /\ Append(frames, <<>>) \in Seq(B) /\ Append(frames, <<>>) # <<>>
        /\ Len(Append(frames, <<>>)) = Len(frames) + 1 /\ Len(frames) \in Nat
    BY <2>1, AppendProperties, LenProperties
  <2> QED
    BY <2>1, <2>2 DEF B
<1>5. Initialized /\ Initialized' /\ n' \in Nat
  BY DEF PushLevel, Initialized, configVars, TypeOK
<1> QED
  BY <1>2, <1>3, <1>4, <1>5 DEF PushLevel, TypeOK, configVars

\* What popping a level does to the stack of frames.
LEMMA PopFrames ==
  ASSUME TypeOK, PopLevel
  PROVE  /\ frames' \in Seq(Seq(Terms \ NotBool)) /\ frames' # <<>>
         /\ Len(frames') = Len(frames) - 1 /\ Len(frames) \in Nat /\ Len(frames) > 1
         /\ \A i \in 1..(Len(frames) - 1) : frames'[i] = frames[i]
<1> DEFINE L == Len(frames)
           B == Seq(Terms \ NotBool)
<1>1. frames \in Seq(B) /\ L \in Nat /\ L > 1
  BY LenProperties DEF TypeOK, PopLevel
<1>2. \A i \in 1..(L - 1) : i \in 1..L /\ frames[i] \in B
  BY <1>1, ElementOfSeq
<1>3. /\ SubSeq(frames, 1, L - 1) \in Seq(B)
      /\ Len(SubSeq(frames, 1, L - 1)) = IF 1 <= L - 1 THEN L - 1 - 1 + 1 ELSE 0
      /\ \A i \in 1..(L - 1 - 1 + 1) : SubSeq(frames, 1, L - 1)[i] = frames[1 + i - 1]
  BY <1>1, <1>2, SubSeqProperties
<1>4. frames' = SubSeq(frames, 1, L - 1)
  BY DEF PopLevel
<1>5. frames' \in Seq(B) /\ Len(frames') = L - 1 /\ frames' # <<>>
  <2>1. frames' \in Seq(B) /\ Len(frames') = L - 1
    BY <1>1, <1>3, <1>4
  <2> QED
    BY <2>1, <1>1
<1>6. \A i \in 1..(L - 1) : frames'[i] = frames[i]
  <2>1. L - 1 - 1 + 1 = L - 1 /\ \A i \in 1..(L - 1) : 1 + i - 1 = i
    BY <1>1
  <2> QED
    BY <2>1, <1>3, <1>4
<1> QED
  BY <1>1, <1>5, <1>6

LEMMA BasicPopLevel == ASSUME BasicInv, PopLevel PROVE BasicInv'
<1> USE DEF BasicInv
<1>1. Scoped(Functions, scopedNames) /\ Scoped(Names \X Terms, names)
  BY DEF TypeOK
<1>2. /\ frames' \in Seq(Seq(Terms \ NotBool)) /\ frames' # <<>>
      /\ Len(frames') = Len(frames) - 1 /\ Len(frames) \in Nat /\ Len(frames) > 1
  BY PopFrames
<1>3. scopedNames.limits # <<>>
  BY <1>2
<1>4. /\ Scoped(Functions, scopedNames') /\ Nested(scopedNames')
      /\ Len(scopedNames'.limits) = Len(scopedNames.limits) - 1
  BY <1>1, <1>3, PopScopeNested DEF PopLevel
<1>5. /\ Scoped(Names \X Terms, names') /\ Nested(names')
      /\ nameToTerm' \in [Names -> Terms \cup {Undef}]
      /\ DOMAIN termToNames' \subseteq Terms
      /\ \A t \in DOMAIN termToNames' : termToNames'[t] \subseteq Names
  <2>1. CASE global \/ names.limits = <<>>
    BY <2>1 DEF PopLevel, nameVars, TypeOK
  <2>2. CASE ~(global \/ names.limits = <<>>)
    <3>1. ForgetNames
      BY <2>2 DEF PopLevel
    <3>2. Scoped(Names \X Terms, names') /\ Nested(names')
      BY <1>1, <2>2, <3>1, PopScopeNested DEF ForgetNames
    <3>3. nameToTerm' \in [Names -> Terms \cup {Undef}]
      BY <3>1 DEF ForgetNames, TypeOK
    <3>4. /\ DOMAIN termToNames' \subseteq Terms
          /\ \A t \in DOMAIN termToNames' : termToNames'[t] \subseteq Names
      BY <3>1 DEF ForgetNames, TypeOK
    <3> QED
      BY <3>2, <3>3, <3>4
  <2> QED
    BY <2>1, <2>2
<1>6. Initialized /\ Initialized' /\ n' \in Nat /\ undefined' \in BOOLEAN
  BY DEF PopLevel, Initialized, configVars, TypeOK
<1>7. defined_functions' \subseteq Functions
  BY DEF PopLevel, TypeOK
<1> QED
  BY <1>2, <1>4, <1>5, <1>6, <1>7 DEF PopLevel, TypeOK, configVars

LEMMA BasicStep == BasicInv /\ [Next]_vars => BasicInv'
<1> SUFFICES ASSUME BasicInv, [Next]_vars PROVE BasicInv'
  OBVIOUS
<1> USE DEF BasicInv, Initialized
<1>1. ASSUME NEW l \in Logics, SetLogic(l) PROVE BasicInv'
  BY <1>1 DEF SetLogic, Begin, TypeOK, solverVars, nameVars, functionVars, loopVars
<1>2. ASSUME NEW b \in BOOLEAN, SetGlobal(b) PROVE BasicInv'
  BY <1>2 DEF SetGlobal, TypeOK, solverVars, nameVars, functionVars, loopVars
<1>3. ASSUME NEW s \in Symbols, DeclareFun(s) PROVE BasicInv'
  BY <1>3 DEF DeclareFun, TypeOK, configVars, solverVars, nameVars, loopVars
<1>4. ASSUME NEW f \in Functions, NEW e \in Expressions, NEW b \in BOOLEAN, DefineFun(f, e, b)
      PROVE  BasicInv'
  BY <1>4, BasicDefineFun
<1>5. ASSUME NEW e \in Expressions, Assert(e) PROVE BasicInv'
  BY <1>5, BasicAssert
<1>6. ASSUME NEW e \in Expressions, Query(e) PROVE BasicInv'
  BY <1>6, AttachType DEF Query, TypeOK, configVars, solverVars, functionVars, loopVars
<1>7. ASSUME NEW t \in Terms, AssertDirectly(t) PROVE BasicInv'
  BY <1>7, InsertType DEF AssertDirectly, TypeOK, configVars, nameVars, functionVars, loopVars
<1>8. ASSUME NEW k \in 0..MaxLevels, Push(k) \/ Pop(k) PROVE BasicInv'
  <2>1. k \in Nat
    BY BoundsAssumption
  <2> QED
    BY <1>8, <2>1
    DEF Push, Pop, Loop, TypeOK, configVars, solverVars, nameVars, functionVars
<1>9. CASE PushLevel
  BY <1>9, BasicPushLevel
<1>10. CASE PopLevel
  BY <1>10, BasicPopLevel
<1>11. CASE EndLoop
  BY <1>11 DEF EndLoop, TypeOK, configVars, solverVars, nameVars, functionVars
<1>12. CASE Exit
  BY <1>12 DEF Exit, TypeOK, solverVars, nameVars, functionVars, loopVars
<1>13. CASE UNCHANGED vars
  BY <1>13 DEF vars, TypeOK, configVars, solverVars, nameVars, functionVars, loopVars
<1> QED
  BY <1>1, <1>2, <1>3, <1>4, <1>5, <1>6, <1>7, <1>8, <1>9, <1>10, <1>11, <1>12, <1>13 DEF Next

\* The tables always have the shape their declarations say, and no limit of a scope ever lies
\* outside its table, whatever commands a script gives and whatever it does to the options.
THEOREM TypeCorrect == Spec => []TypeOK
<1>1. Spec => []BasicInv
  BY BasicInit, BasicStep, PTL DEF Spec
<1>2. BasicInv => TypeOK
  BY DEF BasicInv
<1> QED
  BY <1>1, <1>2, PTL

-----------------------------------------------------------------------------
(***************************************************************************)
(* The names                                                               *)
(***************************************************************************)

\* An entry of the table of names is a pair of a name and a term.
LEMMA NameEntries ==
  ASSUME TypeOK, NEW i \in DOMAIN names.elements
  PROVE  /\ names.elements[i] = <<names.elements[i][1], names.elements[i][2]>>
         /\ names.elements[i][1] \in Names /\ names.elements[i][2] \in Terms
         /\ Holds(names, <<names.elements[i][1], names.elements[i][2]>>)
<1>1. names.elements \in Seq(Names \X Terms)
  BY DEF TypeOK, Scoped
<1>2. names.elements[i] \in Names \X Terms
  BY <1>1, ElementOfSeq, LenProperties
<1>3. names.elements[i] = <<names.elements[i][1], names.elements[i][2]>>
  BY <1>2
<1> QED
  BY <1>2, <1>3 DEF Holds

\* Attaching a name keeps the three tables in agreement: the name was free in all of them.
LEMMA AttachAgrees ==
  ASSUME BasicInv, NameTablesAgree, NEW e \in Expressions, Attach(e)
  PROVE  NameTablesAgree'
<1>1. CASE e.name = NoName \/ NameTaken(e)
  BY <1>1 DEF Attach, nameVars, NameTablesAgree, Holds
<1>2. CASE ~(e.name = NoName \/ NameTaken(e))
  <2> DEFINE m0 == e.name
             t0 == e.inner
  <2>1. m0 \in Names /\ t0 \in Terms /\ nameToTerm[m0] = Undef
    BY <1>2, ParsedType DEF NameTaken
  <2>2. /\ nameToTerm' = [nameToTerm EXCEPT ![m0] = t0]
        /\ termToNames' = [t \in DOMAIN termToNames \cup {t0} |->
              (IF t \in DOMAIN termToNames THEN termToNames[t] ELSE {})
              \cup (IF t = t0 THEN {m0} ELSE {})]
        /\ names' = PushElement(names, <<m0, t0>>)
    BY <1>2 DEF Attach
  <2>3. TypeOK /\ Scoped(Names \X Terms, names) /\ Nested(names) /\ <<m0, t0>> \in Names \X Terms
    BY <2>1 DEF BasicInv, TypeOK
  <2>4. nameToTerm \in [Names -> Terms \cup {Undef}]
    BY <2>3 DEF TypeOK
  <2>5. \A m \in Names, t \in Terms :
          Holds(names', <<m, t>>) <=> Holds(names, <<m, t>>) \/ (m = m0 /\ t = t0)
    BY <2>2, <2>3, PushElementHolds
  <2>6. \A m \in Names, t \in Terms :
          /\ nameToTerm[m] = t <=> Holds(names, <<m, t>>)
          /\ nameToTerm[m] = t <=> t \in DOMAIN termToNames /\ m \in termToNames[t]
    BY DEF NameTablesAgree
  <2>7. \A t \in Terms : nameToTerm[m0] # t
    BY <2>1, UndefAssumption
  <2>8. \A m \in Names, t \in Terms : nameToTerm'[m] = t <=> nameToTerm[m] = t \/ (m = m0 /\ t = t0)
    BY <2>1, <2>2, <2>4, <2>7
  <2>9. \A m \in Names, t \in Terms :
           (t \in DOMAIN termToNames' /\ m \in termToNames'[t])
           <=> (t \in DOMAIN termToNames /\ m \in termToNames[t]) \/ (m = m0 /\ t = t0)
    BY <2>2
  <2>10. \A m \in Names, t \in Terms :
          /\ nameToTerm'[m] = t <=> Holds(names', <<m, t>>)
          /\ nameToTerm'[m] = t <=> t \in DOMAIN termToNames' /\ m \in termToNames'[t]
    BY ZenonT(60), <2>5, <2>6, <2>8, <2>9
  <2>11. \A i, j \in DOMAIN names'.elements : names'.elements[i][1] = names'.elements[j][1] => i = j
    <3> DEFINE L == Len(names.elements)
    <3>1. /\ L \in Nat /\ DOMAIN names.elements = 1..L /\ DOMAIN names'.elements = 1..(L + 1)
          /\ \A i \in 1..L : names'.elements[i] = names.elements[i]
          /\ names'.elements[L + 1] = <<m0, t0>>
      BY SMTT(30), <2>2, <2>3, PushElementNested, ScopedDomain
    <3>2. \A i, j \in 1..L : names.elements[i][1] = names.elements[j][1] => i = j
      BY <3>1 DEF NameTablesAgree
    <3>3. \A i \in 1..L : names.elements[i][1] # m0
      <4> SUFFICES ASSUME NEW i \in 1..L, names.elements[i][1] = m0 PROVE FALSE
        OBVIOUS
      <4>1. names.elements[i][2] \in Terms /\ Holds(names, <<m0, names.elements[i][2]>>)
        BY <2>3, <3>1, NameEntries
      <4> QED
        BY <4>1, <2>1, <2>6, <2>7
    <3>4. \A i \in 1..(L + 1) : i \in 1..L \/ i = L + 1
      BY <3>1
    <3> QED
      BY SMTT(30), <3>1, <3>2, <3>3, <3>4
  <2> QED
    BY <2>10, <2>11 DEF NameTablesAgree
<1> QED
  BY <1>1, <1>2

\* Forgetting a scope's names takes each of them out of all three tables, and nothing else.
LEMMA ForgetAgrees ==
  ASSUME BasicInv, NameTablesAgree, names.limits # <<>>, ForgetNames
  PROVE  NameTablesAgree'
<1> DEFINE left == Leaving(names)
           L == Len(names.elements)
<1>1. TypeOK /\ Scoped(Names \X Terms, names) /\ Nested(names)
  BY DEF BasicInv, TypeOK
<1>2. /\ names' = PopScope(names)
      /\ nameToTerm' = [m \in Names |->
            IF \E p \in left : p[1] = m THEN Undef ELSE nameToTerm[m]]
      /\ termToNames' = [t \in DOMAIN termToNames |->
            {m \in termToNames[t] : <<m, t>> \notin left}]
  BY DEF ForgetNames
<1>3. \A i, j \in DOMAIN names.elements : names.elements[i][1] = names.elements[j][1] => i = j
  BY DEF NameTablesAgree
<1>4. \A i, j \in DOMAIN names.elements : names.elements[i] = names.elements[j] => i = j
  BY <1>3
<1>5. /\ \A x : Holds(names', x) <=> Holds(names, x) /\ x \notin left
      /\ \A x \in left : Holds(names, x)
  BY <1>1, <1>2, <1>4, PopScopeHolds
<1>6. \A m \in Names, t \in Terms :
        /\ nameToTerm[m] = t <=> Holds(names, <<m, t>>)
        /\ nameToTerm[m] = t <=> t \in DOMAIN termToNames /\ m \in termToNames[t]
  BY DEF NameTablesAgree
<1>7. \A p \in left : p = <<p[1], p[2]>> /\ p[1] \in Names /\ p[2] \in Terms
  <2> SUFFICES ASSUME NEW p \in left
               PROVE  p = <<p[1], p[2]>> /\ p[1] \in Names /\ p[2] \in Terms
    OBVIOUS
  <2>1. PICK i \in DOMAIN names.elements : names.elements[i] = p
    BY <1>5 DEF Holds
  <2> QED
    BY <2>1, <1>1, NameEntries
<1>8. \A m \in Names : (\E p \in left : p[1] = m) <=> \E t \in Terms : <<m, t>> \in left
  BY <1>7
<1> HIDE DEF left
<1>9. \A m \in Names, t \in Terms : nameToTerm'[m] = t <=> nameToTerm[m] = t /\ <<m, t>> \notin left
  <2> SUFFICES ASSUME NEW m \in Names, NEW t \in Terms
               PROVE  nameToTerm'[m] = t <=> nameToTerm[m] = t /\ <<m, t>> \notin left
    OBVIOUS
  <2>1. CASE \E p \in left : p[1] = m
    <3>1. nameToTerm'[m] = Undef
      BY <1>2, <2>1
    <3>2. PICK u \in Terms : <<m, u>> \in left
      BY <1>8, <2>1
    <3>3. nameToTerm[m] = u
      BY <1>5, <1>6, <3>2
    <3> QED
      BY <3>1, <3>2, <3>3, UndefAssumption
  <2>2. CASE ~\E p \in left : p[1] = m
    BY <1>2, <1>8, <2>2
  <2> QED
    BY <2>1, <2>2
<1>10. \A m \in Names, t \in Terms :
         (t \in DOMAIN termToNames' /\ m \in termToNames'[t])
         <=> (t \in DOMAIN termToNames /\ m \in termToNames[t]) /\ <<m, t>> \notin left
  BY <1>2
<1>11. \A m \in Names, t \in Terms :
         /\ nameToTerm'[m] = t <=> Holds(names', <<m, t>>)
         /\ nameToTerm'[m] = t <=> t \in DOMAIN termToNames' /\ m \in termToNames'[t]
  BY <1>5, <1>6, <1>9, <1>10
<1>12. \A i, j \in DOMAIN names'.elements : names'.elements[i][1] = names'.elements[j][1] => i = j
  <2> DEFINE K == LastLimit(names)
  <2>1. /\ K \in 0..L /\ L \in Nat /\ DOMAIN names'.elements = 1..K /\ DOMAIN names.elements = 1..L
        /\ \A i \in 1..K : names'.elements[i] = names.elements[i]
    BY <1>1, <1>2, PopScopeNested
  <2>2. \A i \in 1..K : i \in 1..L
    BY <2>1
  <2> QED
    BY <2>1, <2>2, <1>3
<1> QED
  BY <1>11, <1>12 DEF NameTablesAgree

LEMMA NameTablesInit == Init => NameTablesAgree
<1> SUFFICES ASSUME Init PROVE NameTablesAgree
  OBVIOUS
<1>1. names.elements = <<>> /\ DOMAIN names.elements = {} /\ DOMAIN termToNames = {}
  BY EmptySeq DEF Init, EmptyScoped
<1>2. \A m \in Names, t \in Terms : nameToTerm[m] # t
  BY UndefAssumption DEF Init
<1> QED
  BY <1>1, <1>2 DEF NameTablesAgree, Holds

LEMMA NameTablesStep == BasicInv /\ NameTablesAgree /\ [Next]_vars => NameTablesAgree'
<1> SUFFICES ASSUME BasicInv, NameTablesAgree, [Next]_vars PROVE NameTablesAgree'
  OBVIOUS
<1>1. CASE UNCHANGED nameVars
  BY <1>1 DEF nameVars, NameTablesAgree, Holds
<1>2. ASSUME NEW e \in Expressions, Attach(e) PROVE NameTablesAgree'
  BY <1>2, AttachAgrees
<1>3. CASE PushLevel
  <2>1. names'.elements = names.elements
    BY <1>3 DEF PushLevel, PushNames, PushScope
  <2>2. nameToTerm' = nameToTerm /\ termToNames' = termToNames
    BY <1>3 DEF PushLevel
  <2> QED
    BY <2>1, <2>2 DEF NameTablesAgree, Holds
<1>4. CASE PopLevel
  <2>1. CASE global \/ names.limits = <<>>
    BY <1>1, <1>4, <2>1 DEF PopLevel
  <2>2. CASE ~(global \/ names.limits = <<>>)
    BY <1>4, <2>2, ForgetAgrees DEF PopLevel
  <2> QED
    BY <2>1, <2>2
<1>5. CASE Next
  BY <1>1, <1>2, <1>3, <1>4, <1>5
  DEF Next, SetLogic, SetGlobal, DeclareFun, DefineFun, Assert, Query, AssertDirectly,
      Push, Pop, Loop, EndLoop, Exit
<1> QED
  BY <1>1, <1>5 DEF vars

\* TermNames keeps its three tables in agreement whatever a script does, a pop that finds no scope
\* included: a name is never in two scopes, and what a pop forgets it forgets everywhere.
THEOREM NameTablesAlwaysAgree == Spec => []NameTablesAgree
<1>1. Spec => []BasicInv
  BY BasicInit, BasicStep, PTL DEF Spec
<1> QED
  BY <1>1, NameTablesInit, NameTablesStep, PTL DEF Spec

-----------------------------------------------------------------------------
(***************************************************************************)
(* The three stacks                                                        *)
(***************************************************************************)

\* While :global-declarations is changed only with no level open, names have a scope for every level
\* above the first or none at all, and no pop runs out of scopes.  Each definition that some scope
\* holds is held once, and is known, whenever the option is changed.
LevelsInv ==
    /\ ~switched =>
          /\ Len(names.limits) = IF global THEN 0 ELSE Len(frames) - 1
          /\ ~undefined
    /\ \A i, j \in DOMAIN scopedNames.elements :
          scopedNames.elements[i] = scopedNames.elements[j] => i = j
    /\ \A f : Holds(scopedNames, f) => f \in defined_functions

LEMMA LevelsInit == Init => LevelsInv
<1> SUFFICES ASSUME Init PROVE LevelsInv
  OBVIOUS
<1>1. /\ scopedNames.elements = <<>> /\ DOMAIN scopedNames.elements = {}
      /\ Len(names.limits) = 0 /\ Len(frames) = 1 /\ ~undefined
  BY EmptySeq DEF Init, EmptyScoped
<1> QED
  BY <1>1 DEF Init, LevelsInv, Holds

\* A stored definition was unknown, so it is held once.
LEMMA LevelsDefineFun ==
  ASSUME BasicInv, LevelsInv, NEW f \in Functions, NEW e \in Expressions, NEW b \in BOOLEAN,
         DefineFun(f, e, b)
  PROVE  LevelsInv'
<1>1. Scoped(Functions, scopedNames) /\ Nested(scopedNames)
  BY DEF BasicInv, TypeOK
<1>2. names'.limits = names.limits
  BY AttachType DEF DefineFun, BasicInv
<1>3. UNCHANGED <<frames, global, undefined, switched>>
  BY DEF DefineFun, solverVars, configVars, loopVars
<1>4. CASE UNCHANGED scopedNames
  BY <1>2, <1>3, <1>4 DEF DefineFun, LevelsInv, Holds
<1>5. CASE /\ f \notin defined_functions /\ defined_functions' = defined_functions \cup {f}
           /\ scopedNames' = PushElement(scopedNames, f)
  <2> DEFINE L == Len(scopedNames.elements)
  <2>1. \A g : Holds(scopedNames', g) <=> Holds(scopedNames, g) \/ g = f
    BY <1>1, <1>5, PushElementHolds
  <2>a. scopedNames' = PushElement(scopedNames, f)
    BY <1>5
  <2>b. L \in Nat /\ DOMAIN scopedNames.elements = 1..L
    BY <1>1, ScopedDomain
  <2>c. /\ Scoped(Functions, PushElement(scopedNames, f))
        /\ Len(PushElement(scopedNames, f).elements) = L + 1
        /\ \A i \in 1..L : PushElement(scopedNames, f).elements[i] = scopedNames.elements[i]
        /\ PushElement(scopedNames, f).elements[L + 1] = f
    BY <1>1, PushElementNested
  <2>d. DOMAIN PushElement(scopedNames, f).elements = 1..(L + 1)
    BY <2>c, ScopedDomain
  <2>2. /\ L \in Nat /\ DOMAIN scopedNames.elements = 1..L
        /\ DOMAIN scopedNames'.elements = 1..(L + 1)
        /\ \A i \in 1..L : scopedNames'.elements[i] = scopedNames.elements[i]
        /\ scopedNames'.elements[L + 1] = f
    BY <2>a, <2>b, <2>c, <2>d
  <2>3. \A i \in 1..L : scopedNames.elements[i] # f
    BY <1>5, <2>2 DEF LevelsInv, Holds
  <2>4. \A i \in 1..(L + 1) : i \in 1..L \/ i = L + 1
    BY <2>2
  <2>5. \A i, j \in 1..(L + 1) : scopedNames'.elements[i] = scopedNames'.elements[j] => i = j
    BY <2>2, <2>3, <2>4 DEF LevelsInv
  <2> QED
    BY <1>2, <1>3, <1>5, <2>1, <2>2, <2>5 DEF LevelsInv
<1> QED
  BY <1>4, <1>5 DEF DefineFun, DefinedInScope

LEMMA LevelsPushLevel == ASSUME BasicInv, LevelsInv, PushLevel PROVE LevelsInv'
<1>1. Scoped(Names \X Terms, names) /\ Nested(names)
  BY DEF BasicInv, TypeOK
<1>2. /\ scopedNames'.elements = scopedNames.elements
      /\ UNCHANGED <<global, undefined, switched, defined_functions>>
  BY DEF PushLevel, PushScope, configVars
<1>3. Len(frames') = Len(frames) + 1 /\ Len(frames) \in Nat
  BY AppendProperties, LenProperties, EmptySeq DEF PushLevel, BasicInv, TypeOK
<1>4. ASSUME ~switched
      PROVE  Len(names'.limits) = IF global THEN 0 ELSE Len(frames') - 1
  <2>1. CASE global
    BY <1>4, <2>1 DEF PushLevel, PushNames, LevelsInv
  <2>2. CASE ~global
    <3>1. Len(names'.limits) = Len(names.limits) + 1
      BY <1>1, <2>2, PushScopeNested DEF PushLevel, PushNames
    <3> QED
      BY <1>3, <1>4, <2>2, <3>1 DEF LevelsInv
  <2> QED
    BY <2>1, <2>2
<1> QED
  BY <1>2, <1>4 DEF LevelsInv, Holds

LEMMA LevelsPopLevel == ASSUME BasicInv, LevelsInv, PopLevel PROVE LevelsInv'
<1>1. /\ Scoped(Names \X Terms, names) /\ Nested(names)
      /\ Scoped(Functions, scopedNames) /\ Nested(scopedNames)
  BY DEF BasicInv, TypeOK
<1>2. Len(frames') = Len(frames) - 1 /\ Len(frames) \in Nat /\ Len(frames) > 1
  BY PopFrames DEF BasicInv
<1>3. scopedNames.limits # <<>> /\ (~switched /\ ~global => names.limits # <<>>)
  BY <1>2 DEF BasicInv, LevelsInv
<1>4. ASSUME ~switched
      PROVE  Len(names'.limits) = (IF global THEN 0 ELSE Len(frames') - 1) /\ ~undefined'
  <2>1. CASE global
    BY <1>4, <2>1 DEF PopLevel, nameVars, LevelsInv
  <2>2. CASE ~global
    <3>1. names' = PopScope(names) /\ ~undefined'
      BY <1>3, <1>4, <2>2 DEF PopLevel, ForgetNames
    <3>2. Len(names'.limits) = Len(names.limits) - 1
      BY <1>1, <1>3, <1>4, <2>2, <3>1, PopScopeNested
    <3> QED
      BY <1>2, <1>4, <2>2, <3>1, <3>2 DEF LevelsInv
  <2> QED
    BY <2>1, <2>2
<1>5. \A f : Holds(scopedNames', f) <=> Holds(scopedNames, f) /\ f \notin Leaving(scopedNames)
  BY <1>1, <1>3, PopScopeHolds DEF PopLevel, LevelsInv
<1>6. \A f : Holds(scopedNames', f) => f \in defined_functions'
  BY <1>5 DEF PopLevel, LevelsInv
<1>7. \A i, j \in DOMAIN scopedNames'.elements :
        scopedNames'.elements[i] = scopedNames'.elements[j] => i = j
  <2> DEFINE L == Len(scopedNames.elements)
             K == LastLimit(scopedNames)
  <2>1. /\ L \in Nat /\ K \in 0..L
        /\ DOMAIN scopedNames.elements = 1..L /\ DOMAIN scopedNames'.elements = 1..K
        /\ \A i \in 1..K : scopedNames'.elements[i] = scopedNames.elements[i]
    BY <1>1, <1>3, PopScopeNested DEF PopLevel
  <2>2. \A i \in 1..K : i \in 1..L
    BY <2>1
  <2> QED
    BY <2>1, <2>2 DEF LevelsInv
<1>8. UNCHANGED <<global, switched>>
  BY DEF PopLevel, configVars
<1> QED
  BY <1>4, <1>6, <1>7, <1>8 DEF LevelsInv

LEMMA LevelsStep == BasicInv /\ LevelsInv /\ [Next]_vars => LevelsInv'
<1> SUFFICES ASSUME BasicInv, LevelsInv, [Next]_vars PROVE LevelsInv'
  OBVIOUS
<1>1. ASSUME Len(frames') = Len(frames), names'.limits = names.limits,
             UNCHANGED <<scopedNames, defined_functions, global, undefined, switched>>
      PROVE  LevelsInv'
  BY <1>1 DEF LevelsInv, Holds
<1>2. ASSUME NEW b \in BOOLEAN, SetGlobal(b) PROVE LevelsInv'
  <2>1. /\ UNCHANGED <<frames, names, scopedNames, defined_functions, undefined>>
        /\ global' = b /\ switched' = (switched \/ (b # global /\ Len(frames) > 1))
    BY <1>2 DEF SetGlobal, solverVars, nameVars, functionVars, loopVars
  <2>2. Len(frames) \in Nat \ {0} /\ switched \in BOOLEAN
    BY EmptySeq, LenProperties DEF BasicInv, TypeOK
  <2>3. ASSUME ~switched'
        PROVE  /\ Len(names'.limits) = IF global' THEN 0 ELSE Len(frames') - 1
               /\ ~undefined'
    <3>1. ~switched /\ ~(b # global /\ Len(frames) > 1)
      BY <2>1, <2>3
    <3>2. b = global \/ Len(frames) = 1
      BY <2>2, <3>1
    <3> QED
      BY <2>1, <3>1, <3>2 DEF LevelsInv
  <2> QED
    BY <2>1, <2>3 DEF LevelsInv, Holds
<1>3. ASSUME NEW e \in Expressions, Attach(e) PROVE names'.limits = names.limits
  BY <1>3, AttachType DEF BasicInv
<1>4. ASSUME NEW t \in Terms, Insertable(t), Insert(t) PROVE Len(frames') = Len(frames)
  BY <1>4, InsertType DEF BasicInv
<1>5. ASSUME NEW e \in Expressions, Assert(e) PROVE LevelsInv'
  <2>1. Len(frames') = Len(frames)
    BY <1>4, <1>5, ParsedType DEF Assert, solverVars
  <2> QED
    BY <1>1, <1>3, <1>5, <2>1 DEF Assert, configVars, functionVars, loopVars
<1>6. ASSUME NEW f \in Functions, NEW e \in Expressions, NEW b \in BOOLEAN, DefineFun(f, e, b)
      PROVE  LevelsInv'
  BY <1>6, LevelsDefineFun
<1>7. ASSUME NEW e \in Expressions, Query(e) PROVE LevelsInv'
  BY <1>1, <1>3, <1>7 DEF Query, configVars, solverVars, functionVars, loopVars
<1>8. ASSUME NEW t \in Terms, AssertDirectly(t) PROVE LevelsInv'
  BY <1>1, <1>4, <1>8 DEF AssertDirectly, configVars, nameVars, functionVars, loopVars
<1>9. CASE PushLevel
  BY <1>9, LevelsPushLevel
<1>10. CASE PopLevel
  BY <1>10, LevelsPopLevel
<1>11. ASSUME \/ \E l \in Logics : SetLogic(l)
              \/ \E s \in Symbols : DeclareFun(s)
              \/ \E k \in 0..MaxLevels : Push(k) \/ Pop(k)
              \/ EndLoop
              \/ Exit
              \/ UNCHANGED vars
       PROVE  LevelsInv'
  BY <1>1, <1>11
  DEF SetLogic, DeclareFun, Push, Pop, Loop, EndLoop, Exit,
      vars, configVars, solverVars, nameVars, functionVars, loopVars
<1> QED
  BY <1>2, <1>5, <1>6, <1>7, <1>8, <1>9, <1>10, <1>11 DEF Next

\* Definitions and the solver's frames always count the same open levels, and the tables of names
\* agree, whenever :global-declarations is set; term names count those levels too, and no pop runs
\* out of scopes, until the option is changed with a level open.
THEOREM NamesAndScopesAlwaysAgree == Spec => []NamesAndScopesAgree
<1>1. BasicInv /\ LevelsInv /\ NameTablesAgree => NamesAndScopesAgree
  BY DEF BasicInv, LevelsInv, NamesAndScopesAgree, ScopesAgree
<1>2. Spec => []BasicInv
  BY BasicInit, BasicStep, PTL DEF Spec
<1>3. Init => LevelsInv
  BY LevelsInit
<1>4. BasicInv /\ LevelsInv /\ [Next]_vars => LevelsInv'
  BY LevelsStep
<1> QED
  BY <1>1, <1>2, <1>3, <1>4, NameTablesAlwaysAgree, PTL DEF Spec

-----------------------------------------------------------------------------
(***************************************************************************)
(* The scope of an element                                                 *)
(***************************************************************************)

LEMMA ScopeAmongOne ==
  ASSUME NEW v, NEW k
  PROVE  ScopeAmong(v, {k}) = ScopeOf(v, k)
BY DEF ScopeAmong

LEMMA ScopeOfSame ==
  ASSUME NEW v, NEW w, NEW k, v.limits = w.limits
  PROVE  ScopeOf(w, k) = ScopeOf(v, k)
BY DEF ScopeOf

\* Scopes are counted from 1 to the number of limits plus 1.
LEMMA ScopeOfRange ==
  ASSUME NEW S, NEW v, Scoped(S, v), NEW k \in Nat
  PROVE  ScopeOf(v, k) \in 1..(Len(v.limits) + 1)
<1> DEFINE B == {j \in DOMAIN v.limits : v.limits[j] < k}
           L == Len(v.limits)
<1>1. L \in Nat /\ DOMAIN v.limits = 1..L
  BY LenProperties DEF Scoped
<1>2. IsFiniteSet(1..L) /\ Cardinality(1..L) = L
  <2>1. IsFiniteSet(1..L) /\ Cardinality(1..L) = IF 1 > L THEN 0 ELSE L - 1 + 1
    BY SMTT(30), <1>1, FS_Interval
  <2> QED
    BY <1>1, <2>1
<1>3. B \in SUBSET (1..L)
  BY <1>1
<1>4. IsFiniteSet(B) /\ Cardinality(B) <= L
  BY <1>2, <1>3, FS_Subset
<1>5. Cardinality(B) \in Nat
  BY <1>4, FS_CardinalityType
<1> QED
  BY <1>1, <1>4, <1>5 DEF ScopeOf

\* What comes after the last limit is in the innermost scope.
LEMMA ScopeOfInnermost ==
  ASSUME NEW S, NEW v, Scoped(S, v), NEW k \in Nat,
         \A j \in 1..Len(v.limits) : v.limits[j] < k
  PROVE  ScopeOf(v, k) = Len(v.limits) + 1
<1> DEFINE B == {j \in DOMAIN v.limits : v.limits[j] < k}
           L == Len(v.limits)
<1>1. L \in Nat /\ DOMAIN v.limits = 1..L
  BY LenProperties DEF Scoped
<1>2. B = 1..L
  BY <1>1
<1>3. Cardinality(1..L) = L
  BY <1>1, FS_Interval
<1> HIDE DEF B
<1>4. Cardinality(B) = L
  BY <1>2, <1>3
<1> QED
  BY <1>1, <1>4 DEF ScopeOf, B

\* Opening a scope moves nothing.
LEMMA PushScopeOf ==
  ASSUME NEW S, NEW v, Scoped(S, v), Nested(v), NEW k \in 1..Len(v.elements)
  PROVE  ScopeOf(PushScope(v), k) = ScopeOf(v, k)
<1> DEFINE w == PushScope(v)
           L == Len(v.limits)
           M == Len(v.elements)
<1>1. /\ v.limits \in Seq(Nat) /\ L \in Nat /\ M \in Nat /\ DOMAIN v.limits = 1..L
      /\ w.limits = Append(v.limits, M)
  BY LenProperties, NestedLimits DEF Scoped, PushScope
<1>2. /\ Append(v.limits, M) \in Seq(Nat) /\ Len(Append(v.limits, M)) = L + 1
      /\ \A i \in 1..L : Append(v.limits, M)[i] = v.limits[i]
      /\ Append(v.limits, M)[L + 1] = M
  BY <1>1, AppendProperties
<1>3. DOMAIN w.limits = 1..(L + 1)
  BY <1>1, <1>2, LenProperties
<1>4. \A i \in 1..(L + 1) : i \in 1..L \/ i = L + 1
  BY <1>1
<1>5. ~(w.limits[L + 1] < k)
  BY <1>1, <1>2
<1>6. {j \in DOMAIN w.limits : w.limits[j] < k} = {j \in DOMAIN v.limits : v.limits[j] < k}
  BY <1>1, <1>2, <1>3, <1>4, <1>5
<1> QED
  BY <1>6 DEF ScopeOf

\* Closing one moves nothing either, and what it leaves behind was the innermost scope's.
LEMMA PopScopeOf ==
  ASSUME NEW S, NEW v, Scoped(S, v), Nested(v), v.limits # <<>>, NEW k \in 1..Len(v.elements)
  PROVE  /\ k <= LastLimit(v) => /\ ScopeOf(PopScope(v), k) = ScopeOf(v, k)
                                 /\ ScopeOf(v, k) < Len(v.limits) + 1
         /\ k > LastLimit(v) => ScopeOf(v, k) = Len(v.limits) + 1
<1> DEFINE w == PopScope(v)
           L == Len(v.limits)
           K == LastLimit(v)
<1>1. /\ L \in Nat \ {0} /\ K \in Nat /\ k \in Nat /\ DOMAIN v.limits = 1..L /\ v.limits[L] = K
      /\ Scoped(S, w) /\ Len(w.limits) = L - 1 /\ \A i \in 1..(L - 1) : w.limits[i] = v.limits[i]
  BY PopScopeNested, LenProperties DEF Scoped, LastLimit
<1>2. DOMAIN w.limits = 1..(L - 1)
  BY <1>1, LenProperties DEF Scoped
<1>3. \A i \in 1..L : v.limits[i] \in Nat /\ v.limits[i] <= K
  <2>1. \A i, j \in 1..L : v.limits[i] \in Nat /\ (i <= j => v.limits[i] <= v.limits[j])
    BY NestedLimits
  <2>2. L \in 1..L /\ \A i \in 1..L : i <= L
    BY <1>1
  <2> QED
    BY <1>1, <2>1, <2>2
<1>4. ASSUME k <= K
      PROVE  ScopeOf(w, k) = ScopeOf(v, k) /\ ScopeOf(v, k) < L + 1
  <2>1. \A i \in 1..L : i \in 1..(L - 1) \/ i = L
    BY <1>1
  <2>2. {j \in DOMAIN w.limits : w.limits[j] < k} = {j \in DOMAIN v.limits : v.limits[j] < k}
    BY SMTT(30), <1>1, <1>2, <1>4, <2>1
  <2>3. ScopeOf(w, k) = ScopeOf(v, k)
    BY <2>2 DEF ScopeOf
  <2>4. ScopeOf(w, k) \in 1..(L - 1 + 1)
    BY <1>1, ScopeOfRange
  <2> QED
    BY <1>1, <2>3, <2>4
<1>5. ASSUME k > K
      PROVE  ScopeOf(v, k) = L + 1
  BY <1>1, <1>3, <1>5, ScopeOfInnermost
<1> QED
  BY <1>4, <1>5

\* A name that stands for a term is at one place of the table, and its scope is that place's.
LEMMA NamePlace ==
  ASSUME TypeOK, NameTablesAgree, NEW m \in Names, nameToTerm[m] # Undef
  PROVE  \E k \in DOMAIN names.elements :
           names.elements[k][1] = m /\ NameScope(m) = ScopeOf(names, k)
<1>1. Holds(names, <<m, nameToTerm[m]>>)
  BY DEF TypeOK, NameTablesAgree
<1>2. PICK k \in DOMAIN names.elements : names.elements[k] = <<m, nameToTerm[m]>>
  BY <1>1 DEF Holds
<1>3. names.elements[k][1] = m
  BY <1>2
<1>4. {i \in DOMAIN names.elements : names.elements[i][1] = m} = {k}
  BY <1>3 DEF NameTablesAgree
<1> QED
  BY <1>3, <1>4, ScopeAmongOne DEF NameScope

\* The scope of a name, in any table where no name is at two places.
LEMMA ScopeOfName ==
  ASSUME NEW v, NEW k \in DOMAIN v.elements, NEW m, v.elements[k][1] = m,
         \A i, j \in DOMAIN v.elements : v.elements[i][1] = v.elements[j][1] => i = j
  PROVE  ScopeAmong(v, {i \in DOMAIN v.elements : v.elements[i][1] = m}) = ScopeOf(v, k)
<1>1. {i \in DOMAIN v.elements : v.elements[i][1] = m} = {k}
  OBVIOUS
<1> QED
  BY <1>1, ScopeAmongOne

\* The scope of a definition, likewise.
LEMMA ScopeOfFunction ==
  ASSUME NEW v, NEW k \in DOMAIN v.elements, NEW f, v.elements[k] = f,
         \A i, j \in DOMAIN v.elements : v.elements[i] = v.elements[j] => i = j
  PROVE  ScopeAmong(v, {i \in DOMAIN v.elements : v.elements[i] = f}) = ScopeOf(v, k)
<1>1. {i \in DOMAIN v.elements : v.elements[i] = f} = {k}
  OBVIOUS
<1> QED
  BY <1>1, ScopeAmongOne

-----------------------------------------------------------------------------
(***************************************************************************)
(* The interpreter implements a script's stack of scopes                   *)
(***************************************************************************)

AgreeInv == BasicInv /\ LevelsInv /\ NameTablesAgree

Home == IF global THEN 1 ELSE Len(frames)

\* A name that is attached belongs to the innermost scope, or to the outermost when declarations
\* are global, if that was not changed with a level open; the other names stay where they are.
LEMMA DeclareName ==
  ASSUME AgreeInv, NEW e \in Expressions, Attach(e)
  PROVE  NamedIn \subseteq NamedIn' /\ \A x \in NamedIn' \ NamedIn : switched \/ x[1] = Home
<1>1. CASE e.name = NoName \/ NameTaken(e)
  <2>1. UNCHANGED nameVars
    BY <1>1 DEF Attach
  <2>2. NamedIn' = NamedIn
    BY <2>1 DEF nameVars, NamedIn, NameScope
  <2> QED
    BY <2>2
<1>2. CASE ~(e.name = NoName \/ NameTaken(e))
  <2> DEFINE m0 == e.name
             L == Len(names.elements)
  <2>1. m0 \in Names /\ e.inner \in Terms /\ nameToTerm[m0] = Undef
    BY <1>2, ParsedType DEF NameTaken
  <2>2. /\ nameToTerm' = [nameToTerm EXCEPT ![m0] = e.inner]
        /\ names' = PushElement(names, <<m0, e.inner>>)
    BY <1>2 DEF Attach
  <2>3. /\ TypeOK /\ Scoped(Names \X Terms, names) /\ Nested(names) /\ NameTablesAgree
        /\ <<m0, e.inner>> \in Names \X Terms /\ nameToTerm \in [Names -> Terms \cup {Undef}]
    BY <2>1 DEF AgreeInv, BasicInv, TypeOK
  <2>4. /\ Scoped(Names \X Terms, names') /\ names'.limits = names.limits
        /\ L \in Nat /\ DOMAIN names.elements = 1..L /\ DOMAIN names'.elements = 1..(L + 1)
        /\ \A i \in 1..L : names'.elements[i] = names.elements[i]
        /\ names'.elements[L + 1] = <<m0, e.inner>>
    BY <2>2, <2>3, PushElementNested, ScopedDomain
  <2>5. \A i, j \in DOMAIN names'.elements : names'.elements[i][1] = names'.elements[j][1] => i = j
    <3>1. NameTablesAgree'
      BY AttachAgrees DEF AgreeInv
    <3> QED
      BY <3>1 DEF NameTablesAgree
  <2>6. ASSUME NEW m \in Names, nameToTerm[m] # Undef
        PROVE  m # m0 /\ NameScope(m)' = NameScope(m) /\ nameToTerm'[m] = nameToTerm[m]
    <3>1. PICK k \in 1..L : names.elements[k][1] = m /\ NameScope(m) = ScopeOf(names, k)
      BY <2>3, <2>4, <2>6, NamePlace
    <3>2. k \in DOMAIN names'.elements /\ names'.elements[k][1] = m
      BY <3>1, <2>4
    <3>3. NameScope(m)' = ScopeOf(names', k)
      BY <3>2, <2>5, ScopeOfName DEF NameScope
    <3>4. ScopeOf(names', k) = ScopeOf(names, k)
      BY <2>4, ScopeOfSame
    <3> QED
      BY <3>1, <3>3, <3>4, <2>1, <2>2, <2>3, <2>6
  <2>7. ASSUME ~switched PROVE NameScope(m0)' = Home
    <3>1. NameScope(m0)' = ScopeOf(names', L + 1)
      <4>1. L + 1 \in DOMAIN names'.elements /\ names'.elements[L + 1][1] = m0
        BY <2>4
      <4> QED
        BY <4>1, <2>5, ScopeOfName DEF NameScope
    <3>2. \A i \in 1..Len(names'.limits) : names'.limits[i] < L + 1
      <4>1. \A i \in 1..Len(names.limits) : names.limits[i] \in Nat /\ names.limits[i] <= L
        BY <2>3, NestedLimits
      <4> QED
        BY <4>1, <2>4
    <3>3. ScopeOf(names', L + 1) = Len(names'.limits) + 1
      BY SMTT(30), <3>2, <2>4, ScopeOfInnermost
    <3>4. Len(frames) \in Nat
      BY LenProperties DEF AgreeInv, BasicInv, TypeOK
    <3> QED
      BY <2>7, <3>1, <3>3, <3>4, <2>4 DEF AgreeInv, LevelsInv, Home
  <2>8. ASSUME NEW m \in Names, nameToTerm'[m] # Undef, m # m0
        PROVE  nameToTerm[m] # Undef
    BY <2>1, <2>2, <2>3, <2>8
  <2>9. NamedIn \subseteq NamedIn'
    <3> SUFFICES ASSUME NEW m \in Names, nameToTerm[m] # Undef
                 PROVE  <<NameScope(m), m, nameToTerm[m]>> \in NamedIn'
      BY DEF NamedIn
    <3>1. NameScope(m)' = NameScope(m) /\ nameToTerm'[m] = nameToTerm[m]
      BY <2>6
    <3> QED
      BY <3>1 DEF NamedIn
  <2>10. ASSUME NEW x \in NamedIn', x \notin NamedIn, ~switched
         PROVE  x[1] = Home
    <3>1. PICK m \in Names : nameToTerm'[m] # Undef /\ x = <<NameScope(m)', m, nameToTerm'[m]>>
      BY <2>10 DEF NamedIn
    <3>2. m = m0
      <4> SUFFICES ASSUME m # m0 PROVE FALSE
        OBVIOUS
      <4>1. nameToTerm[m] # Undef
        BY <3>1, <2>8
      <4>2. NameScope(m)' = NameScope(m) /\ nameToTerm'[m] = nameToTerm[m]
        BY <4>1, <2>6
      <4>3. x \in NamedIn
        BY <3>1, <4>1, <4>2 DEF NamedIn
      <4> QED
        BY <4>3, <2>10
    <3> QED
      BY <3>1, <3>2, <2>7, <2>10
  <2> QED
    BY <2>9, <2>10
<1> QED
  BY <1>1, <1>2

\* A definition that is stored belongs there too.
LEMMA DeclareDefinition ==
  ASSUME AgreeInv, NEW f \in Functions, NEW e \in Expressions, NEW b \in BOOLEAN,
         DefineFun(f, e, b)
  PROVE  DefinedIn \subseteq DefinedIn' /\ \A x \in DefinedIn' \ DefinedIn : x[1] = Home
<1> DEFINE L == Len(scopedNames.elements)
<1>1. /\ Scoped(Functions, scopedNames) /\ Nested(scopedNames)
      /\ \A i, j \in DOMAIN scopedNames.elements :
            scopedNames.elements[i] = scopedNames.elements[j] => i = j
      /\ \A g : Holds(scopedNames, g) => g \in defined_functions
  BY DEF AgreeInv, BasicInv, LevelsInv, TypeOK
<1>2. CASE UNCHANGED <<scopedNames, defined_functions>>
  <2>1. DefinedIn' = DefinedIn
    BY <1>2 DEF DefinedIn, FunctionScope
  <2> QED
    BY <2>1
<1>3. CASE /\ f \notin defined_functions /\ defined_functions' = defined_functions \cup {f}
           /\ global /\ UNCHANGED scopedNames
  <2>1. {i \in DOMAIN scopedNames'.elements : scopedNames'.elements[i] = f} = {}
    BY <1>1, <1>3 DEF Holds
  <2>2. FunctionScope(f)' = 1
    BY <2>1 DEF FunctionScope, ScopeAmong
  <2>3. \A g \in defined_functions : FunctionScope(g)' = FunctionScope(g)
    BY <1>3 DEF FunctionScope
  <2> QED
    BY <1>3, <2>2, <2>3 DEF DefinedIn, Home
<1>4. CASE /\ f \notin defined_functions /\ defined_functions' = defined_functions \cup {f}
           /\ ~global /\ scopedNames' = PushElement(scopedNames, f)
  <2>1. /\ Scoped(Functions, scopedNames') /\ scopedNames'.limits = scopedNames.limits
        /\ L \in Nat /\ DOMAIN scopedNames.elements = 1..L
        /\ DOMAIN scopedNames'.elements = 1..(L + 1)
        /\ \A i \in 1..L : scopedNames'.elements[i] = scopedNames.elements[i]
        /\ scopedNames'.elements[L + 1] = f
    BY <1>1, <1>4, PushElementNested, ScopedDomain
  <2>2. \A i \in 1..L : scopedNames.elements[i] # f
    BY <1>1, <1>4, <2>1 DEF Holds
  <2>3. FunctionScope(f)' = Home
    <3>1. {i \in DOMAIN scopedNames'.elements : scopedNames'.elements[i] = f} = {L + 1}
      <4>1. \A i \in 1..(L + 1) : i \in 1..L \/ i = L + 1
        BY <2>1
      <4>2. L + 1 \in 1..(L + 1)
        BY <2>1
      <4> QED
        BY <4>1, <4>2, <2>1, <2>2
    <3>2. FunctionScope(f)' = ScopeOf(scopedNames', L + 1)
      BY <3>1, ScopeAmongOne DEF FunctionScope
    <3>3. \A i \in 1..Len(scopedNames'.limits) : scopedNames'.limits[i] < L + 1
      <4>1. \A i \in 1..Len(scopedNames.limits) :
              scopedNames.limits[i] \in Nat /\ scopedNames.limits[i] <= L
        BY <1>1, NestedLimits
      <4> QED
        BY <4>1, <2>1
    <3>4. ScopeOf(scopedNames', L + 1) = Len(scopedNames'.limits) + 1
      BY <3>3, <2>1, ScopeOfInnermost
    <3>5. Len(frames) \in Nat
      BY LenProperties DEF AgreeInv, BasicInv, TypeOK
    <3> QED
      BY <3>2, <3>4, <3>5, <1>4, <2>1 DEF AgreeInv, BasicInv, Home
  <2>4. ASSUME NEW g \in defined_functions
        PROVE  FunctionScope(g)' = FunctionScope(g)
    <3>1. g # f
      BY <1>4
    <3>2. {i \in DOMAIN scopedNames'.elements : scopedNames'.elements[i] = g}
          = {i \in DOMAIN scopedNames.elements : scopedNames.elements[i] = g}
      <4>1. \A i \in 1..(L + 1) : i \in 1..L \/ i = L + 1
        BY <2>1
      <4>2. 1..L \subseteq 1..(L + 1)
        BY <2>1
      <4> QED
        BY <4>1, <4>2, <3>1, <2>1
    <3> QED
      BY <3>2, <2>1, ScopeOfSame DEF FunctionScope, ScopeAmong
  <2> QED
    BY <1>4, <2>3, <2>4 DEF DefinedIn
<1> QED
  BY <1>2, <1>3, <1>4 DEF DefineFun, DefinedInScope

\* A term that is inserted is asserted in the innermost scope.
LEMMA DeclareAssertion ==
  ASSUME AgreeInv, NEW t \in Terms, Insertable(t), Insert(t)
  PROVE  /\ AssertedIn \subseteq AssertedIn'
         /\ \A x \in AssertedIn' \ AssertedIn : x[1] = Len(frames)
<1> DEFINE L == Len(frames)
<1>1. TypeOK
  BY DEF AgreeInv, BasicInv
<1>2. /\ frames \in Seq(Seq(Terms \ NotBool)) /\ L \in Nat \ {0} /\ DOMAIN frames = 1..L
      /\ frames' \in Seq(Seq(Terms \ NotBool)) /\ Len(frames') = L /\ DOMAIN frames' = 1..L
      /\ \A i \in 1..L : i # L => frames'[i] = frames[i]
      /\ frames'[L] = Append(frames[L], t)
  BY SMTT(30), <1>1, InsertType, EmptySeq, LenProperties DEF TypeOK
<1>3. frames[L] \in Seq(Terms \ NotBool) /\ t \in Terms \ NotBool
  <2> DEFINE B == Seq(Terms \ NotBool)
  <2>1. frames \in Seq(B)
    BY <1>2
  <2>3. L \in 1..Len(frames)
    <3>1. L \in Nat /\ L # 0
      BY <1>2
    <3> QED
      BY SMTT(30), <3>1
  <2> HIDE DEF B
  <2>2. frames[L] \in B
    BY <2>1, <2>3, ElementOfSeq
  <2> QED
    BY <2>2 DEF B, Insertable
<1>4. /\ Len(frames[L]) \in Nat /\ DOMAIN frames[L] = 1..Len(frames[L])
      /\ DOMAIN Append(frames[L], t) = 1..(Len(frames[L]) + 1)
      /\ \A j \in 1..Len(frames[L]) : Append(frames[L], t)[j] = frames[L][j]
  BY <1>3, AppendProperties, LenProperties
<1>5. ASSUME NEW i \in 1..L, NEW u \in Terms
      PROVE  /\ (\E j \in DOMAIN frames[i] : frames[i][j] = u)
                => \E j \in DOMAIN frames'[i] : frames'[i][j] = u
             /\ i # L => ((\E j \in DOMAIN frames'[i] : frames'[i][j] = u)
                          => \E j \in DOMAIN frames[i] : frames[i][j] = u)
  <2>1. CASE i # L
    BY <1>2, <2>1
  <2>2. CASE i = L
    <3>1. 1..Len(frames[L]) \subseteq 1..(Len(frames[L]) + 1)
      BY SMTT(30), <1>4
    <3> QED
      BY <1>2, <1>4, <2>2, <3>1
  <2> QED
    BY SMTT(30), <2>1, <2>2
<1>6. ASSUME NEW x \in AssertedIn PROVE x \in AssertedIn'
  <2>1. /\ x \in (1..L) \X Terms /\ x[1] \in 1..L /\ x[2] \in Terms
        /\ \E j \in DOMAIN frames[x[1]] : frames[x[1]][j] = x[2]
    BY <1>2, <1>6 DEF AssertedIn
  <2>2. \E j \in DOMAIN frames'[x[1]] : frames'[x[1]][j] = x[2]
    BY SMTT(30), <2>1, <1>5
  <2> QED
    BY <2>1, <2>2, <1>2 DEF AssertedIn
<1>7. ASSUME NEW x \in AssertedIn', x \notin AssertedIn PROVE x[1] = L
  BY <1>2, <1>5, <1>7 DEF AssertedIn
<1> QED
  BY <1>6, <1>7

\* Popping a level forgets the names of the innermost scope and no others.
LEMMA PopNames ==
  ASSUME AgreeInv, PopLevel, ~switched
  PROVE  NamedIn' = {x \in NamedIn : x[1] < Len(frames)}
<1> DEFINE L == Len(names.elements)
           K == LastLimit(names)
<1>1. /\ TypeOK /\ Scoped(Names \X Terms, names) /\ Nested(names) /\ NameTablesAgree
      /\ nameToTerm \in [Names -> Terms \cup {Undef}]
      /\ Len(frames) \in Nat /\ Len(frames) > 1
  BY PopFrames DEF AgreeInv, BasicInv, TypeOK
<1>2. L \in Nat /\ DOMAIN names.elements = 1..L
  BY <1>1, ScopedDomain
<1>3. CASE global
  <2>1. NamedIn' = NamedIn
    BY <1>3 DEF PopLevel, nameVars, NamedIn, NameScope
  <2>2. ASSUME NEW m \in Names, nameToTerm[m] # Undef PROVE NameScope(m) < Len(frames)
    <3>1. PICK k \in 1..L : NameScope(m) = ScopeOf(names, k)
      BY <1>1, <1>2, <2>2, NamePlace
    <3>2. k \in Nat /\ Len(names.limits) = 0
      BY <1>2, <1>3 DEF AgreeInv, LevelsInv
    <3>3. ScopeOf(names, k) \in 1..(Len(names.limits) + 1)
      BY <1>1, <3>2, ScopeOfRange
    <3> QED
      BY <3>1, <3>2, <3>3, <1>1
  <2>3. \A x \in NamedIn : x[1] < Len(frames)
    BY <2>2 DEF NamedIn
  <2> QED
    BY <2>1, <2>3
<1>4. CASE ~global
  <2>1. names.limits # <<>> /\ Len(names.limits) + 1 = Len(frames)
    BY <1>1, <1>4 DEF AgreeInv, LevelsInv
  <2>2. /\ ForgetNames /\ names' = PopScope(names)
        /\ nameToTerm' = [m \in Names |->
              IF \E p \in Leaving(names) : p[1] = m THEN Undef ELSE nameToTerm[m]]
    BY <1>4, <2>1 DEF PopLevel, ForgetNames
  <2>3. /\ K \in 0..L /\ DOMAIN names'.elements = 1..K
        /\ \A i \in 1..K : names'.elements[i] = names.elements[i]
    BY <1>1, <2>1, <2>2, PopScopeNested
  <2>4. \A i, j \in 1..L : names.elements[i][1] = names.elements[j][1] => i = j
    BY <1>1, <1>2 DEF NameTablesAgree
  <2>5. \A p : p \in Leaving(names) <=> \E i \in (K + 1)..L : names.elements[i] = p
    BY DEF Leaving
  <2>6. \A i \in 1..K : i \in 1..L /\ i \notin (K + 1)..L
    BY <2>3, <1>2
  <2>7. \A i \in (K + 1)..L : i \in 1..L
    BY <2>3, <1>2
  <2>8. \A i, j \in 1..K : names'.elements[i][1] = names'.elements[j][1] => i = j
    BY <2>3, <2>4, <2>6
  <2>9. ASSUME NEW m \in Names, nameToTerm[m] # Undef
        PROVE  \/ /\ NameScope(m) < Len(frames)
                  /\ nameToTerm'[m] = nameToTerm[m] /\ NameScope(m)' = NameScope(m)
               \/ ~(NameScope(m) < Len(frames)) /\ nameToTerm'[m] = Undef
    <3>1. PICK k \in 1..L : names.elements[k][1] = m /\ NameScope(m) = ScopeOf(names, k)
      BY <1>1, <1>2, <2>9, NamePlace
    <3>2. CASE k <= K
      <4>1. k \in 1..K
        BY <3>2, <1>2, <2>3
      <4>2. ~\E p \in Leaving(names) : p[1] = m
        BY <3>1, <4>1, <2>4, <2>5, <2>6, <2>7
      <4>3. nameToTerm'[m] = nameToTerm[m]
        BY <4>2, <2>2
      <4>4. NameScope(m)' = ScopeOf(names', k)
        <5>1. k \in DOMAIN names'.elements /\ names'.elements[k][1] = m
          BY <3>1, <4>1, <2>3
        <5>2. \A i, j \in DOMAIN names'.elements :
                names'.elements[i][1] = names'.elements[j][1] => i = j
          BY <2>3, <2>8
        <5> QED
          BY <5>1, <5>2, ScopeOfName DEF NameScope
      <4>5. ScopeOf(names', k) = ScopeOf(names, k) /\ ScopeOf(names, k) < Len(frames)
        BY <1>1, <2>1, <2>2, <3>2, PopScopeOf
      <4> QED
        BY <3>1, <4>3, <4>4, <4>5
    <3>3. CASE k > K
      <4>1. k \in (K + 1)..L
        BY <3>3, <1>2, <2>3
      <4>2. nameToTerm'[m] = Undef
        BY <3>1, <4>1, <2>2, <2>5
      <4>3. ScopeOf(names, k) = Len(frames)
        BY <1>1, <2>1, <3>3, PopScopeOf
      <4> QED
        BY <3>1, <4>2, <4>3, <1>1
    <3> QED
      BY <3>2, <3>3, <1>2, <2>3
  <2>10. \A m \in Names : nameToTerm[m] = Undef => nameToTerm'[m] = Undef
    BY <2>2
  <2>11. ASSUME NEW x \in NamedIn' PROVE x \in NamedIn /\ x[1] < Len(frames)
    <3>1. PICK m \in Names : nameToTerm'[m] # Undef /\ x = <<NameScope(m)', m, nameToTerm'[m]>>
      BY <2>11 DEF NamedIn
    <3>2. /\ nameToTerm[m] # Undef /\ NameScope(m) < Len(frames)
          /\ nameToTerm'[m] = nameToTerm[m] /\ NameScope(m)' = NameScope(m)
      BY <3>1, <2>9, <2>10
    <3> QED
      BY <3>1, <3>2 DEF NamedIn
  <2>12. ASSUME NEW x \in NamedIn, x[1] < Len(frames) PROVE x \in NamedIn'
    <3>1. PICK m \in Names : nameToTerm[m] # Undef /\ x = <<NameScope(m), m, nameToTerm[m]>>
      BY <2>12 DEF NamedIn
    <3>2. nameToTerm'[m] = nameToTerm[m] /\ NameScope(m)' = NameScope(m)
      BY <3>1, <2>9, <2>12
    <3> QED
      BY <3>1, <3>2 DEF NamedIn
  <2> QED
    BY <2>11, <2>12
<1> QED
  BY <1>3, <1>4

\* And the definitions of that scope and no others.
LEMMA PopDefinitions ==
  ASSUME AgreeInv, PopLevel
  PROVE  DefinedIn' = {x \in DefinedIn : x[1] < Len(frames)}
<1> DEFINE v == scopedNames
           L == Len(v.elements)
           K == LastLimit(v)
           places(f) == {i \in DOMAIN v.elements : v.elements[i] = f}
<1>1. /\ Scoped(Functions, v) /\ Nested(v) /\ v.limits # <<>> /\ Len(v.limits) + 1 = Len(frames)
      /\ Len(frames) \in Nat /\ Len(frames) > 1
      /\ \A i, j \in DOMAIN v.elements : v.elements[i] = v.elements[j] => i = j
      /\ \A f : Holds(v, f) => f \in defined_functions
  BY SMTT(30), PopFrames DEF AgreeInv, BasicInv, LevelsInv, TypeOK
<1>2. v' = PopScope(v) /\ defined_functions' = defined_functions \ Leaving(v)
  BY DEF PopLevel
<1>3. /\ L \in Nat /\ DOMAIN v.elements = 1..L /\ K \in 0..L /\ DOMAIN v'.elements = 1..K
      /\ \A i \in 1..K : v'.elements[i] = v.elements[i]
  BY <1>1, <1>2, PopScopeNested
<1>4. \A f : f \in Leaving(v) <=> \E i \in (K + 1)..L : v.elements[i] = f
  BY DEF Leaving
<1>5. /\ \A i \in 1..K : i \in 1..L /\ i \notin (K + 1)..L
      /\ \A i \in (K + 1)..L : i \in 1..L
  BY <1>3
<1>6. \A i, j \in 1..K : v'.elements[i] = v'.elements[j] => i = j
  BY <1>1, <1>3, <1>5
<1>7. ASSUME NEW f \in defined_functions
      PROVE  \/ /\ FunctionScope(f) < Len(frames)
                /\ f \in defined_functions' /\ FunctionScope(f)' = FunctionScope(f)
             \/ ~(FunctionScope(f) < Len(frames)) /\ f \notin defined_functions'
  <2>1. CASE places(f) = {}
    <3>1. {i \in DOMAIN v'.elements : v'.elements[i] = f} = {}
      BY <2>1, <1>3, <1>5
    <3>2. FunctionScope(f) = 1 /\ FunctionScope(f)' = 1
      BY <2>1, <3>1 DEF FunctionScope, ScopeAmong
    <3>3. f \notin Leaving(v)
      BY <2>1, <1>3, <1>4, <1>5
    <3> QED
      BY <3>2, <3>3, <1>1, <1>2
  <2>2. CASE places(f) # {}
    <3>1. PICK k \in 1..L : v.elements[k] = f
      BY <2>2, <1>3
    <3>2. FunctionScope(f) = ScopeOf(v, k)
      BY SMTT(30), <3>1, <1>1, <1>3, ScopeOfFunction DEF FunctionScope
    <3>3. CASE k <= K
      <4>1. k \in 1..K
        BY <3>3, <1>3
      <4>2. f \notin Leaving(v)
        <5> SUFFICES ASSUME NEW i \in (K + 1)..L, v.elements[i] = f PROVE FALSE
          BY <1>4
        <5>1. i = k
          BY <3>1, <1>1, <1>3, <1>5
        <5> QED
          BY <4>1, <5>1, <1>5
      <4>3. FunctionScope(f)' = ScopeOf(v', k)
        BY <3>1, <4>1, <1>3, <1>6, ScopeOfFunction DEF FunctionScope
      <4>4. ScopeOf(v', k) = ScopeOf(v, k) /\ ScopeOf(v, k) < Len(frames)
        BY <1>1, <1>2, <3>3, PopScopeOf
      <4> QED
        BY <3>2, <4>2, <4>3, <4>4, <1>2
    <3>4. CASE k > K
      <4>1. k \in (K + 1)..L
        BY <3>4, <1>3
      <4>2. f \in Leaving(v)
        BY <3>1, <4>1, <1>4
      <4>3. ScopeOf(v, k) = Len(frames)
        BY <1>1, <3>4, PopScopeOf
      <4> QED
        BY <3>2, <4>2, <4>3, <1>1, <1>2
    <3> QED
      BY <3>3, <3>4, <1>3
  <2> QED
    BY <2>1, <2>2
<1>8. defined_functions' \subseteq defined_functions
  BY <1>2
<1>9. ASSUME NEW x \in DefinedIn' PROVE x \in DefinedIn /\ x[1] < Len(frames)
  <2>1. PICK f \in defined_functions' : x = <<FunctionScope(f)', f>>
    BY <1>9 DEF DefinedIn
  <2>2. f \in defined_functions /\ FunctionScope(f) < Len(frames) /\ FunctionScope(f)' = FunctionScope(f)
    BY <2>1, <1>7, <1>8
  <2> QED
    BY <2>1, <2>2 DEF DefinedIn
<1>10. ASSUME NEW x \in DefinedIn, x[1] < Len(frames) PROVE x \in DefinedIn'
  <2>1. PICK f \in defined_functions : x = <<FunctionScope(f), f>>
    BY <1>10 DEF DefinedIn
  <2>2. f \in defined_functions' /\ FunctionScope(f)' = FunctionScope(f)
    BY <2>1, <1>7, <1>10
  <2> QED
    BY <2>1, <2>2 DEF DefinedIn
<1> QED
  BY <1>9, <1>10

\* And its assertions.
LEMMA PopAssertions ==
  ASSUME AgreeInv, PopLevel
  PROVE  AssertedIn' = {x \in AssertedIn : x[1] < Len(frames)}
<1> DEFINE L == Len(frames)
<1>1. /\ L \in Nat /\ L > 1 /\ DOMAIN frames = 1..L /\ DOMAIN frames' = 1..(L - 1)
      /\ \A i \in 1..(L - 1) : frames'[i] = frames[i]
  BY PopFrames, LenProperties DEF AgreeInv, BasicInv, TypeOK
<1>2. \A i \in 1..L : i < L <=> i \in 1..(L - 1)
  BY <1>1
<1>3. \A i \in 1..(L - 1) : i \in 1..L
  BY <1>1
<1>4. ASSUME NEW x \in AssertedIn' PROVE x \in AssertedIn /\ x[1] < L
  <2>1. /\ x \in (1..(L - 1)) \X Terms /\ x[1] \in 1..(L - 1) /\ x[2] \in Terms
        /\ \E j \in DOMAIN frames'[x[1]] : frames'[x[1]][j] = x[2]
    BY <1>1, <1>4 DEF AssertedIn
  <2>2. x \in (1..L) \X Terms /\ x[1] < L /\ frames'[x[1]] = frames[x[1]]
    BY <2>1, <1>1, <1>2, <1>3
  <2> QED
    BY <2>1, <2>2, <1>1 DEF AssertedIn
<1>5. ASSUME NEW x \in AssertedIn, x[1] < L PROVE x \in AssertedIn'
  <2>1. /\ x \in (1..L) \X Terms /\ x[1] \in 1..L /\ x[2] \in Terms
        /\ \E j \in DOMAIN frames[x[1]] : frames[x[1]][j] = x[2]
    BY <1>1, <1>5 DEF AssertedIn
  <2>2. x \in (1..(L - 1)) \X Terms /\ frames'[x[1]] = frames[x[1]]
    BY <2>1, <1>1, <1>2, <1>5
  <2> QED
    BY <2>1, <2>2, <1>1 DEF AssertedIn
<1> QED
  BY <1>4, <1>5

LEMMA ScriptStutters ==
  ASSUME UNCHANGED <<frames, names, nameToTerm, scopedNames, defined_functions, global, switched>>
  PROVE  UNCHANGED Script!vars
BY DEF Script!vars, AssertedIn, NamedIn, NameScope, DefinedIn, FunctionScope

\* A command that only adds is a step of the script.
LEMMA ScriptDeclares ==
  ASSUME AgreeInv, UNCHANGED <<global, switched>>, Len(frames') = Len(frames),
         AssertedIn \subseteq AssertedIn' /\ \A x \in AssertedIn' \ AssertedIn : x[1] = Len(frames),
         NamedIn \subseteq NamedIn' /\ \A x \in NamedIn' \ NamedIn : switched \/ x[1] = Home,
         DefinedIn \subseteq DefinedIn' /\ \A x \in DefinedIn' \ DefinedIn : x[1] = Home
  PROVE  Script!Next
<1>1. /\ \A d, e \in NamedIn' : d[2] = e[2] => d = e
      /\ \A d, e \in DefinedIn' : d[2] = e[2] => d = e
  BY DEF NamedIn, DefinedIn
<1>2. Script!Declare
  BY <1>1 DEF Script!Declare, Home
<1> QED
  BY <1>2 DEF Script!Next

LEMMA ScriptInit == Init => Script!Init
<1> SUFFICES ASSUME Init PROVE Script!Init
  OBVIOUS
<1>1. Len(frames) = 1 /\ DOMAIN frames = {1} /\ DOMAIN frames[1] = {}
  BY DEF Init
<1>2. AssertedIn = {}
  BY <1>1 DEF AssertedIn
<1>3. NamedIn = {} /\ DefinedIn = {} /\ global \in BOOLEAN /\ switched = FALSE
  BY DEF Init, NamedIn, DefinedIn
<1> QED
  BY <1>1, <1>2, <1>3 DEF Script!Init

\* Changing the option moves nothing between scopes either.
LEMMA ScriptChooses ==
  ASSUME AgreeInv, NEW b \in BOOLEAN, SetGlobal(b)
  PROVE  [Script!Next]_(Script!vars)
<1>1. /\ UNCHANGED <<frames, names, nameToTerm, scopedNames, defined_functions>>
      /\ global \in BOOLEAN /\ switched \in BOOLEAN
      /\ global' = b /\ switched' = (switched \/ (b # global /\ Len(frames) > 1))
  BY DEF SetGlobal, AgreeInv, BasicInv, TypeOK, solverVars, nameVars, functionVars
<1>2. CASE b = global
  <2>1. UNCHANGED <<global, switched>>
    BY <1>1, <1>2
  <2> QED
    BY <1>1, <2>1, ScriptStutters
<1>3. CASE b # global
  <2>1. AssertedIn' = AssertedIn /\ NamedIn' = NamedIn /\ DefinedIn' = DefinedIn
    BY <1>1 DEF AssertedIn, NamedIn, NameScope, DefinedIn, FunctionScope
  <2>2. global' = ~global /\ switched' = (switched \/ Len(frames) > 1)
    BY <1>1, <1>3
  <2>3. Script!Choose
    BY <1>1, <2>1, <2>2 DEF Script!Choose
  <2> QED
    BY <2>3 DEF Script!Next
<1> QED
  BY <1>2, <1>3

\* Opening a scope moves nothing between scopes.
LEMMA ScriptPushes == ASSUME AgreeInv, AgreeInv', PushLevel PROVE Script!Next
<1>1. /\ Scoped(Names \X Terms, names) /\ Nested(names)
      /\ Scoped(Functions, scopedNames) /\ Nested(scopedNames)
  BY DEF AgreeInv, BasicInv, TypeOK
<1>2. UNCHANGED <<nameToTerm, defined_functions, global, switched>>
  BY DEF PushLevel, configVars
<1>3. /\ Len(frames) \in Nat /\ Len(frames') = Len(frames) + 1
      /\ DOMAIN frames = 1..Len(frames) /\ DOMAIN frames' = 1..(Len(frames) + 1)
      /\ \A i \in 1..Len(frames) : frames'[i] = frames[i]
      /\ frames'[Len(frames) + 1] = <<>>
  <2> DEFINE B == Seq(Terms \ NotBool)
  <2>1. <<>> \in B /\ frames \in Seq(B) /\ frames' = Append(frames, <<>>)
    BY EmptySeq DEF PushLevel, AgreeInv, BasicInv, TypeOK
  <2> HIDE DEF B
  <2> QED
    BY <2>1, AppendProperties, LenProperties
<1>4. AssertedIn' = AssertedIn
  <2>1. \A i \in 1..(Len(frames) + 1) : i \in 1..Len(frames) \/ i = Len(frames) + 1
    BY <1>3
  <2>2. \A i \in 1..Len(frames) : i \in 1..(Len(frames) + 1)
    BY <1>3
  <2>3. DOMAIN frames'[Len(frames) + 1] = {}
    BY <1>3
  <2>4. ASSUME NEW x \in AssertedIn' PROVE x \in AssertedIn
    <3>1. /\ x \in (1..(Len(frames) + 1)) \X Terms /\ x[1] \in 1..(Len(frames) + 1)
          /\ x[2] \in Terms /\ \E j \in DOMAIN frames'[x[1]] : frames'[x[1]][j] = x[2]
      BY <1>3, <2>4 DEF AssertedIn
    <3>2. x[1] \in 1..Len(frames)
      BY <2>1, <2>3, <3>1
    <3>3. x \in (1..Len(frames)) \X Terms /\ frames'[x[1]] = frames[x[1]]
      BY <1>3, <3>1, <3>2
    <3> QED
      BY <3>1, <3>3, <1>3 DEF AssertedIn
  <2>5. ASSUME NEW x \in AssertedIn PROVE x \in AssertedIn'
    <3>1. /\ x \in (1..Len(frames)) \X Terms /\ x[1] \in 1..Len(frames)
          /\ x[2] \in Terms /\ \E j \in DOMAIN frames[x[1]] : frames[x[1]][j] = x[2]
      BY <1>3, <2>5 DEF AssertedIn
    <3>2. x \in (1..(Len(frames) + 1)) \X Terms /\ frames'[x[1]] = frames[x[1]]
      BY <1>3, <2>2, <3>1
    <3> QED
      BY <3>1, <3>2, <1>3 DEF AssertedIn
  <2> QED
    BY <2>4, <2>5
<1>5. NamedIn' = NamedIn
  <2>1. CASE global
    BY <1>2, <2>1 DEF PushLevel, PushNames, NamedIn, NameScope
  <2>2. CASE ~global
    <3>1. names' = PushScope(names) /\ names'.elements = names.elements
      BY <1>1, <2>2, PushScopeNested DEF PushLevel, PushNames
    <3>2. ASSUME NEW m \in Names, nameToTerm[m] # Undef PROVE NameScope(m)' = NameScope(m)
      <4>1. PICK k \in DOMAIN names.elements :
              names.elements[k][1] = m /\ NameScope(m) = ScopeOf(names, k)
        BY <3>2, NamePlace DEF AgreeInv, BasicInv
      <4>2. k \in 1..Len(names.elements)
        BY <1>1, ScopedDomain
      <4>3. ScopeOf(names', k) = ScopeOf(names, k)
        BY <1>1, <3>1, <4>2, PushScopeOf
      <4>4. NameScope(m)' = ScopeOf(names', k)
        BY <3>1, <4>1, ScopeOfName DEF NameScope, AgreeInv, NameTablesAgree
      <4> QED
        BY <4>1, <4>3, <4>4
    <3> QED
      BY <1>2, <3>2 DEF NamedIn
  <2> QED
    BY <2>1, <2>2
<1>6. DefinedIn' = DefinedIn
  <2>1. scopedNames' = PushScope(scopedNames) /\ scopedNames'.elements = scopedNames.elements
    BY <1>1, PushScopeNested DEF PushLevel
  <2>2. ASSUME NEW f \in defined_functions PROVE FunctionScope(f)' = FunctionScope(f)
    <3>1. CASE {i \in DOMAIN scopedNames.elements : scopedNames.elements[i] = f} = {}
      BY <2>1, <3>1 DEF FunctionScope, ScopeAmong
    <3>2. CASE {i \in DOMAIN scopedNames.elements : scopedNames.elements[i] = f} # {}
      <4>1. PICK k \in DOMAIN scopedNames.elements : scopedNames.elements[k] = f
        BY <3>2
      <4>2. k \in 1..Len(scopedNames.elements)
        BY <1>1, ScopedDomain
      <4>3. ScopeOf(scopedNames', k) = ScopeOf(scopedNames, k)
        BY <1>1, <2>1, <4>2, PushScopeOf
      <4>4. /\ FunctionScope(f)' = ScopeOf(scopedNames', k)
            /\ FunctionScope(f) = ScopeOf(scopedNames, k)
        BY <2>1, <4>1, ScopeOfFunction DEF FunctionScope, AgreeInv, LevelsInv
      <4> QED
        BY <4>3, <4>4
    <3> QED
      BY <3>1, <3>2
  <2> QED
    BY <1>2, <2>2 DEF DefinedIn
<1>7. Script!Push
  BY <1>2, <1>3, <1>4, <1>5, <1>6 DEF Script!Push
<1> QED
  BY <1>7 DEF Script!Next

LEMMA ScriptPops == ASSUME AgreeInv, PopLevel PROVE Script!Next
<1>1. Len(frames') = Len(frames) - 1 /\ Len(frames) > 1
  BY PopFrames DEF AgreeInv, BasicInv
<1>2. UNCHANGED <<global, switched>>
  BY DEF PopLevel, configVars
<1>3. Script!Pop
  BY <1>1, <1>2, PopNames, PopDefinitions, PopAssertions DEF Script!Pop
<1> QED
  BY <1>3 DEF Script!Next

LEMMA ScriptStep == AgreeInv /\ AgreeInv' /\ [Next]_vars => [Script!Next]_(Script!vars)
<1> SUFFICES ASSUME AgreeInv, AgreeInv', [Next]_vars PROVE [Script!Next]_(Script!vars)
  OBVIOUS
<1>1. ASSUME UNCHANGED frames PROVE AssertedIn' = AssertedIn /\ Len(frames') = Len(frames)
  BY <1>1 DEF AssertedIn
<1>2. ASSUME UNCHANGED functionVars PROVE DefinedIn' = DefinedIn
  BY <1>2 DEF functionVars, DefinedIn, FunctionScope
<1>3. ASSUME UNCHANGED nameVars PROVE NamedIn' = NamedIn
  BY <1>3 DEF nameVars, NamedIn, NameScope
<1>4. ASSUME NEW b \in BOOLEAN, SetGlobal(b) PROVE [Script!Next]_(Script!vars)
  BY <1>4, ScriptChooses
<1>5. ASSUME NEW f \in Functions, NEW e \in Expressions, NEW b \in BOOLEAN, DefineFun(f, e, b)
      PROVE  Script!Next
  <2>1. UNCHANGED <<frames, global, switched>> /\ Attach(e)
    BY <1>5 DEF DefineFun, solverVars, configVars
  <2> QED
    BY <1>1, <1>5, <2>1, DeclareName, DeclareDefinition, ScriptDeclares
<1>6. ASSUME NEW e \in Expressions, Assert(e) PROVE Script!Next
  <2>1. UNCHANGED <<global, switched>> /\ Attach(e) /\ DefinedIn' = DefinedIn
    BY <1>2, <1>6 DEF Assert, configVars
  <2>2. CASE UNCHANGED solverVars
    BY <1>1, <2>1, <2>2, DeclareName, ScriptDeclares DEF solverVars
  <2>3. CASE Parsed(e) # Undef /\ Insertable(Parsed(e)) /\ Insert(Parsed(e))
    <3>1. Parsed(e) \in Terms
      BY <2>3, ParsedType
    <3>2. Len(frames') = Len(frames)
      BY <2>3, <3>1, InsertType DEF AgreeInv, BasicInv
    <3> QED
      BY <2>1, <2>3, <3>1, <3>2, DeclareName, DeclareAssertion, ScriptDeclares
  <2> QED
    BY <1>6, <2>2, <2>3 DEF Assert
<1>7. ASSUME NEW e \in Expressions, Query(e) PROVE Script!Next
  <2>1. UNCHANGED <<frames, global, switched>> /\ Attach(e) /\ DefinedIn' = DefinedIn
    BY <1>2, <1>7 DEF Query, solverVars, configVars
  <2> QED
    BY <1>1, <2>1, DeclareName, ScriptDeclares
<1>8. ASSUME NEW t \in Terms, AssertDirectly(t) PROVE Script!Next
  <2>1. UNCHANGED <<global, switched>> /\ NamedIn' = NamedIn /\ DefinedIn' = DefinedIn /\ Insertable(t) /\ Insert(t)
    BY <1>2, <1>3, <1>8 DEF AssertDirectly, configVars
  <2>2. Len(frames') = Len(frames)
    BY <2>1, InsertType DEF AgreeInv, BasicInv
  <2> QED
    BY <2>1, <2>2, DeclareAssertion, ScriptDeclares
<1>9. CASE PushLevel
  BY <1>9, ScriptPushes
<1>10. CASE PopLevel
  BY <1>10, ScriptPops
<1>11. ASSUME \/ \E l \in Logics : SetLogic(l)
              \/ \E s \in Symbols : DeclareFun(s)
              \/ \E k \in 0..MaxLevels : Push(k) \/ Pop(k)
              \/ EndLoop
              \/ Exit
              \/ UNCHANGED vars
       PROVE  UNCHANGED Script!vars
  <2>1. UNCHANGED <<frames, names, nameToTerm, scopedNames, defined_functions, global, switched>>
    BY <1>11
    DEF SetLogic, DeclareFun, Push, Pop, Loop, EndLoop, Exit,
        vars, configVars, solverVars, nameVars, functionVars, loopVars
  <2> QED
    BY <2>1, ScriptStutters
<1> QED
  BY <1>4, <1>5, <1>6, <1>7, <1>8, <1>9, <1>10, <1>11 DEF Next

\* SMT-LIB's stack of scopes is what the interpreter and MainSolver implement, for every script: a
\* pop forgets what was asserted, named and defined in the innermost scope, all three and nothing
\* else, and no other command forgets anything.  Of the names this is promised until a script changes
\* :global-declarations while a level is open.
THEOREM ImplementsScript == Spec => ImplementsScopedScript
<1>1. Init => AgreeInv
  BY BasicInit, LevelsInit, NameTablesInit DEF AgreeInv
<1>2. AgreeInv /\ [Next]_vars => AgreeInv'
  BY BasicStep, LevelsStep, NameTablesStep DEF AgreeInv
<1>3. Init => Script!Init
  BY ScriptInit
<1>4. AgreeInv /\ AgreeInv' /\ [Next]_vars => [Script!Next]_(Script!vars)
  BY ScriptStep
<1> QED
  BY <1>1, <1>2, <1>3, <1>4, PTL DEF Spec, ImplementsScopedScript, Script!Spec

=============================================================================

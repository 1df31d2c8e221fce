---------------------------- MODULE ManagerProofs ----------------------------
(***************************************************************************)
(* Theorems about the provider registry, for any number of goroutines,     *)
(* names and providers.  IInv (in Manager) is inductive: beyond the checked *)
(* invariants it says that a registration waiting for the lock holds a real *)
(* provider and a name that is not blank.                                   *)
(***************************************************************************)
EXTENDS Manager, TLAPS

USE SpellingAssumption, ObjectAssumption

LEMMA InitIInv == Init => IInv
<1> SUFFICES ASSUME Init PROVE IInv  OBVIOUS
<1>1. TypeOK  BY DEF Init, TypeOK, NotPending
<1> QED  BY <1>1 DEF Init, IInv, NamesDisjoint, AliasesResolve, OneClaimEach, ListedIsFound,
                     NameExists, Ready

LEMMA StepType == ASSUME IInv, [Next]_vars PROVE TypeOK'
<1> USE DEF IInv, TypeOK
<1>1. ASSUME NEW c \in Callers, NEW o \in Objects \union {Nobody}, RegisterReadsName(c, o)
      PROVE  TypeOK'
  <2> DEFINE name == IF o = Nobody THEN Blank ELSE Trim[NameOf[o]]
  <2>1. name \in Spellings  OBVIOUS
  <2>2. UNCHANGED <<providers, aliases, found, listed, claims>>
    BY <1>1 DEF RegisterReadsName
  <2>3. \/ Answer(c, "invalid_configuration") /\ UNCHANGED pending
        \/ Answer(c, "none") /\ pending' = [pending EXCEPT ![c] = [object |-> o, name |-> name]]
    BY <1>1 DEF RegisterReadsName
  <2> HIDE DEF name
  <2>4. pending' \in [Callers -> [object: Objects \union {Nobody}, name: Spellings]]
    BY <2>1, <2>3
  <2>5. answer' \in [Callers -> {"none", "ok", "invalid_configuration", "duplicate_provider",
                                 "provider_not_found"}]
    BY <2>3 DEF Answer
  <2> QED  BY <2>2, <2>4, <2>5
<1>2. ASSUME NEW c \in Callers, RegisterLocked(c)
      PROVE  TypeOK'
  <2>1. UNCHANGED <<aliases, found, listed>>
    BY <1>2 DEF RegisterLocked
  <2>2. /\ pending[c].object \in Objects \union {Nobody}
        /\ pending[c].name \in Spellings
    OBVIOUS
  <2>3. \/ Answer(c, "duplicate_provider") /\ UNCHANGED <<providers, claims>>
        \/ /\ Answer(c, "ok")
           /\ providers' = [providers EXCEPT ![pending[c].name] = pending[c].object]
           /\ claims' = [claims EXCEPT ![pending[c].name] = @ + 1]
    BY <1>2 DEF RegisterLocked
  <2>4. pending' \in [Callers -> [object: Objects \union {Nobody}, name: Spellings]]
    BY <1>2 DEF RegisterLocked, NotPending
  <2>5. answer' \in [Callers -> {"none", "ok", "invalid_configuration", "duplicate_provider",
                                 "provider_not_found"}]
    BY <2>3 DEF Answer
  <2>6. providers' \in [Spellings -> Objects \union {Nobody}]
    BY <2>2, <2>3
  <2>7. claims' \in [Spellings -> Nat]
    BY <2>2, <2>3
  <2> QED  BY <2>1, <2>4, <2>5, <2>6, <2>7
<1>3. ASSUME NEW c \in Callers, NEW a \in Spellings, NEW n \in Spellings, RegisterAlias(c, a, n)
      PROVE  TypeOK'
  <2>1. UNCHANGED <<providers, pending, found, listed>>
    BY <1>3 DEF RegisterAlias
  <2>2. Trim[a] \in Spellings /\ Trim[n] \in Spellings
    OBVIOUS
  <2>3. \/ UNCHANGED <<aliases, claims>>
        \/ /\ aliases' = [aliases EXCEPT ![Trim[a]] = Trim[n]]
           /\ claims' = [claims EXCEPT ![Trim[a]] = @ + 1]
    BY <1>3 DEF RegisterAlias
  <2>4. \E e \in {"ok", "invalid_configuration", "duplicate_provider", "provider_not_found"} :
          Answer(c, e)
    BY <1>3 DEF RegisterAlias
  <2>5. answer' \in [Callers -> {"none", "ok", "invalid_configuration", "duplicate_provider",
                                 "provider_not_found"}]
    BY <2>4 DEF Answer
  <2>6. aliases' \in [Spellings -> Spellings]
    BY <2>2, <2>3
  <2>7. claims' \in [Spellings -> Nat]
    <3>1. CASE UNCHANGED claims  BY <3>1
    <3>2. CASE claims' = [claims EXCEPT ![Trim[a]] = @ + 1]
      <4>1. claims[Trim[a]] + 1 \in Nat  BY <2>2
      <4> QED  BY <3>2, <4>1
    <3> QED  BY <2>3, <3>1, <3>2
  <2> QED  BY <2>1, <2>5, <2>6, <2>7
<1>4. ASSUME NEW c \in Callers, NEW n \in Spellings, Provider(c, n)
      PROVE  TypeOK'
  <2>1. Resolve(Trim[n]) \in Objects \union {Nobody}  BY DEF Resolve
  <2> QED  BY <1>4, <2>1 DEF Provider, Answer
<1>5. ASSUME NEW c \in Callers, Names(c)
      PROVE  TypeOK'
  BY <1>5 DEF Names, Answer, Canonical
<1>6. CASE UNCHANGED vars  BY <1>6 DEF vars
<1> QED  BY <1>1, <1>2, <1>3, <1>4, <1>5, <1>6 DEF Next, Call

LEMMA StepIInv == ASSUME IInv, [Next]_vars PROVE IInv'
<1>0. TypeOK'  BY StepType
<1> USE <1>0 DEF IInv, TypeOK, NamesDisjoint, AliasesResolve, OneClaimEach, ListedIsFound,
                 NameExists, Ready
<1>1. ASSUME NEW c \in Callers, NEW o \in Objects \union {Nobody}, RegisterReadsName(c, o)
      PROVE  IInv'
  BY <1>1 DEF RegisterReadsName, NotPending
<1>2. ASSUME NEW c \in Callers, RegisterLocked(c)
      PROVE  IInv'
  <2> DEFINE name == pending[c].name
             o == pending[c].object
  <2>1. /\ name \in Spellings /\ name # Blank /\ o \in Objects /\ o # Nobody
    BY <1>2 DEF RegisterLocked
  <2>2. CASE NameExists(name)
    BY <1>2, <2>1, <2>2 DEF RegisterLocked, NotPending
  <2>3. CASE ~NameExists(name)
    <3>1. /\ providers' = [providers EXCEPT ![name] = o]
          /\ claims' = [claims EXCEPT ![name] = @ + 1]
          /\ pending' = [pending EXCEPT ![c] = NotPending]
          /\ UNCHANGED <<aliases, found, listed>>
      BY <1>2, <2>3 DEF RegisterLocked
    <3> QED  BY <2>1, <2>3, <3>1 DEF NotPending
  <2> QED  BY <2>2, <2>3
<1>3. ASSUME NEW c \in Callers, NEW a \in Spellings, NEW n \in Spellings, RegisterAlias(c, a, n)
      PROVE  IInv'
  <2>1. CASE aliases' = aliases /\ claims' = claims
    BY <1>3, <2>1 DEF RegisterAlias
  <2>2. CASE /\ Trim[a] # Blank /\ Trim[n] # Blank /\ ~NameExists(Trim[a])
             /\ providers[Trim[n]] # Nobody
             /\ aliases' = [aliases EXCEPT ![Trim[a]] = Trim[n]]
             /\ claims' = [claims EXCEPT ![Trim[a]] = @ + 1]
    <3>1. UNCHANGED <<providers, pending, listed>>  BY <1>3 DEF RegisterAlias
    <3>2. Trim[a] \in Spellings /\ Trim[n] \in Spellings  OBVIOUS
    <3> QED  BY <2>2, <3>1, <3>2
  <2> QED  BY <1>3, <2>1, <2>2 DEF RegisterAlias
<1>4. ASSUME NEW c \in Callers, NEW n \in Spellings, Provider(c, n)
      PROVE  IInv'
  BY <1>4 DEF Provider
<1>5. ASSUME NEW c \in Callers, Names(c)
      PROVE  IInv'
  BY <1>5 DEF Names, Canonical
<1>6. CASE UNCHANGED vars  BY <1>6 DEF vars
<1> QED  BY <1>1, <1>2, <1>3, <1>4, <1>5, <1>6 DEF Next, Call

\* The strengthened invariant holds in every reachable state of the registry.
THEOREM Invariant == Spec => []IInv
<1>1. IInv /\ [Next]_vars => IInv'  BY StepIInv
<1> QED  BY InitIInv, <1>1, PTL DEF Spec

\* The registry's maps, and what callers hold, keep their types.
THEOREM Typing == Spec => []TypeOK
<1>1. IInv => TypeOK  BY DEF IInv
<1> QED  BY Invariant, <1>1, PTL

\* No name is both canonical and an alias, the blank name is neither, and every alias
\* leads to a registered provider in one step.
THEOREM Consistent == Spec => []RegistryConsistent
<1>1. IInv => RegistryConsistent  BY DEF IInv, RegistryConsistent
<1> QED  BY Invariant, <1>1, PTL

\* However many goroutines race for a name, exactly one registration of it succeeds.
THEOREM OneWinner == Spec => []OneClaimEach
<1>1. IInv => OneClaimEach  BY DEF IInv
<1> QED  BY Invariant, <1>1, PTL

\* A listed name stays registered.
THEOREM ListedStays == Spec => []ListedIsFound
<1>1. IInv => ListedIsFound  BY DEF IInv
<1> QED  BY Invariant, <1>1, PTL

-----------------------------------------------------------------------------
(* The two maps as one: what a step does to the name it is about.           *)

LEMMA RegisterBinds ==
  ASSUME IInv, NEW c \in Callers, RegisterLocked(c), ~NameExists(pending[c].name)
  PROVE  /\ Resolve(pending[c].name) = Nobody
         /\ \A k \in Spellings : Resolve(k)' = IF k = pending[c].name THEN pending[c].object
                                               ELSE Resolve(k)
<1> DEFINE name == pending[c].name
           o == pending[c].object
<1>1. /\ name \in Spellings /\ name # Blank /\ o \in Objects /\ o # Nobody
  BY DEF RegisterLocked, IInv, TypeOK
<1>2. /\ providers' = [providers EXCEPT ![name] = o]
      /\ aliases' = aliases
  BY DEF RegisterLocked
<1>3. \A k \in Spellings : aliases[k] # Blank => aliases[k] # name
  BY DEF IInv, AliasesResolve, NameExists
<1> QED  BY <1>1, <1>2, <1>3 DEF Resolve, NameExists, IInv, TypeOK

LEMMA AliasBinds ==
  ASSUME IInv, NEW c \in Callers, NEW a \in Spellings, NEW n \in Spellings,
         Trim[a] # Blank, Trim[n] # Blank, ~NameExists(Trim[a]), providers[Trim[n]] # Nobody,
         providers' = providers, aliases' = [aliases EXCEPT ![Trim[a]] = Trim[n]]
  PROVE  /\ Resolve(Trim[a]) = Nobody
         /\ \A k \in Spellings : Resolve(k)' = IF k = Trim[a] THEN providers[Trim[n]]
                                               ELSE Resolve(k)
BY DEF Resolve, NameExists, IInv, TypeOK

LEMMA UnchangedMaps ==
  ASSUME providers' = providers, aliases' = aliases
  PROVE  \A k \in Spellings : Resolve(k)' = Resolve(k)
BY DEF Resolve

\* Every step binds one unbound name or leaves every name as it was.
LEMMA StepBinds ==
  ASSUME IInv, [Next]_vars
  PROVE  \/ \A k \in Spellings : Resolve(k)' = Resolve(k)
         \/ \E n \in Spellings, o \in Objects :
              /\ Resolve(n) = Nobody
              /\ \A k \in Spellings : Resolve(k)' = IF k = n THEN o ELSE Resolve(k)
<1> DEFINE Goal == \/ \A k \in Spellings : Resolve(k)' = Resolve(k)
                   \/ \E n \in Spellings, o \in Objects :
                        /\ Resolve(n) = Nobody
                        /\ \A k \in Spellings : Resolve(k)' = IF k = n THEN o ELSE Resolve(k)
<1> HIDE DEF Goal
<1>1. ASSUME providers' = providers, aliases' = aliases
      PROVE  Goal
  BY <1>1, UnchangedMaps DEF Goal
<1>2. ASSUME NEW c \in Callers, RegisterLocked(c), ~NameExists(pending[c].name)
      PROVE  Goal
  <2> DEFINE name == pending[c].name
             o == pending[c].object
  <2>1. name \in Spellings /\ o \in Objects
    BY <1>2 DEF RegisterLocked, IInv, TypeOK, Ready
  <2>2. PICK m \in Spellings, p \in Objects : m = name /\ p = o  BY <2>1
  <2>3. /\ Resolve(m) = Nobody
        /\ \A k \in Spellings : Resolve(k)' = IF k = m THEN p ELSE Resolve(k)
    BY <1>2, <2>2, RegisterBinds
  <2> QED  BY <2>3 DEF Goal
<1>3. ASSUME NEW c \in Callers, NEW a \in Spellings, NEW n \in Spellings,
             Trim[a] # Blank, Trim[n] # Blank, ~NameExists(Trim[a]), providers[Trim[n]] # Nobody,
             providers' = providers, aliases' = [aliases EXCEPT ![Trim[a]] = Trim[n]]
      PROVE  Goal
  <2>1. PICK m \in Spellings, p \in Objects : m = Trim[a] /\ p = providers[Trim[n]]
    BY <1>3 DEF IInv, TypeOK
  <2>2. /\ Resolve(m) = Nobody
        /\ \A k \in Spellings : Resolve(k)' = IF k = m THEN p ELSE Resolve(k)
    BY <1>3, <2>1, AliasBinds
  <2> QED  BY <2>2 DEF Goal
<1>4. ASSUME NEW c \in Callers, RegisterLocked(c) PROVE Goal
  <2>1. CASE NameExists(pending[c].name)
    <3>1. providers' = providers /\ aliases' = aliases
      BY <1>4, <2>1 DEF RegisterLocked
    <3> QED  BY <1>1, <3>1
  <2> QED  BY <1>2, <1>4, <2>1
<1>5. ASSUME NEW c \in Callers, NEW a \in Spellings, NEW n \in Spellings, RegisterAlias(c, a, n)
      PROVE  Goal
  <2>1. providers' = providers  BY <1>5 DEF RegisterAlias
  <2>2. CASE aliases' = aliases  BY <1>1, <2>1, <2>2
  <2>3. CASE /\ Trim[a] # Blank /\ Trim[n] # Blank /\ ~NameExists(Trim[a])
             /\ providers[Trim[n]] # Nobody
             /\ aliases' = [aliases EXCEPT ![Trim[a]] = Trim[n]]
    BY <1>3, <2>1, <2>3
  <2> QED  BY <1>5, <2>2, <2>3 DEF RegisterAlias
<1>6. Goal
  <2>1. ASSUME NEW c \in Callers, NEW o \in Objects \union {Nobody}, RegisterReadsName(c, o)
        PROVE  Goal
    <3>1. providers' = providers /\ aliases' = aliases  BY <2>1 DEF RegisterReadsName
    <3> QED  BY <1>1, <3>1
  <2>2. ASSUME NEW c \in Callers, NEW n \in Spellings, Provider(c, n)
        PROVE  Goal
    <3>1. providers' = providers /\ aliases' = aliases  BY <2>2 DEF Provider
    <3> QED  BY <1>1, <3>1
  <2>3. ASSUME NEW c \in Callers, Names(c)
        PROVE  Goal
    <3>1. providers' = providers /\ aliases' = aliases  BY <2>3 DEF Names
    <3> QED  BY <1>1, <3>1
  <2>4. CASE UNCHANGED vars
    <3>1. providers' = providers /\ aliases' = aliases  BY <2>4 DEF vars
    <3> QED  BY <1>1, <3>1
  <2> QED  BY <1>4, <1>5, <2>1, <2>2, <2>3, <2>4 DEF Next, Call
<1> QED  BY <1>6 DEF Goal

\* A lookup that has succeeded returns the same provider ever after, whatever is
\* registered, aliased or raced for in between.
THEOREM Stability == Spec => ResolutionStable
<1>1. IInv /\ [Next]_vars => [Stable]_vars  BY StepBinds DEF Stable
<1> QED  BY Invariant, <1>1, PTL DEF Spec, ResolutionStable

\* The registry implements the write-once map: registering and aliasing are both
\* a binding of an unbound name, and nothing else changes what a name means.
THEOREM RegistryRefines == Spec => ImplementsWriteOnceNames
<1> DEFINE b == [n \in Spellings |-> Resolve(n)]
<1>1. Init => Abstract!Init
  BY DEF Init, Abstract!Init, Resolve
<1>2. IInv /\ [Next]_vars => [Abstract!Next]_b
  <2> SUFFICES ASSUME IInv, [Next]_vars PROVE Abstract!Next \/ b' = b  OBVIOUS
  <2>1. CASE \A k \in Spellings : Resolve(k)' = Resolve(k)
    BY <2>1
  <2>2. ASSUME NEW n \in Spellings, NEW o \in Objects, Resolve(n) = Nobody,
               \A k \in Spellings : Resolve(k)' = IF k = n THEN o ELSE Resolve(k)
        PROVE  Abstract!Next
    <3>1. b' = [b EXCEPT ![n] = o]  BY <2>2
    <3>2. b[n] = Nobody  BY <2>2
    <3> QED  BY <3>1, <3>2 DEF Abstract!Next, Abstract!Bind
  <2> QED  BY <2>1, <2>2, StepBinds
<1> QED  BY <1>1, <1>2, Invariant, PTL DEF Spec, ImplementsWriteOnceNames, Abstract!Spec
=============================================================================

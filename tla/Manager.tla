------------------------------- MODULE Manager -------------------------------
(***************************************************************************)
(* The provider registry (manager.go): canonical names and aliases behind  *)
(* one read-write lock.  Goroutines register, alias, look up and list at   *)
(* the same time.  Register asks the provider for its name before it takes *)
(* the lock; everything else is one locked section.                        *)
(***************************************************************************)
EXTENDS Naturals

CONSTANTS Callers,   \* goroutines
          Spellings, \* names as callers write them
          Blank,     \* the spelling that is empty once trimmed
          Trim,      \* strings.TrimSpace on Spellings
          Objects,   \* provider instances
          NameOf,    \* what each instance's Name() returns
          Nobody     \* a nil provider

ASSUME SpellingAssumption ==
  /\ Blank \in Spellings
  /\ Trim \in [Spellings -> Spellings]
ASSUME ObjectAssumption ==
  /\ NameOf \in [Objects -> Spellings]
  /\ Nobody \notin Objects

VARIABLES
  providers,  \* canonical name -> provider, Nobody where the map has no entry
  aliases,    \* alias -> canonical name, Blank where the map has no entry
  pending,    \* Register's provider and name between Name() and the lock
  answer,     \* the error each caller's last call returned, or "ok"
  found,      \* the provider its last Provider call returned
  listed,     \* the names its last Names call returned
  claims      \* history: successful registrations of each name

vars == <<providers, aliases, pending, answer, found, listed, claims>>

NotPending == [object |-> Nobody, name |-> Blank]

TypeOK ==
  /\ providers \in [Spellings -> Objects \union {Nobody}]
  /\ aliases \in [Spellings -> Spellings]
  /\ pending \in [Callers -> [object: Objects \union {Nobody}, name: Spellings]]
  /\ answer \in [Callers -> {"none", "ok", "invalid_configuration", "duplicate_provider",
                             "provider_not_found"}]
  /\ found \in [Callers -> Objects \union {Nobody}]
  /\ listed \in [Callers -> SUBSET Spellings]
  /\ claims \in [Spellings -> Nat]

\* NewManager, or the zero value: initialize makes the maps when they are needed.
Init ==
  /\ providers = [n \in Spellings |-> Nobody]
  /\ aliases = [n \in Spellings |-> Blank]
  /\ pending = [c \in Callers |-> NotPending]
  /\ answer = [c \in Callers |-> "none"]
  /\ found = [c \in Callers |-> Nobody]
  /\ listed = [c \in Callers |-> {}]
  /\ claims = [n \in Spellings |-> 0]

Ready(c) == pending[c] = NotPending

\* A slip: only the canonical names are looked at.
NameExistsAsProvider(n) == providers[n] # Nobody

\* nameExists
NameExists(n) == providers[n] # Nobody \/ aliases[n] # Blank

Answer(c, a) == answer' = [answer EXCEPT ![c] = a]

-----------------------------------------------------------------------------
\* Register, before the lock: nil and nameless providers are turned away.
RegisterReadsName(c, o) ==
  LET name == IF o = Nobody THEN Blank ELSE Trim[NameOf[o]] IN
  /\ Ready(c)
  /\ \/ /\ name = Blank
        /\ Answer(c, "invalid_configuration")
        /\ UNCHANGED pending
     \/ /\ name # Blank
        /\ pending' = [pending EXCEPT ![c] = [object |-> o, name |-> name]]
        /\ Answer(c, "none")
  /\ UNCHANGED <<providers, aliases, found, listed, claims>>

\* A slip: the check was made before the lock, and is not repeated under it.
RegisterUnchecked(c) ==
  /\ ~Ready(c)
  /\ providers' = [providers EXCEPT ![pending[c].name] = pending[c].object]
  /\ claims' = [claims EXCEPT ![pending[c].name] = @ + 1]
  /\ Answer(c, "ok")
  /\ pending' = [pending EXCEPT ![c] = NotPending]
  /\ UNCHANGED <<aliases, found, listed>>

\* A slip: a provider may take over a name that was an alias.
RegisterOverAlias(c) ==
  LET o == pending[c].object
      name == pending[c].name
      free == providers[name] = Nobody
  IN
  /\ ~Ready(c)
  /\ Answer(c, IF free THEN "ok" ELSE "duplicate_provider")
  /\ providers' = IF free THEN [providers EXCEPT ![name] = o] ELSE providers
  /\ claims' = IF free THEN [claims EXCEPT ![name] = @ + 1] ELSE claims
  /\ pending' = [pending EXCEPT ![c] = NotPending]
  /\ UNCHANGED <<aliases, found, listed>>

\* ... and under it.
RegisterLocked(c) ==
  LET o == pending[c].object
      name == pending[c].name
  IN
  /\ ~Ready(c)
  /\ \/ /\ NameExists(name)
        /\ Answer(c, "duplicate_provider")
        /\ UNCHANGED <<providers, claims>>
     \/ /\ ~NameExists(name)
        /\ providers' = [providers EXCEPT ![name] = o]
        /\ claims' = [claims EXCEPT ![name] = @ + 1]
        /\ Answer(c, "ok")
  /\ pending' = [pending EXCEPT ![c] = NotPending]
  /\ UNCHANGED <<aliases, found, listed>>

RegisterAlias(c, alias, canonical) ==
  LET a == Trim[alias]
      n == Trim[canonical]
  IN
  /\ Ready(c)
  /\ \/ /\ a = Blank \/ n = Blank
        /\ Answer(c, "invalid_configuration")
        /\ UNCHANGED <<aliases, claims>>
     \/ /\ a # Blank /\ n # Blank /\ NameExists(a)
        /\ Answer(c, "duplicate_provider")
        /\ UNCHANGED <<aliases, claims>>
     \/ /\ a # Blank /\ n # Blank /\ ~NameExists(a) /\ providers[n] = Nobody
        /\ Answer(c, "provider_not_found")
        /\ UNCHANGED <<aliases, claims>>
     \/ /\ a # Blank /\ n # Blank /\ ~NameExists(a) /\ providers[n] # Nobody
        /\ aliases' = [aliases EXCEPT ![a] = n]
        /\ claims' = [claims EXCEPT ![a] = @ + 1]
        /\ Answer(c, "ok")
  /\ UNCHANGED <<providers, pending, found, listed>>

-----------------------------------------------------------------------------
\* A slip: what the alias map holds is handed out as if it were the provider.
ResolveOnce(n) ==
  IF providers[n] # Nobody THEN providers[n]
  ELSE IF aliases[n] # Blank THEN aliases[n]
  ELSE Nobody

\* Provider: the canonical map first, then one step through the aliases.
Resolve(n) ==
  IF providers[n] # Nobody THEN providers[n]
  ELSE IF aliases[n] # Blank THEN providers[aliases[n]]
  ELSE Nobody

Provider(c, name) ==
  /\ Ready(c)
  /\ found' = [found EXCEPT ![c] = Resolve(Trim[name])]
  /\ Answer(c, IF Resolve(Trim[name]) = Nobody THEN "provider_not_found" ELSE "ok")
  /\ UNCHANGED <<providers, aliases, pending, listed, claims>>

Canonical == {n \in Spellings : providers[n] # Nobody}

\* Names copies the keys under the lock; the copy is sorted after it.
Names(c) ==
  /\ Ready(c)
  /\ listed' = [listed EXCEPT ![c] = Canonical]
  /\ Answer(c, "ok")
  /\ UNCHANGED <<providers, aliases, pending, found, claims>>

-----------------------------------------------------------------------------
Call(c) ==
  \/ \E o \in Objects \union {Nobody} : RegisterReadsName(c, o)
  \/ RegisterLocked(c)
  \/ \E a, n \in Spellings : RegisterAlias(c, a, n)
  \/ \E n \in Spellings : Provider(c, n)
  \/ Names(c)

Next == \E c \in Callers : Call(c)

Spec == Init /\ [][Next]_vars

-----------------------------------------------------------------------------
(* Properties *)

\* A name is canonical or an alias, never both, and the blank name is neither:
\* otherwise Provider and RegisterAlias would disagree on what it means.
NamesDisjoint ==
  /\ \A n \in Spellings : providers[n] = Nobody \/ aliases[n] = Blank
  /\ providers[Blank] = Nobody /\ aliases[Blank] = Blank

\* Every alias leads to a registered provider in one step: none dangles and
\* none targets another alias (manager.go:48-49).
AliasesResolve ==
  \A a \in Spellings : aliases[a] # Blank => providers[aliases[a]] # Nobody

\* The two maps agree: a name means one thing, and what it means is registered.
RegistryConsistent == NamesDisjoint /\ AliasesResolve

\* Of any number of goroutines that race for a name, as a canonical name or as
\* an alias, one succeeds (manager.go:27-28, TestManagerConcurrentDuplicateRegistrations).
OneClaimEach ==
  \A n \in Spellings : claims[n] = IF NameExists(n) THEN 1 ELSE 0

\* A name Names has listed can be looked up ever after: the links of the index
\* page lead somewhere (app.go:71-76, 83-89).
ListedIsFound ==
  \A c \in Callers : \A n \in listed[c] : providers[n] # Nobody

\* What a name resolves to, it resolves to for good: no registration, alias or
\* race ever makes a lookup return another provider, or none, later.
Stable == \A n \in Spellings : Resolve(n) # Nobody => Resolve(n)' = Resolve(n)

ResolutionStable == [][Stable]_vars

Abstract == INSTANCE WriteOnceNames WITH
  Keys <- Spellings, binding <- [n \in Spellings |-> Resolve(n)]

\* The registry, with its two maps, is one write-once map.
ImplementsWriteOnceNames == Abstract!Spec

IInv ==
  /\ TypeOK
  /\ NamesDisjoint
  /\ AliasesResolve
  /\ OneClaimEach
  /\ ListedIsFound
  /\ \A c \in Callers : ~Ready(c) => pending[c].object # Nobody /\ pending[c].name # Blank
=============================================================================

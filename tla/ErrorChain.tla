------------------------------ MODULE ErrorChain ------------------------------
(***************************************************************************)
(* Error categories along an error chain (errors.go).  An error is the     *)
(* sequence of errors that errors.Is and errors.As visit, outermost first: *)
(* an Error, a sentinel (a pointer to categoryError), or an error of        *)
(* somebody else's.  The library and its callers wrap it again and again:  *)
(* NewError with a cause, fmt.Errorf with one %w, or with two.             *)
(***************************************************************************)
EXTENDS Naturals, Sequences

CONSTANTS Categories,  \* the codes that have a sentinel
          Unknown,     \* ErrorCodeUnknown, which has none
          ZeroCode,    \* the empty code, of an Error{} made by hand
          OtherCode,   \* any other string passed as a code
          MaxLinks     \* bound: links of a chain

ASSUME CodeAssumption ==
  /\ Unknown \notin Categories
  /\ ZeroCode \notin Categories \union {Unknown}
  /\ OtherCode \notin Categories \union {Unknown, ZeroCode}
ASSUME LinkAssumption == MaxLinks \in Nat

VARIABLE chain

Codes == Categories \union {Unknown}

PackageError(code) == [kind |-> "error", code |-> code]
Sentinel(code) == [kind |-> "sentinel", code |-> code]
Foreign == [kind |-> "foreign", code |-> Unknown]

Links == {PackageError(c) : c \in Codes \union {ZeroCode}}
         \union {Sentinel(c) : c \in Categories}
         \union {Foreign}

TypeOK == chain \in Seq(Links)

\* A slip: a code nobody knows is kept.
NormalizeKeeps(code) == code

\* NewError keeps the codes validErrorCode knows; the others become unknown.
Normalize(code) == IF code \in Codes THEN code ELSE Unknown

\* A root: an error of the network, a sentinel, an Error, or the zero value.
Init ==
  \/ chain = <<Foreign>>
  \/ \E c \in Categories : chain = <<Sentinel(c)>>
  \/ \E c \in Codes : chain = <<PackageError(c)>>
  \/ chain = <<PackageError(ZeroCode)>>

-----------------------------------------------------------------------------
\* A slip: the cause is dropped (as a nil cause is passed on purpose elsewhere).
NewErrorWithoutCause(code) == chain' = <<PackageError(Normalize(code))>>

\* NewError(code, provider, operation, chain)
NewError(code) == chain' = <<PackageError(Normalize(code))>> \o chain

\* fmt.Errorf("...: %w", chain)
Annotate == chain' = <<Foreign>> \o chain

\* fmt.Errorf("%w: %w", sentinel, chain), and the other way round
Mark(c) ==
  \/ chain' = <<Foreign, Sentinel(c)>> \o chain
  \/ chain' = <<Foreign>> \o chain \o <<Sentinel(c)>>

Next ==
  /\ Len(chain) + 2 <= MaxLinks
  /\ \/ \E c \in Codes \union {ZeroCode, OtherCode} : NewError(c)
     \/ Annotate
     \/ \E c \in Categories : Mark(c)

Spec == Init /\ [][Next]_chain

-----------------------------------------------------------------------------
\* A slip: only the sentinel itself is matched.
LinkIsSentinel(i, c) == chain[i] = Sentinel(c)

\* Error.Is, or the sentinel itself
LinkIs(i, c) ==
  \/ chain[i] = Sentinel(c)
  \/ chain[i].kind = "error" /\ chain[i].code # Unknown /\ chain[i].code = c

\* errors.Is(chain, the sentinel of c)
Is(c) == \E i \in DOMAIN chain : LinkIs(i, c)

FirstOf(kind, i) ==
  /\ chain[i].kind = kind
  /\ \A j \in 1..(i - 1) : chain[j].kind # kind

\* A slip: the sentinel is looked for even when there is an Error.
CodeOfEither(c) ==
  \E i \in DOMAIN chain, kind \in {"error", "sentinel"} : FirstOf(kind, i) /\ chain[i].code = c

\* ErrorCodeOf reports c: the first Error decides; without one, the first sentinel.
CodeOf(c) ==
  \/ \E i \in DOMAIN chain : FirstOf("error", i) /\ chain[i].code = c
  \/ /\ \A i \in DOMAIN chain : chain[i].kind # "error"
     /\ \E i \in DOMAIN chain : FirstOf("sentinel", i) /\ chain[i].code = c

\* IsErrorCode(chain, c)
IsErrorCode(c) == CodeOf(c)

-----------------------------------------------------------------------------
(* Properties *)

\* A handler that switches on ErrorCodeOf and one that tests errors.Is never take
\* an error for different things: its code is one of the sentinels it matches, and
\* it has one code at most (errors.go:110-117, 143-154).
CodeIsMatched ==
  /\ \A c \in Categories : CodeOf(c) => Is(c)
  /\ \A c, d \in Codes \union {ZeroCode} : CodeOf(c) /\ CodeOf(d) => c = d

\* Wrapping loses no category, however often and by whom it is done.
CategoriesKept == [][\A c \in Categories : Is(c) => Is(c)']_chain

\* errors.go:156: "IsErrorCode reports whether an error chain contains the supplied
\* category."
IsErrorCodeContains == \A c \in Categories : Is(c) => IsErrorCode(c)
=============================================================================

--------------------------- MODULE ErrorChainProofs ---------------------------
(***************************************************************************)
(* Theorems about error chains of any length, built by any sequence of     *)
(* wraps over any set of categories.                                       *)
(***************************************************************************)
EXTENDS ErrorChain, TLAPS

USE CodeAssumption, LinkAssumption

LEMMA NormalizeType == ASSUME NEW c PROVE Normalize(c) \in Codes
BY DEF Normalize, Codes

\* What a wrap does to the chain: links before it and after it.
LEMMA Wrapping ==
  ASSUME TypeOK, Next
  PROVE  \E before, after \in Seq(Links) : chain' = before \o chain \o after
<1> USE DEF TypeOK
<1>1. << >> \in Seq(Links) /\ chain \o << >> = chain  OBVIOUS
<1>2. ASSUME NEW c, NewError(c)
      PROVE  \E before, after \in Seq(Links) : chain' = before \o chain \o after
  <2>1. PackageError(Normalize(c)) \in Links  BY NormalizeType DEF Links
  <2>2. <<PackageError(Normalize(c))>> \in Seq(Links)  BY <2>1
  <2>3. chain' = <<PackageError(Normalize(c))>> \o chain \o << >>
    BY <1>2, <2>2 DEF NewError
  <2> QED  BY <1>1, <2>2, <2>3
<1>3. ASSUME Annotate
      PROVE  \E before, after \in Seq(Links) : chain' = before \o chain \o after
  <2>1. <<Foreign>> \in Seq(Links)  BY DEF Links
  <2>2. chain' = <<Foreign>> \o chain \o << >>  BY <1>3, <2>1 DEF Annotate
  <2> QED  BY <1>1, <2>1, <2>2
<1>4. ASSUME NEW c \in Categories, Mark(c)
      PROVE  \E before, after \in Seq(Links) : chain' = before \o chain \o after
  <2>1. /\ <<Foreign, Sentinel(c)>> \in Seq(Links)
        /\ <<Foreign>> \in Seq(Links)
        /\ <<Sentinel(c)>> \in Seq(Links)
    BY DEF Links
  <2>2. CASE chain' = <<Foreign, Sentinel(c)>> \o chain
    <3>1. chain' = <<Foreign, Sentinel(c)>> \o chain \o << >>  BY <2>1, <2>2
    <3> QED  BY <1>1, <2>1, <3>1
  <2>3. CASE chain' = <<Foreign>> \o chain \o <<Sentinel(c)>>
    BY <2>1, <2>3
  <2> QED  BY <1>4, <2>2, <2>3 DEF Mark
<1> QED  BY <1>2, <1>3, <1>4 DEF Next

\* Chains hold only errors the package and its callers can make.
THEOREM Typing == Spec => []TypeOK
<1>1. Init => TypeOK
  <2> SUFFICES ASSUME Init PROVE TypeOK  OBVIOUS
  <2>1. \E link \in Links : chain = <<link>>
    <3>1. /\ Foreign \in Links
          /\ PackageError(ZeroCode) \in Links
          /\ \A c \in Categories : Sentinel(c) \in Links
          /\ \A c \in Codes : PackageError(c) \in Links
      BY DEF Links
    <3> QED  BY <3>1 DEF Init
  <2> QED  BY <2>1 DEF TypeOK
<1>2. TypeOK /\ [Next]_chain => TypeOK'
  <2>1. ASSUME TypeOK, Next PROVE TypeOK'
    <3>1. PICK before, after \in Seq(Links) : chain' = before \o chain \o after
      BY <2>1, Wrapping
    <3> QED  BY <2>1, <3>1 DEF TypeOK
  <2> QED  BY <2>1 DEF TypeOK
<1> QED  BY <1>1, <1>2, PTL DEF Spec

LEMMA FirstIsOne ==
  ASSUME TypeOK, NEW kind, NEW i \in DOMAIN chain, NEW j \in DOMAIN chain,
         FirstOf(kind, i), FirstOf(kind, j)
  PROVE  i = j
<1>1. i \in Nat /\ j \in Nat /\ i > 0 /\ j > 0  BY DEF TypeOK
<1>2. ~(i < j)  BY <1>1 DEF FirstOf
<1>3. ~(j < i)  BY <1>1 DEF FirstOf
<1> QED  BY <1>1, <1>2, <1>3

\* The code an error is reported under is one it matches with errors.Is, and there is
\* one such code at most.
THEOREM CodeAgrees == Spec => []CodeIsMatched
<1>1. TypeOK => CodeIsMatched
  <2> SUFFICES ASSUME TypeOK PROVE CodeIsMatched  OBVIOUS
  <2>1. \A i \in DOMAIN chain : chain[i] \in Links  BY DEF TypeOK
  <2>2. ASSUME NEW c \in Categories, CodeOf(c) PROVE Is(c)
    <3>1. PICK i \in DOMAIN chain : /\ chain[i].kind \in {"error", "sentinel"}
                                    /\ chain[i].code = c
      BY <2>2 DEF CodeOf, FirstOf
    <3>2. LinkIs(i, c)
      BY <2>1, <3>1 DEF LinkIs, Links, PackageError, Sentinel, Foreign
    <3> QED  BY <3>2 DEF Is
  <2>3. ASSUME NEW c, NEW d, CodeOf(c), CodeOf(d) PROVE c = d
    <3>1. CASE \E i \in DOMAIN chain : chain[i].kind = "error"
      <4>1. PICK i \in DOMAIN chain : FirstOf("error", i) /\ chain[i].code = c
        BY <2>3, <3>1 DEF CodeOf
      <4>2. PICK j \in DOMAIN chain : FirstOf("error", j) /\ chain[j].code = d
        BY <2>3, <3>1 DEF CodeOf
      <4> QED  BY <4>1, <4>2, FirstIsOne
    <3>2. CASE ~\E i \in DOMAIN chain : chain[i].kind = "error"
      <4>1. PICK i \in DOMAIN chain : FirstOf("sentinel", i) /\ chain[i].code = c
        BY <2>3, <3>2 DEF CodeOf, FirstOf
      <4>2. PICK j \in DOMAIN chain : FirstOf("sentinel", j) /\ chain[j].code = d
        BY <2>3, <3>2 DEF CodeOf, FirstOf
      <4> QED  BY <4>1, <4>2, FirstIsOne
    <3> QED  BY <3>1, <3>2
  <2> QED  BY <2>2, <2>3 DEF CodeIsMatched
<1> QED  BY Typing, <1>1, PTL

\* No wrap, in any order and however many, hides a category from errors.Is.
THEOREM WrappingKeeps == Spec => CategoriesKept
<1>1. TypeOK /\ [Next]_chain => [\A c \in Categories : Is(c) => Is(c)']_chain
  <2> SUFFICES ASSUME TypeOK, Next, NEW c \in Categories, Is(c) PROVE Is(c)'
    OBVIOUS
  <2>1. PICK before, after \in Seq(Links) : chain' = before \o chain \o after
    BY Wrapping
  <2>2. PICK i \in DOMAIN chain : LinkIs(i, c)  BY DEF Is
  <2>3. chain \in Seq(Links)  BY DEF TypeOK
  <2>4. /\ Len(before) + i \in DOMAIN (before \o chain \o after)
        /\ (before \o chain \o after)[Len(before) + i] = chain[i]
    BY <2>3
  <2>5. PICK k \in DOMAIN chain' : chain'[k] = chain[i]  BY <2>1, <2>4
  <2>6. LinkIs(k, c)'  BY <2>2, <2>5 DEF LinkIs
  <2> QED  BY <2>6 DEF Is
<1> QED  BY Typing, <1>1, PTL DEF Spec, CategoriesKept

-----------------------------------------------------------------------------
(* The code of a chain after a wrap.  Which error of a chain is the first of *)
(* its kind is a matter of induction; that each wrap moves the first one, or  *)
(* makes one, is not: the code of any chain follows from the wraps it had.    *)

Has(kind) == \E i \in DOMAIN chain : chain[i].kind = kind
DecidedBy(kind, c) == \E i \in DOMAIN chain : FirstOf(kind, i) /\ chain[i].code = c

LEMMA CodeOfIs ==
  \A c : CodeOf(c) <=> DecidedBy("error", c) \/ (~Has("error") /\ DecidedBy("sentinel", c))
BY DEF CodeOf, Has, DecidedBy

\* Where the links of a wrapped chain come from.
LEMMA Places ==
  ASSUME TypeOK, NEW before \in Seq(Links), NEW after \in Seq(Links),
         chain' = before \o chain \o after
  PROVE  /\ DOMAIN chain' = 1..(Len(before) + Len(chain) + Len(after))
         /\ DOMAIN chain = 1..Len(chain) /\ Len(chain) \in Nat
         /\ Len(before) \in Nat /\ Len(after) \in Nat
         /\ \A j \in 1..Len(before) : chain'[j] = before[j]
         /\ \A i \in DOMAIN chain : chain'[Len(before) + i] = chain[i]
         /\ \A k \in 1..Len(after) : chain'[Len(before) + Len(chain) + k] = after[k]
BY DEF TypeOK

\* A kind that is in the chain, and not in front of it, keeps its first.
LEMMA FirstKept ==
  ASSUME TypeOK, NEW before \in Seq(Links), NEW after \in Seq(Links),
         chain' = before \o chain \o after, NEW kind, Has(kind),
         \A j \in 1..Len(before) : before[j].kind # kind
  PROVE  Has(kind)' /\ \A c : DecidedBy(kind, c)' <=> DecidedBy(kind, c)
<1> PICK n : n = Len(before)
  OBVIOUS
<1>0. /\ DOMAIN chain' = 1..(n + Len(chain) + Len(after))
      /\ DOMAIN chain = 1..Len(chain) /\ Len(chain) \in Nat /\ n \in Nat /\ Len(after) \in Nat
      /\ \A j \in 1..n : chain'[j] = before[j] /\ before[j].kind # kind
      /\ \A i \in DOMAIN chain : chain'[n + i] = chain[i]
  BY Places
<1>1. PICK m \in DOMAIN chain : chain[m].kind = kind
  BY DEF Has
<1>2. n + m \in DOMAIN chain' /\ chain'[n + m].kind = kind
  BY <1>0, <1>1
<1>3. ASSUME NEW i \in DOMAIN chain, FirstOf(kind, i)
      PROVE  n + i \in DOMAIN chain' /\ FirstOf(kind, n + i)' /\ chain'[n + i] = chain[i]
  <2> PICK p \in Nat : p = n + i
    BY <1>0, <1>3
  <2>1. n + i \in DOMAIN chain' /\ chain'[n + i] = chain[i]
    BY <1>0, <1>3
  <2>2. ASSUME NEW j \in 1..(p - 1) PROVE chain'[j].kind # kind
    <3>1. CASE j <= n
      BY <1>0, <1>3, <2>2, <3>1
    <3>2. CASE j > n
      <4>1. j - n \in 1..(i - 1) /\ j - n \in DOMAIN chain /\ n + (j - n) = j
        BY <1>0, <1>3, <2>2, <3>2
      <4>2. chain'[j] = chain[j - n]
        BY <1>0, <4>1
      <4> QED
        BY <1>3, <4>1, <4>2 DEF FirstOf
    <3> QED
      BY <1>0, <1>3, <2>2, <3>1, <3>2
  <2>3. chain'[n + i].kind = kind
    BY <1>3, <2>1 DEF FirstOf
  <2>4. FirstOf(kind, p)'
    <3>1. \A j \in 1..(p - 1) : chain'[j].kind # kind
      BY <2>2
    <3>2. chain'[p].kind = kind
      BY <2>3
    <3> QED
      BY <3>1, <3>2 DEF FirstOf
  <2> QED
    BY <2>1, <2>4
<1>4. ASSUME NEW k \in DOMAIN chain', FirstOf(kind, k)'
      PROVE  \E i \in DOMAIN chain : FirstOf(kind, i) /\ chain[i] = chain'[k]
  <2>1. k > n /\ k <= n + m
    <3>1. chain'[k].kind = kind /\ \A j \in 1..(k - 1) : chain'[j].kind # kind
      BY <1>4 DEF FirstOf
    <3>2. k \in Nat /\ k > 0 /\ n + m \in Nat /\ n + m > 0
      BY <1>0, <1>2, <1>4
    <3>3. ~(k <= n)
      BY <1>0, <3>1, <3>2
    <3>4. ~(n + m < k)
      <4>1. n + m < k => n + m \in 1..(k - 1)
        BY <3>2
      <4> QED
        BY <1>2, <3>1, <4>1
    <3> QED
      BY <1>0, <3>2, <3>3, <3>4
  <2>2. k - n \in DOMAIN chain /\ n + (k - n) = k /\ k - n <= m
    BY <1>0, <1>1, <1>4, <2>1
  <2>3. chain'[k] = chain[k - n]
    BY <1>0, <2>2
  <2>4. ASSUME NEW j \in 1..(k - n - 1) PROVE chain[j].kind # kind
    <3>1. j \in DOMAIN chain /\ n + j \in 1..(k - 1)
      BY <1>0, <1>1, <2>2, <2>4
    <3>2. chain'[n + j] = chain[j]
      BY <1>0, <3>1
    <3> QED
      BY <1>4, <3>1, <3>2 DEF FirstOf
  <2>5. FirstOf(kind, k - n)
    BY <1>4, <2>3, <2>4 DEF FirstOf
  <2> QED
    BY <2>2, <2>3, <2>5
<1>5. ASSUME NEW c, DecidedBy(kind, c) PROVE DecidedBy(kind, c)'
  BY <1>3, <1>5 DEF DecidedBy
<1>6. ASSUME NEW c, DecidedBy(kind, c)' PROVE DecidedBy(kind, c)
  BY <1>4, <1>6 DEF DecidedBy
<1> QED
  BY <1>2, <1>5, <1>6 DEF Has

\* A kind that is neither in the chain nor added to it stays away.
LEMMA NoneKept ==
  ASSUME TypeOK, NEW before \in Seq(Links), NEW after \in Seq(Links),
         chain' = before \o chain \o after, NEW kind, ~Has(kind),
         \A j \in 1..Len(before) : before[j].kind # kind,
         \A j \in 1..Len(after) : after[j].kind # kind
  PROVE  ~Has(kind)'
<1> PICK n, l, m : n = Len(before) /\ l = Len(chain) /\ m = Len(after)
  OBVIOUS
<1>0. /\ DOMAIN chain' = 1..(n + l + m) /\ n \in Nat /\ l \in Nat /\ m \in Nat
      /\ \A j \in 1..n : chain'[j].kind # kind
      /\ \A i \in 1..l : chain'[n + i].kind # kind
      /\ \A k \in 1..m : chain'[n + l + k].kind # kind
  <2>1. /\ DOMAIN chain' = 1..(n + l + m) /\ DOMAIN chain = 1..l
        /\ n \in Nat /\ l \in Nat /\ m \in Nat
    BY Places
  <2>2. \A j \in 1..n : chain'[j].kind # kind
    BY Places
  <2>3. \A i \in 1..l : chain'[n + i] = chain[i]
    BY <2>1, Places
  <2>4. \A i \in 1..l : chain[i].kind # kind
    BY <2>1 DEF Has
  <2>5. \A k \in 1..m : chain'[n + l + k].kind # kind
    BY Places
  <2> QED
    BY <2>1, <2>2, <2>3, <2>4, <2>5
<1>1. ASSUME NEW k \in 1..(n + l + m) PROVE chain'[k].kind # kind
  <2>1. CASE k <= n
    BY <1>0, <1>1, <2>1
  <2>2. CASE k > n /\ k <= n + l
    <3>1. k - n \in 1..l /\ n + (k - n) = k
      BY <1>0, <1>1, <2>2
    <3> QED
      BY <1>0, <3>1
  <2>3. CASE k > n + l
    <3>1. k - n - l \in 1..m /\ n + l + (k - n - l) = k
      BY <1>0, <1>1, <2>3
    <3> QED
      BY <1>0, <3>1
  <2> QED
    BY <1>0, <1>1, <2>1, <2>2, <2>3
<1> QED
  BY <1>0, <1>1 DEF Has

\* The first of its kind decides, alone.
LEMMA FirstDecides ==
  ASSUME NEW kind, NEW k \in DOMAIN chain', DOMAIN chain' \subseteq Nat \ {0},
         FirstOf(kind, k)'
  PROVE  Has(kind)' /\ \A c : DecidedBy(kind, c)' <=> c = chain'[k].code
<1>1. chain'[k].kind = kind
  BY DEF FirstOf
<1>2. ASSUME NEW i \in DOMAIN chain', FirstOf(kind, i)' PROVE i = k
  BY <1>2 DEF FirstOf
<1> QED
  BY <1>1, <1>2 DEF Has, DecidedBy

\* NewError's code is the chain's from then on, until another NewError; an annotation
\* leaves the code alone; a sentinel gives a chain its code when it has no Error and no
\* sentinel before it.
WrapSays ==
  /\ \A c : NewError(c) => \A d : CodeOf(d)' <=> d = Normalize(c)
  /\ Annotate => \A d : CodeOf(d)' <=> CodeOf(d)
  /\ \A c \in Categories :
       /\ chain' = <<Foreign, Sentinel(c)>> \o chain =>
            \A d : CodeOf(d)' <=> IF Has("error") THEN CodeOf(d) ELSE d = c
       /\ chain' = <<Foreign>> \o chain \o <<Sentinel(c)>> =>
            \A d : CodeOf(d)' <=> IF Has("error") \/ Has("sentinel") THEN CodeOf(d) ELSE d = c

LEMMA KindsOfLinks ==
  ASSUME NEW c
  PROVE  /\ PackageError(c).kind = "error" /\ PackageError(c).code = c
         /\ Sentinel(c).kind = "sentinel" /\ Sentinel(c).code = c
         /\ Foreign.kind = "foreign"
BY DEF PackageError, Sentinel, Foreign

LEMMA NoFirst == ASSUME NEW kind, ~Has(kind) PROVE \A c : ~DecidedBy(kind, c)
BY DEF Has, DecidedBy, FirstOf

LEMMA NewErrorSays ==
  ASSUME TypeOK, NEW c, NewError(c), NEW d
  PROVE  CodeOf(d)' <=> d = Normalize(c)
<1> PICK link \in Links : link = PackageError(Normalize(c))
  BY NormalizeType DEF Links
<1>1. <<link>> \in Seq(Links) /\ <<>> \in Seq(Links) /\ chain' = <<link>> \o chain \o <<>>
  BY DEF NewError, TypeOK
<1>2. DOMAIN chain' \subseteq Nat \ {0} /\ 1 \in DOMAIN chain' /\ chain'[1] = link
  BY <1>1, Places
<1>3. Has("error")' /\ (DecidedBy("error", d)' <=> d = Normalize(c))
  <2>1. chain'[1].kind = "error" /\ chain'[1].code = Normalize(c)
    BY <1>2, KindsOfLinks
  <2>2. \A j \in 1..(1 - 1) : chain'[j].kind # "error"
    OBVIOUS
  <2>3. FirstOf("error", 1)'
    BY <2>1, <2>2 DEF FirstOf
  <2> QED
    BY <1>2, <2>1, <2>3, FirstDecides
<1>4. CodeOf(d)' <=> DecidedBy("error", d)' \/ (~Has("error")' /\ DecidedBy("sentinel", d)')
  BY DEF CodeOf, Has, DecidedBy
<1> QED
  BY <1>3, <1>4

\* A wrap that adds no Error, and no sentinel either unless the chain has an Error: the code
\* stays.
LEMMA OthersSay ==
  ASSUME TypeOK, NEW before \in Seq(Links), NEW after \in Seq(Links),
         chain' = before \o chain \o after, NEW d,
         \A j \in 1..Len(before) : before[j].kind # "error",
         \A j \in 1..Len(after) : after[j].kind # "error",
         \/ Has("error")
         \/ /\ \A j \in 1..Len(before) : before[j].kind # "sentinel"
            /\ \/ Has("sentinel")
               \/ \A j \in 1..Len(after) : after[j].kind # "sentinel"
  PROVE  CodeOf(d)' <=> CodeOf(d)
<1>1. CodeOf(d)' <=> DecidedBy("error", d)' \/ (~Has("error")' /\ DecidedBy("sentinel", d)')
  BY DEF CodeOf, Has, DecidedBy
<1>2. CASE Has("error")
  <2>1. Has("error")' /\ (DecidedBy("error", d)' <=> DecidedBy("error", d))
    BY <1>2, FirstKept
  <2> QED
    BY <1>1, <1>2, <2>1, CodeOfIs
<1>3. CASE ~Has("error")
  <2>1. ~Has("error")' /\ ~DecidedBy("error", d) /\ ~DecidedBy("error", d)'
    <3>1. ~Has("error")'
      BY <1>3, NoneKept
    <3> QED
      BY <1>3, <3>1 DEF Has, DecidedBy, FirstOf
  <2>2. CASE Has("sentinel")
    <3>1. DecidedBy("sentinel", d)' <=> DecidedBy("sentinel", d)
      BY <1>3, <2>2, FirstKept
    <3> QED
      BY <1>1, <1>3, <2>1, <3>1, CodeOfIs
  <2>3. CASE ~Has("sentinel")
    <3>1. ~Has("sentinel")'
      BY <1>3, <2>3, NoneKept
    <3>2. ~DecidedBy("sentinel", d) /\ ~DecidedBy("sentinel", d)'
      BY <2>3, <3>1 DEF Has, DecidedBy, FirstOf
    <3> QED
      BY <1>1, <2>1, <3>2, CodeOfIs
  <2> QED
    BY <2>2, <2>3
<1> QED
  BY <1>2, <1>3

LEMMA AnnotateSays ==
  ASSUME TypeOK, Annotate, NEW d
  PROVE  CodeOf(d)' <=> CodeOf(d)
<1>1. <<Foreign>> \in Seq(Links) /\ <<>> \in Seq(Links) /\ chain' = <<Foreign>> \o chain \o <<>>
  BY DEF Annotate, TypeOK, Links
<1>2. /\ \A j \in 1..Len(<<Foreign>>) :
             <<Foreign>>[j].kind # "error" /\ <<Foreign>>[j].kind # "sentinel"
      /\ \A j \in 1..Len(<<>>) : <<>>[j].kind # "error" /\ <<>>[j].kind # "sentinel"
  BY KindsOfLinks
<1> QED
  BY <1>1, <1>2, OthersSay

LEMMA MarkBeforeSays ==
  ASSUME TypeOK, NEW c \in Categories, NEW d, chain' = <<Foreign, Sentinel(c)>> \o chain
  PROVE  CodeOf(d)' <=> IF Has("error") THEN CodeOf(d) ELSE d = c
<1> PICK before : before = <<Foreign, Sentinel(c)>>
  OBVIOUS
<1>1. /\ before \in Seq(Links) /\ <<>> \in Seq(Links) /\ chain' = before \o chain \o <<>>
      /\ Len(before) = 2 /\ before[1] = Foreign /\ before[2] = Sentinel(c)
  BY DEF TypeOK, Links
<1>2. /\ \A j \in 1..Len(before) : before[j].kind # "error"
      /\ \A j \in 1..Len(<<>>) : <<>>[j].kind # "error"
  BY <1>1, KindsOfLinks
<1>3. CASE Has("error")
  BY <1>1, <1>2, <1>3, OthersSay
<1>4. CASE ~Has("error")
  <2>1. ~Has("error")' /\ ~DecidedBy("error", d)'
    <3>1. ~Has("error")'
      BY <1>1, <1>2, <1>4, NoneKept
    <3> QED
      BY <3>1 DEF Has, DecidedBy, FirstOf
  <2> PICK k \in Nat : k = 2
    OBVIOUS
  <2>2. /\ DOMAIN chain' \subseteq Nat \ {0} /\ k \in DOMAIN chain'
        /\ chain'[1] = Foreign /\ chain'[k] = Sentinel(c)
    BY <1>1, Places
  <2>3. DecidedBy("sentinel", d)' <=> d = c
    <3>1. chain'[k].kind = "sentinel" /\ chain'[k].code = c
      BY <2>2, KindsOfLinks
    <3>2. \A j \in 1..(k - 1) : chain'[j].kind # "sentinel"
      BY <2>2, KindsOfLinks
    <3>3. FirstOf("sentinel", k)'
      BY <3>1, <3>2 DEF FirstOf
    <3> QED
      BY <2>2, <3>1, <3>3, FirstDecides
  <2>4. CodeOf(d)' <=> DecidedBy("error", d)' \/ (~Has("error")' /\ DecidedBy("sentinel", d)')
    BY DEF CodeOf, Has, DecidedBy
  <2> QED
    BY <1>4, <2>1, <2>3, <2>4
<1> QED
  BY <1>3, <1>4

LEMMA MarkBehindSays ==
  ASSUME TypeOK, NEW c \in Categories, NEW d,
         chain' = <<Foreign>> \o chain \o <<Sentinel(c)>>
  PROVE  CodeOf(d)' <=> IF Has("error") \/ Has("sentinel") THEN CodeOf(d) ELSE d = c
<1> PICK before, after : before = <<Foreign>> /\ after = <<Sentinel(c)>>
  OBVIOUS
<1>1. /\ before \in Seq(Links) /\ after \in Seq(Links) /\ chain' = before \o chain \o after
      /\ Len(before) = 1 /\ before[1] = Foreign /\ Len(after) = 1 /\ after[1] = Sentinel(c)
  BY DEF TypeOK, Links
<1>2. /\ \A j \in 1..Len(before) : before[j].kind # "error" /\ before[j].kind # "sentinel"
      /\ \A j \in 1..Len(after) : after[j].kind # "error"
  BY <1>1, KindsOfLinks
<1>3. CASE Has("error") \/ Has("sentinel")
  BY <1>1, <1>2, <1>3, OthersSay
<1>4. CASE ~Has("error") /\ ~Has("sentinel")
  <2>1. ~Has("error")' /\ ~DecidedBy("error", d)'
    <3>1. ~Has("error")'
      BY <1>1, <1>2, <1>4, NoneKept
    <3> QED
      BY <3>1 DEF Has, DecidedBy, FirstOf
  <2> PICK last \in Nat : last = Len(chain) + 2
    BY Places, <1>1
  <2>2. /\ DOMAIN chain' \subseteq Nat \ {0} /\ last \in DOMAIN chain'
        /\ chain'[last] = Sentinel(c)
    BY <1>1, Places
  <2>3. \A j \in 1..(last - 1) : chain'[j].kind # "sentinel"
    <3> SUFFICES ASSUME NEW j \in 1..(last - 1) PROVE chain'[j].kind # "sentinel"
      OBVIOUS
    <3>1. CASE j = 1
      BY <1>1, <1>2, <3>1, Places
    <3>2. CASE j # 1
      <4>1. j - 1 \in DOMAIN chain /\ 1 + (j - 1) = j
        BY <1>1, <3>2, Places
      <4>2. chain'[1 + (j - 1)] = chain[j - 1]
        BY <1>1, <4>1, Places, Zenon
      <4> QED
        BY <1>4, <4>1, <4>2 DEF Has
    <3> QED
      BY <3>1, <3>2
  <2>4. DecidedBy("sentinel", d)' <=> d = c
    <3>1. chain'[last].kind = "sentinel" /\ chain'[last].code = c
      BY <2>2, KindsOfLinks
    <3>2. FirstOf("sentinel", last)'
      BY <2>3, <3>1 DEF FirstOf
    <3>3. DecidedBy("sentinel", d)' <=> d = chain'[last].code
      <4>1. last \in DOMAIN chain' /\ DOMAIN chain' \subseteq Nat \ {0}
        BY <2>2
      <4> QED
        BY <3>2, <4>1, FirstDecides
    <3> QED
      BY <3>1, <3>3
  <2>5. CodeOf(d)' <=> DecidedBy("error", d)' \/ (~Has("error")' /\ DecidedBy("sentinel", d)')
    BY DEF CodeOf, Has, DecidedBy
  <2> QED
    BY <1>4, <2>1, <2>4, <2>5
<1> QED
  BY <1>3, <1>4

\* The code ErrorCodeOf reports, from wrap to wrap (errors.go:128-154): the outermost
\* Error decides, and without one the outermost sentinel.
THEOREM CodeFollowsWraps == Spec => [][WrapSays]_chain
<1>1. TypeOK /\ [Next]_chain => [WrapSays]_chain
  BY NewErrorSays, AnnotateSays, MarkBeforeSays, MarkBehindSays DEF WrapSays
<1> QED
  BY Typing, <1>1, PTL DEF Spec

SomeCode == Has("error") \/ Has("sentinel") => \E c : CodeOf(c)

\* Every chain with an error of the package in it has a code, whoever wrapped it and
\* however often: ErrorCodeOf always finds one (errors.go:144-154).
THEOREM CodeIsFound == Spec => []SomeCode
<1>1. Init => SomeCode
  <2> SUFFICES ASSUME Init, Has("error") \/ Has("sentinel") PROVE \E c : CodeOf(c)
    BY DEF SomeCode
  <2>1. PICK link : chain = <<link>>
    BY DEF Init
  <2>2. link.kind \in {"error", "sentinel"}
    BY <2>1 DEF Has
  <2>3. FirstOf(link.kind, 1) /\ (link.kind = "error" \/ chain[1].kind # "error")
    BY <2>1, <2>2 DEF FirstOf
  <2>4. DOMAIN chain = {1}
    BY <2>1
  <2>5. CodeOf(link.code)
    BY <2>1, <2>2, <2>3, <2>4 DEF CodeOf
  <2> QED
    BY <2>5
<1>2. TypeOK /\ SomeCode /\ [Next]_chain => SomeCode'
  <2> SUFFICES ASSUME TypeOK, SomeCode, [Next]_chain PROVE SomeCode'
    OBVIOUS
  <2>1. ASSUME NEW c, NewError(c) PROVE \E d : CodeOf(d)'
    BY <2>1, NewErrorSays
  <2>2. ASSUME Annotate PROVE SomeCode'
    <3>1. ASSUME ~Has("error"), ~Has("sentinel") PROVE ~Has("error")' /\ ~Has("sentinel")'
      <4>1. /\ <<Foreign>> \in Seq(Links) /\ <<>> \in Seq(Links)
            /\ chain' = <<Foreign>> \o chain \o <<>>
        BY <2>2 DEF Annotate, TypeOK, Links
      <4>2. \A j \in 1..Len(<<Foreign>>) :
              <<Foreign>>[j].kind # "error" /\ <<Foreign>>[j].kind # "sentinel"
        BY KindsOfLinks
      <4>3. \A j \in 1..Len(<<>>) : <<>>[j].kind # "error" /\ <<>>[j].kind # "sentinel"
        OBVIOUS
      <4> QED
        BY <3>1, <4>1, <4>2, <4>3, NoneKept
    <3>2. \A d : CodeOf(d)' <=> CodeOf(d)
      BY <2>2, AnnotateSays
    <3> QED
      BY <3>1, <3>2 DEF SomeCode
  <2>3. ASSUME NEW c \in Categories, Mark(c) PROVE \E d : CodeOf(d)'
    <3>1. CASE chain' = <<Foreign, Sentinel(c)>> \o chain
      <4>1. \A d : CodeOf(d)' <=> IF Has("error") THEN CodeOf(d) ELSE d = c
        BY <3>1, MarkBeforeSays
      <4> QED
        BY <4>1 DEF SomeCode
    <3>2. CASE chain' = <<Foreign>> \o chain \o <<Sentinel(c)>>
      <4>1. \A d : CodeOf(d)' <=> IF Has("error") \/ Has("sentinel") THEN CodeOf(d) ELSE d = c
        BY <3>2, MarkBehindSays
      <4> QED
        BY <4>1 DEF SomeCode
    <3> QED
      BY <2>3, <3>1, <3>2 DEF Mark
  <2>4. CASE UNCHANGED chain
    BY <2>4 DEF SomeCode, Has, CodeOf, FirstOf
  <2> QED
    BY <2>1, <2>2, <2>3, <2>4 DEF Next, SomeCode
<1> QED
  BY Typing, <1>1, <1>2, PTL DEF Spec
=============================================================================

------------------------ MODULE ServerLifecycleProofs ------------------------
(* The server's life for any number of connections, and the process's from *)
(* its start for any environment and any file.                             *)
EXTENDS ServerProcess, TLAPS

\* The state run starts in.
LEMMA InitIInv == Init => IInv
  BY DEF Init, IInv, TypeOK, CleanExitIsClean, CutOffIsReported, Running, Busy, ConnStates

\* The serving goroutine touches its own state, its place in the channel and nothing
\* a finished process still answers for.
LEMMA ServeIInv == ASSUME IInv, Serve PROVE IInv'
<1>1. CASE Check \/ Listen
  BY <1>1 DEF IInv, TypeOK, CleanExitIsClean, CutOffIsReported, Running, Busy, Check, Listen
<1>2. CASE ServeClosed
  BY <1>2 DEF IInv, TypeOK, CleanExitIsClean, CutOffIsReported, Running, Busy, ServeClosed,
              ServeEnds
<1>3. CASE ListenerBreaks
  BY <1>3 DEF IInv, TypeOK, CleanExitIsClean, CutOffIsReported, Running, Busy, ListenerBreaks,
              ServeEnds
<1> QED
  BY <1>1, <1>2, <1>3 DEF Serve

\* Connections change while run waits in the select or in Shutdown; once Shutdown has
\* succeeded they are closed or never were.
LEMMA ConnIInv ==
  ASSUME IInv, NEW k \in Conns, Accept(k) \/ Request(k) \/ Respond(k) \/ Hangup(k)
  PROVE  IInv'
<1>1. Running /\ UNCHANGED <<main, result, signalled, deadline, serving, errChannel,
                             shuttingDown, closeFailed, broke>>
  BY DEF Accept, Request, Respond, Hangup, Becomes
<1>2. PICK s \in ConnStates : conn' = [conn EXCEPT ![k] = s]
  BY DEF Accept, Request, Respond, Hangup, Becomes, ConnStates
<1>3. main # "await"
  <2>1. main = "await" => conn[k] \in {"none", "closed"} /\ serving # "accepting"
    BY DEF IInv
  <2> QED
    BY <2>1 DEF Accept, Request, Respond, Hangup
<1>4. TypeOK'
  BY <1>1, <1>2 DEF IInv, TypeOK
<1> QED
  BY <1>1, <1>3, <1>4 DEF IInv, CleanExitIsClean, CutOffIsReported, Running

\* Closing idle connections makes none busy and leaves none idle.
LEMMA LookIsQuiet ==
  ASSUME TypeOK, NEW busy, Looks(busy)
  PROVE  /\ conn' \in [Conns -> ConnStates]
         /\ Busy' = Busy
         /\ Busy = {} => \A k \in Conns : conn'[k] \in {"none", "closed"}
  BY DEF TypeOK, Looks, Busy, ConnStates

\* run's own steps.
LEMMA RunIInv == ASSUME IInv, Run PROVE IInv'
<1>1. CASE TakeError
  BY <1>1 DEF IInv, TypeOK, CleanExitIsClean, CutOffIsReported, Running, Busy, TakeError, Return
<1>2. CASE TakeSignal
  BY <1>2 DEF IInv, TypeOK, CleanExitIsClean, CutOffIsReported, Running, Busy, TakeSignal
<1>3. CASE GraceExpires
  BY <1>3 DEF IInv, TypeOK, CleanExitIsClean, CutOffIsReported, Running, Busy, GraceExpires,
              InShutdown
<1>4. CASE ShutdownSucceeds
  BY <1>4, LookIsQuiet DEF IInv, TypeOK, CleanExitIsClean, CutOffIsReported, Running,
                           ShutdownSucceeds, Looks, InShutdown, Return
<1>5. CASE ShutdownPolls
  BY <1>5, LookIsQuiet DEF IInv, TypeOK, CleanExitIsClean, CutOffIsReported, Running,
                           ShutdownPolls, Looks, InShutdown
<1>6. CASE ShutdownGivesUp
  BY <1>6 DEF IInv, TypeOK, CleanExitIsClean, CutOffIsReported, Running, Busy,
              ShutdownGivesUp, Return
<1> QED
  BY <1>1, <1>2, <1>3, <1>4, <1>5, <1>6 DEF Run

LEMMA NextIInv == IInv /\ [Next]_vars => IInv'
<1> SUFFICES ASSUME IInv, [Next]_vars PROVE IInv'
  OBVIOUS
<1>1. CASE Serve
  BY <1>1, ServeIInv
<1>2. CASE Run
  BY <1>2, RunIInv
<1>3. CASE Signal
  BY <1>3 DEF IInv, TypeOK, CleanExitIsClean, CutOffIsReported, Running, Busy, Signal
<1>4. CASE \E k \in Conns : Accept(k) \/ Request(k) \/ Respond(k) \/ Hangup(k)
  BY <1>4, ConnIInv
<1>5. CASE UNCHANGED vars
  BY <1>5 DEF IInv, TypeOK, CleanExitIsClean, CutOffIsReported, Running, Busy, vars
<1> QED
  BY <1>1, <1>2, <1>3, <1>4, <1>5 DEF Next

-----------------------------------------------------------------------------
(* Loading the file *)

\* Of a variable's lines one is the last, and it is the declaration that counts.
LEMMA LastIsDeclared ==
  ASSUME ProcessTypes, NEW d \in Declarations(file)
  PROVE  /\ d.variable \in Variables /\ d.value \in Values \ {Absent}
         /\ inherited[d.variable] = Absent => Effective(d.variable) = d.value
<1>1. file \in Seq(Lines)
  BY FilesAssumption DEF ProcessTypes
<1>2. PICK i \in DeclaredIn(file) :
        /\ d = file[i]
        /\ \A k \in DeclaredIn(file) : file[k].variable = file[i].variable => k <= i
  BY DEF Declarations
<1>3. DOMAIN file \subseteq Nat /\ \A k \in DOMAIN file : file[k] \in Lines
  BY <1>1
<1>4. d.variable \in Variables /\ d.value \in Values \ {Absent}
  BY <1>2, <1>3, FilesAssumption DEF DeclaredIn, Lines, ProcessTypes
<1>5. LastLine(d.variable) = {i}
  BY <1>2, <1>3 DEF LastLine, DeclaredIn
<1> QED
  BY <1>2, <1>4, <1>5 DEF Effective

\* What the environment does not say when the file has been gone through, nobody says.
LEMMA AllLoaded ==
  ASSUME ProcessTypes, HalfLoaded, startup \notin {"load", "failed"}, todo = {}
  PROVE  \A v \in Variables : env[v] = Effective(v)
<1> SUFFICES ASSUME NEW v \in Variables, env[v] = Absent PROVE Effective(v) = Absent
  BY DEF HalfLoaded
<1>1. inherited[v] = Absent
  BY DEF HalfLoaded
<1>2. ASSUME NEW i \in LastLine(v) PROVE FALSE
  <2>1. file[i] \in Declarations(file) /\ file[i].variable = v
    BY <1>2 DEF LastLine, Declarations
  <2> QED
    BY <2>1 DEF HalfLoaded
<1> QED
  BY <1>1, <1>2 DEF Effective

\* What the file and the inherited environment say does not change.
LEMMA SameFile ==
  ASSUME UNCHANGED <<inherited, file>>
  PROVE  /\ \A v : Effective(v)' = Effective(v)
         /\ Runnable' = Runnable /\ HasTLS' = HasTLS
         /\ \A p : Complete(p)' = Complete(p) /\ Untouched(p)' = Untouched(p)
  BY DEF Effective, LastLine, Runnable, HasTLS, Complete, Untouched

LEMMA LoadFileInv == ASSUME ProcessInv, LoadFile PROVE ProcessInv'
<1>1. CASE Malformed(file)
  BY <1>1, SameFile DEF LoadFile, Goto, ProcessInv, ProcessTypes, HalfLoaded, Registering,
     ServesAsConfigured, Runnable
<1>2. CASE ~Malformed(file)
  BY <1>2, SameFile DEF LoadFile, Goto, ProcessInv, ProcessTypes, HalfLoaded, Registering,
     ServesAsConfigured
<1> QED
  BY <1>1, <1>2

LEMMA SetVariableInv ==
  ASSUME ProcessInv, NEW d \in todo, SetVariable(d)
  PROVE  ProcessInv'
<1> DEFINE v == d.variable
<1>1. /\ d \in Declarations(file) /\ v \in Variables /\ d.value \in Values \ {Absent}
      /\ inherited[v] = Absent => Effective(v) = d.value
  BY LastIsDeclared DEF ProcessInv, ProcessTypes
<1>2. \A w \in Variables : Effective(w)' = Effective(w)
  BY SameFile DEF SetVariable
<1>3. env[v] = Absent => inherited[v] = Absent
  BY <1>1 DEF ProcessInv, HalfLoaded
<1>4. CASE UNCHANGED <<startup, env>> /\ env[v] # Absent
  BY <1>2, <1>4, SameFile DEF SetVariable, ProcessInv, ProcessTypes, HalfLoaded, Registering,
     ServesAsConfigured
<1>5. CASE /\ env[v] = Absent /\ d.value # "unsettable" /\ UNCHANGED startup
           /\ env' = [env EXCEPT ![v] = d.value]
  <2>1. /\ env'[v] = d.value
        /\ \A w \in Variables : w # v => env'[w] = env[w]
        /\ env' \in [Variables -> Values \ {"unsettable"}]
    BY <1>1, <1>5 DEF ProcessInv, ProcessTypes
  <2>2. Effective(v) = d.value /\ inherited[v] = Absent /\ d.value # Absent
    BY <1>1, <1>3, <1>5
  <2>3. /\ startup = "set" /\ startup' = "set" /\ todo' = todo \ {d}
        /\ UNCHANGED <<inherited, file, registered, secure>>
    BY <1>5 DEF SetVariable
  <2> HIDE DEF v
  <2>4. ProcessTypes'
    BY <2>1, <2>3 DEF ProcessInv, ProcessTypes
  <2>5. HalfLoaded'
    <3>1. \A w \in Variables : inherited'[w] # Absent => env'[w] = inherited'[w]
      BY <2>1, <2>2, <2>3 DEF ProcessInv, HalfLoaded
    <3>2. \A w \in Variables : env'[w] # Absent => env'[w] = Effective(w)'
      BY <1>2, <2>1, <2>2 DEF ProcessInv, HalfLoaded
    <3>3. \A e \in Declarations(file) : e.variable \in Variables
      BY LastIsDeclared DEF ProcessInv
    <3>4. \A e \in Declarations(file)' \ todo' : env'[e.variable] # Absent
      BY <2>1, <2>2, <2>3, <3>3 DEF ProcessInv, HalfLoaded, Declarations, DeclaredIn, v
    <3>5. ~Malformed(file)'
      BY <2>3 DEF ProcessInv, HalfLoaded, Malformed
    <3> QED
      BY <2>3, <3>1, <3>2, <3>4, <3>5 DEF HalfLoaded
  <2>6. Registering' /\ ServesAsConfigured'
    BY <2>3, <2>5 DEF ProcessInv, Registering, ServesAsConfigured, HalfLoaded
  <2> QED
    BY <2>4, <2>5, <2>6 DEF ProcessInv
<1>6. CASE env[v] = Absent /\ d.value = "unsettable" /\ startup' = "failed" /\ UNCHANGED env
  <2>1. ~Runnable
    BY <1>1, <1>3, <1>6 DEF Runnable
  <2> QED
    BY <1>2, <1>6, <2>1, SameFile DEF SetVariable, ProcessInv, ProcessTypes, HalfLoaded,
       Registering, ServesAsConfigured
<1> QED
  BY <1>4, <1>5, <1>6 DEF SetVariable, Goto

LEMMA LoadedInv == ASSUME ProcessInv, Loaded PROVE ProcessInv'
  BY SameFile DEF Loaded, Goto, ProcessInv, ProcessTypes, HalfLoaded, Registering,
     ServesAsConfigured

-----------------------------------------------------------------------------
(* Providers and flags *)

\* What the environment gives of a provider is what the file and the inherited
\* environment say.
LEMMA GivenIsEffective ==
  ASSUME NEW p \in Providers, \A v \in Variables : env[v] = Effective(v)
  PROVE  /\ GivenFields(p) = {} <=> Untouched(p)
         /\ GivenFields(p) = Fields <=> Complete(p)
         /\ ~(Complete(p) /\ Untouched(p))
         /\ env[<<p, "REDIRECT_URL">>] = Effective(<<p, "REDIRECT_URL">>)
<1>1. \A f \in Fields : <<p, f>> \in Variables
  BY DEF Variables
<1>2. "REDIRECT_URL" \in Fields
  BY DEF Fields
<1> QED
  BY <1>1, <1>2 DEF GivenFields, Given, Untouched, Complete

\* What one provider's configuration does to the providers gone through.
LEMMA ConfigureSettles ==
  ASSUME ProcessInv, NEW p \in Providers, NEW then, Configure(p, then), then # "failed",
         p \notin registered
  PROVE  /\ UNCHANGED <<env, inherited, file, todo, secure>>
         /\ registered \subseteq registered' /\ registered' \subseteq registered \union {p}
         /\ \/ /\ startup' = then /\ Settled(p)'
               /\ p = "GOOGLE" => registered' # {}
            \/ /\ startup' = "failed"
               /\ \/ ~Settled(p)' /\ ~Runnable
                  \/ p = "GOOGLE" /\ registered = {} /\ Untouched(p)
<1>1. \A v \in Variables : env[v] = Effective(v)
  BY AllLoaded DEF Configure, ProcessInv, HalfLoaded, Providers
<1>2. /\ GivenFields(p) = {} <=> Untouched(p)
      /\ GivenFields(p) = Fields <=> Complete(p)
      /\ ~(Complete(p) /\ Untouched(p))
      /\ env[<<p, "REDIRECT_URL">>] = Effective(<<p, "REDIRECT_URL">>)
  BY <1>1, GivenIsEffective
<1>3. /\ UNCHANGED <<inherited, file>> /\ Complete(p)' = Complete(p)
      /\ Untouched(p)' = Untouched(p)
      /\ Effective(<<p, "REDIRECT_URL">>)' = Effective(<<p, "REDIRECT_URL">>)
  BY SameFile DEF Configure
<1>4. CASE GivenFields(p) = {}
  BY <1>2, <1>3, <1>4 DEF Configure, Goto, Settled, Fields
<1>5. CASE GivenFields(p) = Fields /\ env[<<p, "REDIRECT_URL">>] = "good"
  <2>1. registered' = registered \union {p} /\ startup' = then
    BY <1>5 DEF Configure, Goto, Fields
  <2> QED
    BY <1>2, <1>3, <1>5, <2>1 DEF Configure, Settled
<1>6. CASE /\ GivenFields(p) # {}
           /\ GivenFields(p) # Fields \/ env[<<p, "REDIRECT_URL">>] # "good"
  <2>1. UNCHANGED registered /\ startup' = "failed"
    BY <1>6 DEF Configure, Goto
  <2>2. ~Runnable /\ ~Settled(p)'
    BY <1>2, <1>3, <1>6 DEF Runnable, Settled
  <2> QED
    BY <2>1, <2>2 DEF Configure
<1> QED
  BY <1>4, <1>5, <1>6 DEF Configure

LEMMA GitHubInv ==
  ASSUME ProcessInv, Configure("GITHUB", "GOOGLE")
  PROVE  ProcessInv'
<1>0. registered = {} /\ "GITHUB" \in Providers
  BY DEF Configure, ProcessInv, Registering, Providers
<1>1. /\ UNCHANGED <<env, inherited, file, todo, secure>>
      /\ registered' \subseteq {"GITHUB"}
      /\ \/ startup' = "GOOGLE" /\ Settled("GITHUB")'
         \/ startup' = "failed" /\ ~Runnable
  BY <1>0, ConfigureSettles
<1>2. startup = "GITHUB"
  BY DEF Configure
<1>3. ProcessTypes' /\ HalfLoaded'
  BY <1>1, <1>2, SameFile DEF ProcessInv, ProcessTypes, HalfLoaded, Providers, Declarations,
     DeclaredIn, Malformed
<1>4. Registering' /\ ServesAsConfigured'
  BY <1>1, <1>2, SameFile DEF ProcessInv, Registering, ServesAsConfigured
<1> QED
  BY <1>3, <1>4 DEF ProcessInv

LEMMA GoogleInv ==
  ASSUME ProcessInv, Configure("GOOGLE", "flags")
  PROVE  ProcessInv'
<1>1. /\ startup = "GOOGLE" /\ "GOOGLE" \notin registered /\ Settled("GITHUB")
      /\ registered \subseteq Providers
  BY DEF Configure, ProcessInv, ProcessTypes, Registering
<1>2. /\ UNCHANGED <<env, inherited, file, todo, secure>>
      /\ registered \subseteq registered' /\ registered' \subseteq registered \union {"GOOGLE"}
      /\ \/ startup' = "flags" /\ Settled("GOOGLE")' /\ registered' # {}
         \/ /\ startup' = "failed"
            /\ ~Runnable \/ (registered = {} /\ Untouched("GOOGLE"))
  <2>1. "GOOGLE" \in Providers
    BY DEF Providers
  <2> QED
    BY <1>1, <2>1, ConfigureSettles
<1>3. registered = {} /\ Untouched("GOOGLE") => ~Runnable
  BY <1>1 DEF Runnable, Settled, Complete, Untouched, Providers, Fields
<1>4. Settled("GITHUB")'
  BY <1>1, <1>2, SameFile DEF Settled
<1>5. ProcessTypes' /\ HalfLoaded'
  BY <1>1, <1>2, SameFile DEF ProcessInv, ProcessTypes, HalfLoaded, Providers, Declarations,
     DeclaredIn, Malformed
<1>6. Registering' /\ ServesAsConfigured'
  BY <1>1, <1>2, <1>3, <1>4, SameFile DEF ProcessInv, Registering, ServesAsConfigured
<1> QED
  BY <1>5, <1>6 DEF ProcessInv

LEMMA ReadFlagsInv ==
  ASSUME ProcessInv, ReadFlags
  PROVE  ProcessInv'
<1>1. /\ startup = "flags" /\ todo = {}
      /\ Settled("GITHUB") /\ Settled("GOOGLE") /\ registered # {} /\ registered \subseteq Providers
      /\ ~Malformed(file)
      /\ UNCHANGED <<env, inherited, file, todo, registered>>
  BY DEF ReadFlags, ProcessInv, ProcessTypes, HalfLoaded, Registering
<1>2. \A v \in Variables : env[v] = Effective(v) /\ Effective(v) # "unsettable"
  BY <1>1, AllLoaded DEF ProcessInv, ProcessTypes
<1>3. Cookie \in Variables /\ Certificate \in Variables /\ Key \in Variables
  BY DEF Variables
<1>4. Given(Certificate) = HasTLS /\ Given(Key) = (Effective(Key) \notin {Absent, "blank"})
  BY <1>2, <1>3 DEF Given, HasTLS
<1>5. /\ \A p \in Providers : p \in registered <=> Complete(p)
      /\ Runnable <=> Effective(Cookie) # "bad" /\ Given(Certificate) = Given(Key)
  <2>1. Providers = {"GITHUB", "GOOGLE"}
    BY DEF Providers
  <2>2. \A p \in Providers : Settled(p)
    BY <1>1, <2>1
  <2>3. \E p \in Providers : Complete(p)
    BY <1>1, <2>2 DEF Settled
  <2>4. \A p \in Providers : p \in registered <=> Complete(p)
    BY <2>2 DEF Settled
  <2>5. \A p \in Providers : /\ Complete(p) \/ Untouched(p)
                             /\ Complete(p) => Effective(<<p, "REDIRECT_URL">>) = "good"
    BY <2>2 DEF Settled
  <2> QED
    BY <1>1, <1>2, <1>4, <2>3, <2>4, <2>5 DEF Runnable, HasTLS
<1>6. CASE env[Cookie] # "bad" /\ Given(Certificate) = Given(Key)
  <2>1. /\ startup' = "serving"
        /\ secure' = (Effective(Cookie) = "good" \/ HasTLS)
    BY <1>2, <1>3, <1>4, <1>6 DEF ReadFlags, Goto
  <2>2. Runnable
    BY <1>2, <1>3, <1>5, <1>6
  <2>3. registered = {p \in Providers : Complete(p)}
    BY <1>1, <1>5
  <2>4. ServesAsConfigured'
    <3>1. Runnable' /\ registered' = {p \in Providers : Complete(p)'}
      BY <1>1, <2>2, <2>3, SameFile
    <3>2. secure' <=> HasTLS' \/ Effective(Cookie)' = "good"
      BY <1>1, <2>1, SameFile DEF HasTLS
    <3> QED
      BY <1>1, <2>1, <3>1, <3>2 DEF ProcessInv, ServesAsConfigured
  <2>5. ProcessTypes' /\ HalfLoaded' /\ Registering'
    BY <1>1, <2>1, SameFile DEF ProcessInv, ProcessTypes, HalfLoaded, Registering, Declarations,
       DeclaredIn, Malformed
  <2> QED
    BY <2>4, <2>5 DEF ProcessInv
<1>7. CASE env[Cookie] = "bad" \/ Given(Certificate) # Given(Key)
  <2>1. startup' = "failed" /\ UNCHANGED secure
    BY <1>7 DEF ReadFlags, Goto
  <2>2. ~Runnable
    BY <1>2, <1>3, <1>5, <1>7
  <2> QED
    BY <1>1, <2>1, <2>2, SameFile DEF ProcessInv, ProcessTypes, HalfLoaded, Registering,
       ServesAsConfigured, Declarations, DeclaredIn, Malformed
<1> QED
  BY <1>6, <1>7 DEF ReadFlags

\* While run serves, its configuration rests, and before that the server does.
LEMMA ProcessStep ==
  ASSUME [ProcessNext]_processVars
  PROVE  [Next]_vars
  BY DEF ProcessNext, Starting, Served, processVars

LEMMA ProcessNextInv == ProcessInv /\ [ProcessNext]_processVars => ProcessInv'
<1> SUFFICES ASSUME ProcessInv, [ProcessNext]_processVars PROVE ProcessInv'
  OBVIOUS
<1>1. CASE Starting
  BY <1>1, LoadFileInv, SetVariableInv, LoadedInv, GitHubInv, GoogleInv, ReadFlagsInv
     DEF Starting
<1>2. CASE UNCHANGED setup
  BY <1>2, SameFile DEF setup, ProcessInv, ProcessTypes, HalfLoaded, Registering,
     ServesAsConfigured, Settled, Declarations, DeclaredIn, Malformed
<1> QED
  BY <1>1, <1>2 DEF ProcessNext, Served, processVars

LEMMA ProcessInitInv == ProcessInit => ProcessInv
<1> SUFFICES ASSUME ProcessInit PROVE ProcessInv
  OBVIOUS
<1>1. env \in [Variables -> Values \ {"unsettable"}]
  BY EnvironmentsAssumption DEF ProcessInit
<1> QED
  BY <1>1 DEF ProcessInit, ProcessInv, ProcessTypes, HalfLoaded, Registering,
     ServesAsConfigured, Effective

-----------------------------------------------------------------------------
\* Seen from its server, the process behaves as the server alone: what happens before it
\* serves, and that it may never serve, shows as steps that do not take place.
THEOREM ProcessIsServer == ProcessSpec => Init /\ [][Next]_vars
<1>1. ProcessInit => Init
  BY DEF ProcessInit
<1> QED
  BY <1>1, ProcessStep, PTL DEF ProcessSpec

\* The strengthened invariant: what run's position says of the server, the channel
\* and the connections (main.go:62-88).
THEOREM Invariant == ProcessSpec => []IInv
<1>1. Init => IInv
  BY InitIInv
<1>2. IInv /\ [Next]_vars => IInv'
  BY NextIInv
<1> QED
  BY <1>1, <1>2, ProcessIsServer, PTL

\* run's variables keep their types; an ErrServerClosed never leaves it (main.go:73-75).
THEOREM Typing == ProcessSpec => []TypeOK
<1>1. IInv => TypeOK
  BY DEF IInv
<1> QED
  BY <1>1, Invariant, PTL

\* A clean exit follows a signal, a healthy listener and answered requests (main.go:78-87).
THEOREM CleanExit == ProcessSpec => []CleanExitIsClean
<1>1. IInv => CleanExitIsClean
  BY DEF IInv
<1> QED
  BY <1>1, Invariant, PTL

\* No request is cut off before the grace is over, unless the listener broke, and never
\* silently (main.go:79-83).
THEOREM CutOffReported == ProcessSpec => []CutOffIsReported
<1>1. IInv => CutOffIsReported
  BY DEF IInv
<1> QED
  BY <1>1, Invariant, PTL

\* Whatever the file and the environment are, and in whatever order the variables are
\* set, the process serves if it can, as it is configured, and fails if it cannot
\* (env.go:13-38, main.go:27-45, 91-177).
THEOREM Configured == ProcessSpec => []ServesAsConfigured
<1>1. ProcessInv => ServesAsConfigured
  BY DEF ProcessInv
<1> QED
  BY <1>1, ProcessInitInv, ProcessNextInv, PTL DEF ProcessSpec
=============================================================================

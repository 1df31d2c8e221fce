---------------------------- MODULE ServerProcess ----------------------------
(***************************************************************************)
(* The net/http example's process from its start: run loads the file .env   *)
(* into the environment (examples/nethttp/env.go), makes providers and       *)
(* flags of what the environment then says (main.go), and serves, which is   *)
(* ServerLifecycle.  Values are opaque but for what the code asks of them.   *)
(***************************************************************************)
EXTENDS ServerLifecycle, Naturals, Sequences

CONSTANTS
  Environments, \* what the process may be started with: each variable's value
  Files         \* what .env may be: NoFile, Unreadable, or its lines

VARIABLES
  startup,    \* what run does before it serves, "serving" or "failed"
  env,        \* the process's environment
  inherited,  \* history: the environment it was started with
  file,       \* the file
  todo,       \* the declarations loadEnvironmentFile has still to go through
  registered, \* the manager's providers
  secure      \* secureCookie

setup == <<startup, env, inherited, file, todo, registered, secure>>
processVars == <<vars, setup>>

-----------------------------------------------------------------------------
Providers == {"GITHUB", "GOOGLE"}
Fields == {"CLIENT_ID", "CLIENT_SECRET", "REDIRECT_URL"}
Cookie == <<"GOCI_CONNECT", "SECURE_COOKIE">>
Certificate == <<"GOCI_CONNECT", "TLS_CERT_FILE">>
Key == <<"GOCI_CONNECT", "TLS_KEY_FILE">>
Variables == (Providers \X Fields) \union {Cookie, Certificate, Key}

\* "blank" is empty once trimmed, "bad" is neither a boolean nor a URL a provider
\* redirects to, "unsettable" has a NUL byte, "false" is that boolean, and no such URL, and
\* "good" is true, or a text that serves its purpose.
Absent == "absent"
Values == {Absent, "blank", "bad", "unsettable", "false", "good"}

\* A line of the file: a declaration, or something else ("comment", "malformed").
Declaration(v, x) == [kind |-> "declaration", variable |-> v, value |-> x]
Other(kind) == [kind |-> kind, variable |-> Cookie, value |-> Absent]
NoFile == <<>>
Unreadable == <<Other("malformed")>>
Lines == [kind : {"declaration", "comment", "malformed"}, variable : Variables, value : Values]

\* An environment holds no NUL, and a declaration has a value.
ASSUME EnvironmentsAssumption == Environments \subseteq [Variables -> Values \ {"unsettable"}]
ASSUME FilesAssumption ==
  /\ Files \subseteq Seq(Lines)
  /\ \A f \in Files : \A i \in DOMAIN f : f[i].kind = "declaration" => f[i].value # Absent

ProcessInit ==
  /\ Init
  /\ startup = "load"
  /\ inherited \in Environments
  /\ env = inherited
  /\ file \in Files
  /\ todo = {}
  /\ registered = {}
  /\ secure = FALSE

-----------------------------------------------------------------------------
(* loadEnvironmentFile *)

DeclaredIn(lines) == {i \in DOMAIN lines : lines[i].kind = "declaration"}

\* parseEnvironment: the last declaration of each variable.
Declarations(lines) ==
  {lines[i] : i \in {j \in DeclaredIn(lines) :
     \A k \in DeclaredIn(lines) : lines[k].variable = lines[j].variable => k <= j}}

Malformed(lines) == \E i \in DOMAIN lines : lines[i].kind = "malformed"

Goto(step) == startup' = step

\* A missing file is no file to read; an unreadable or malformed one ends the process
\* before anything is set.
LoadFile ==
  /\ startup = "load"
  /\ \/ Malformed(file) /\ Goto("failed") /\ UNCHANGED todo
     \/ ~Malformed(file) /\ Goto("set") /\ todo' = Declarations(file)
  /\ UNCHANGED <<env, inherited, file, registered, secure>>

\* A slip: a variable that is there but empty is taken for one that is not.
SetVariableOverEmpty(d) ==
  /\ startup = "set" /\ d \in todo
  /\ todo' = todo \ {d}
  /\ \/ env[d.variable] \notin {Absent, "blank"} /\ UNCHANGED <<startup, env>>
     \/ /\ env[d.variable] \in {Absent, "blank"} /\ d.value # "unsettable"
        /\ env' = [env EXCEPT ![d.variable] = d.value]
        /\ UNCHANGED startup
     \/ /\ env[d.variable] \in {Absent, "blank"} /\ d.value = "unsettable"
        /\ Goto("failed") /\ UNCHANGED env
  /\ UNCHANGED <<inherited, file, registered, secure>>

\* The map is gone through in any order.  What the environment has, empty or not, stays;
\* a value that cannot be set ends the process, with some variables set and some not.
SetVariable(d) ==
  /\ startup = "set" /\ d \in todo
  /\ todo' = todo \ {d}
  /\ \/ env[d.variable] # Absent /\ UNCHANGED <<startup, env>>
     \/ /\ env[d.variable] = Absent /\ d.value # "unsettable"
        /\ env' = [env EXCEPT ![d.variable] = d.value]
        /\ UNCHANGED startup
     \/ /\ env[d.variable] = Absent /\ d.value = "unsettable"
        /\ Goto("failed") /\ UNCHANGED env
  /\ UNCHANGED <<inherited, file, registered, secure>>

Loaded ==
  /\ startup = "set" /\ todo = {}
  /\ Goto("GITHUB")
  /\ UNCHANGED <<env, inherited, file, todo, registered, secure>>

-----------------------------------------------------------------------------
(* managerFromEnvironment and the flags *)

\* strings.TrimSpace(getenv(v)) is not empty.
Given(v) == env[v] \notin {Absent, "blank"}

\* The fields of a provider that are given: providerEnvironment wants all or none.
GivenFields(p) == {f \in Fields : Given(<<p, f>>)}

\* One provider after the other; with the last one, one at least has to be there.
Configure(p, then) ==
  /\ startup = p
  /\ \/ /\ GivenFields(p) = {}
        /\ Goto(IF p = "GOOGLE" /\ registered = {} THEN "failed" ELSE then)
        /\ UNCHANGED registered
     \/ /\ GivenFields(p) = Fields /\ env[<<p, "REDIRECT_URL">>] = "good"
        /\ registered' = registered \union {p}
        /\ Goto(then)
     \/ /\ GivenFields(p) # {}
        /\ GivenFields(p) # Fields \/ env[<<p, "REDIRECT_URL">>] # "good"
        /\ Goto("failed")
        /\ UNCHANGED registered
  /\ UNCHANGED <<env, inherited, file, todo, secure>>

\* booleanEnvironment and the certificate, whose key has to be there when it is; with
\* it cookies are secure whatever the flag says.
ReadFlags ==
  /\ startup = "flags"
  /\ \/ /\ env[Cookie] # "bad" /\ Given(Certificate) = Given(Key)
        /\ secure' = (env[Cookie] = "good" \/ Given(Certificate))
        /\ Goto("serving")
     \/ /\ env[Cookie] = "bad" \/ Given(Certificate) # Given(Key)
        /\ UNCHANGED secure
        /\ Goto("failed")
  /\ UNCHANGED <<env, inherited, file, todo, registered>>

-----------------------------------------------------------------------------
Starting ==
  /\ \/ LoadFile
     \/ \E d \in todo : SetVariable(d)
     \/ Loaded
     \/ Configure("GITHUB", "GOOGLE")
     \/ Configure("GOOGLE", "flags")
     \/ ReadFlags
  /\ UNCHANGED vars

\* Signals are caught from here on.
Served(A) == startup = "serving" /\ A /\ UNCHANGED setup

ProcessNext == Starting \/ Served(Next)

\* run's own steps, and those of ServerLifecycle as there.
ProcessFairness ==
  /\ WF_processVars(Starting)
  /\ WF_processVars(Served(Check \/ Listen \/ ServeClosed))
  /\ WF_processVars(Served(TakeError))
  /\ WF_processVars(Served(TakeSignal))
  /\ WF_processVars(Served(GraceExpires))
  /\ WF_processVars(Served(ShutdownSucceeds \/ ShutdownPolls))
  /\ WF_processVars(Served(ShutdownSucceeds \/ ShutdownGivesUp))

ProcessSpec == ProcessInit /\ [][ProcessNext]_processVars /\ ProcessFairness

-----------------------------------------------------------------------------
(* Properties *)

\* The file's last line about a variable, if there is one.
LastLine(v) ==
  LET about == {i \in DeclaredIn(file) : file[i].variable = v}
  IN {i \in about : \A j \in about : j <= i}

\* What a variable is once the file is loaded, if it can be: as it was inherited, empty or
\* not, or else as the file says last.
Effective(v) ==
  IF inherited[v] # Absent THEN inherited[v]
  ELSE IF LastLine(v) = {} THEN Absent
  ELSE file[CHOOSE i \in LastLine(v) : TRUE].value

Complete(p) == \A f \in Fields : Effective(<<p, f>>) \notin {Absent, "blank"}
Untouched(p) == \A f \in Fields : Effective(<<p, f>>) \in {Absent, "blank"}
HasTLS == Effective(Certificate) \notin {Absent, "blank"}

\* What a process needs in order to serve.
Runnable ==
  /\ ~Malformed(file)
  /\ \A v \in Variables : Effective(v) # "unsettable"
  /\ \A p \in Providers : Complete(p) \/ Untouched(p)
  /\ \A p \in Providers : Complete(p) => Effective(<<p, "REDIRECT_URL">>) = "good"
  /\ \E p \in Providers : Complete(p)
  /\ Effective(Cookie) # "bad"
  /\ HasTLS <=> Effective(Key) \notin {Absent, "blank"}

\* The process serves if the file and what it inherited allow it and fails if they do not,
\* in whatever order the file's variables are set: with the providers that are complete,
\* cookies that are secure with TLS, and nothing inherited changed
\* (examples/nethttp/README.md:20-21, env.go:29-36, main.go:36-45, 91-165).
ServesAsConfigured ==
  /\ startup = "serving" =>
       /\ Runnable
       /\ registered = {p \in Providers : Complete(p)}
       /\ secure <=> HasTLS \/ Effective(Cookie) = "good"
  /\ startup = "failed" => ~Runnable
  /\ \A v \in Variables : inherited[v] # Absent => env[v] = inherited[v]

-----------------------------------------------------------------------------
(* The inductive invariant *)

ProcessTypes ==
  /\ startup \in {"load", "set", "GITHUB", "GOOGLE", "flags", "serving", "failed"}
  /\ inherited \in Environments
  /\ env \in [Variables -> Values \ {"unsettable"}]
  /\ file \in Files
  /\ todo \subseteq Declarations(file)
  /\ registered \subseteq Providers
  /\ secure \in BOOLEAN

\* While the file is gone through, a variable is Absent or what it will be, and Absent only
\* if its declaration is still to come or there is none; afterwards it is what it will be.
HalfLoaded ==
  /\ \A v \in Variables : inherited[v] # Absent => env[v] = inherited[v]
  /\ \A v \in Variables : env[v] # Absent => env[v] = Effective(v)
  /\ startup \notin {"load", "failed"} => ~Malformed(file)
  /\ startup \notin {"load", "failed"} =>
       \A d \in Declarations(file) \ todo : env[d.variable] # Absent
  /\ startup \notin {"load", "set", "failed"} => todo = {}

\* The providers run has gone through are whole or not there.
Settled(p) ==
  /\ Complete(p) \/ Untouched(p)
  /\ Complete(p) => Effective(<<p, "REDIRECT_URL">>) = "good"
  /\ p \in registered <=> Complete(p)

Registering ==
  /\ startup \in {"load", "set", "GITHUB"} => registered = {}
  /\ startup = "GOOGLE" => "GOOGLE" \notin registered /\ Settled("GITHUB")
  /\ startup = "flags" => Settled("GITHUB") /\ Settled("GOOGLE") /\ registered # {}

ProcessInv == ProcessTypes /\ HalfLoaded /\ Registering /\ ServesAsConfigured
=============================================================================

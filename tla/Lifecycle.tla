---- MODULE Lifecycle ----
(***************************************************************************)
(* One run of "collab create" or "collab join" from its first step to its  *)
(* exit (runCreate and runJoin in cmd/collab/create.go): what each step    *)
(* brings up, what each early return tears down again, and the deferred    *)
(* calls that end a session in the reverse order, together with the build  *)
(* of the Axl node (internal/bootstrap), the supervision of the daemon     *)
(* (internal/transport/supervisor.go, Host, Join and Close of axl.go), the *)
(* terminal UI and the agent it launches (internal/tui), and the session's *)
(* state file, which other sessions of the machine share (StateFile).      *)
(*                                                                         *)
(* A signal cancels the context of the run at any moment, the daemon may   *)
(* die at any moment, and every step that can fail may.  The daemon, the   *)
(* agent, the file system and the commands that are run are external, and  *)
(* taking things away again is taken to succeed.  What the goroutines of a *)
(* running session do to each other is in Session, Store and FileSync;     *)
(* that one of them may panic, which ends the process on the spot, is in   *)
(* Store alone.                                                            *)
(***************************************************************************)
EXTENDS StateFile, Naturals

CONSTANTS Peers,   \* the peers the transport may come to know
          Ours     \* this run, among the sessions of the machine

ASSUME OursAssumption == Ours \in Sessions

VARIABLES
    role,       \* "host" or "joiner"; it never changes
    at,         \* where main is
    defers,     \* the deferred calls, last one first
    detach,     \* the --detach flag: no terminal UI, the agent at once
    agent,      \* the agent runs in the foreground
    cancelled,  \* a signal has cancelled the context
    daemon,     \* the child process: "none", "running" or "gone"
    died,       \* history: the daemon went without being told to
    buildDir,   \* the directory the node is built in exists
    tempDir,    \* the daemon's directory exists
    registered, \* our MCP server is in the agent's configuration
    table,      \* the transport's peers
    farewell,   \* the peers Close has still to say goodbye to
    known,      \* history: the peers Close found in the table
    told,       \* history: the peers whose goodbye the daemon took
    refused     \* history: the peers whose goodbye the running daemon did not take

process == <<role, at, defers, detach>>
child == <<cancelled, daemon, died, tempDir>>
goodbyes == <<farewell, known, told, refused>>
vars == <<process, agent, child, buildDir, registered, table, goodbyes, stateVars>>

\* What a session that is up has deferred.
Deferred == <<"close stateStop", "cleanupMCP", "mcpStop", "st.Close", "ax.Close">>

\* The deferred calls of main once k of them are registered, the last one first.
Registered(k) == SubSeq(Deferred, Len(Deferred) - k + 1, Len(Deferred))

Stacks == {Registered(k) : k \in 0 .. Len(Deferred)}

TypeOK ==
    /\ role \in {"host", "joiner"}
    /\ at \in {"allocate", "ensure", "build", "mkdir", "spawn", "ready", "introduce", "serve", "register", "files",
               "running", "return", "goodbye", "stop", "clean", "exited"}
    /\ defers \in Stacks
    /\ detach \in BOOLEAN /\ agent \in BOOLEAN
    /\ cancelled \in BOOLEAN
    /\ daemon \in {"none", "running", "gone"}
    /\ died \in BOOLEAN
    /\ buildDir \in BOOLEAN /\ tempDir \in BOOLEAN
    /\ registered \in BOOLEAN
    /\ table \subseteq Peers
    /\ known \subseteq Peers
    /\ farewell \subseteq known /\ told \subseteq known /\ refused \subseteq known
    /\ StateTypeOK

Init ==
    /\ role \in {"host", "joiner"}
    /\ at = "allocate"
    /\ defers = Registered(0)
    /\ detach \in BOOLEAN /\ agent = FALSE
    /\ cancelled = FALSE
    /\ daemon = "none"
    /\ died = FALSE
    /\ buildDir = FALSE /\ tempDir = FALSE
    /\ registered = FALSE
    /\ table = {}
    /\ farewell = {} /\ known = {} /\ told = {} /\ refused = {}
    /\ StateInit

Goto(here, next) == at = here /\ at' = next /\ UNCHANGED <<role, detach>>

----
(* Bringing a session up.  A step that fails returns, through whatever is  *)
(* deferred by then.                                                       *)

\* The invite is parsed and the session's directory made.
Allocate ==
    /\ Goto("allocate", "ensure") \/ Goto("allocate", "return")
    /\ UNCHANGED <<defers, agent, child, buildDir, registered, table, goodbyes, stateVars>>

\* EnsureAxl finds a node, or has to build one and makes a directory for it.
EnsureAxl ==
    /\ \/ Goto("ensure", "mkdir") /\ UNCHANGED buildDir
       \/ Goto("ensure", "build") /\ buildDir' = TRUE
       \/ Goto("ensure", "return") /\ UNCHANGED buildDir
    /\ UNCHANGED <<defers, agent, child, registered, table, goodbyes, stateVars>>

\* Mutation: the directory is removed at the end of the function only.
BuildAxlKeepingDirOnError ==
    /\ \/ Goto("build", "mkdir") /\ buildDir' = FALSE
       \/ Goto("build", "return") /\ UNCHANGED buildDir
    /\ UNCHANGED <<defers, agent, child, registered, table, goodbyes, stateVars>>

\* buildAxl clones and builds, which no context ends; its directory goes either way.
BuildAxl ==
    /\ Goto("build", "mkdir") \/ Goto("build", "return")
    /\ buildDir' = FALSE
    /\ UNCHANGED <<defers, agent, child, registered, table, goodbyes, stateVars>>

MkdirTemp ==
    /\ \/ Goto("mkdir", "spawn") /\ tempDir' = TRUE
       \/ Goto("mkdir", "return") /\ UNCHANGED tempDir
    /\ UNCHANGED <<defers, agent, cancelled, daemon, died, buildDir, registered, table, goodbyes, stateVars>>

\* Writing the config and starting the node, which a cancelled context refuses.
Spawn ==
    /\ \/ ~cancelled /\ Goto("spawn", "ready") /\ daemon' = "running" /\ UNCHANGED tempDir
       \/ Goto("spawn", "return") /\ tempDir' = FALSE /\ UNCHANGED daemon
    /\ UNCHANGED <<defers, agent, cancelled, died, buildDir, registered, table, goodbyes, stateVars>>

\* Mutation: waitReady looks neither at the context nor at its deadline.
ReadyOrNever ==
    /\ Goto("ready", "introduce") /\ daemon = "running"
    /\ UNCHANGED <<defers, agent, child, buildDir, registered, table, goodbyes, stateVars>>

\* waitReady: the node answers, or the deadline or the context ends the wait.
WaitReady ==
    /\ \/ Goto("ready", "introduce") /\ daemon = "running"
       \/ Goto("ready", "stop")
    /\ UNCHANGED <<defers, agent, child, buildDir, registered, table, goodbyes, stateVars>>

\* Mutation: the error is returned and the daemon left to itself.
IntroduceOrReturn ==
    /\ \/ /\ Goto("introduce", "serve")
          /\ role = "joiner" => daemon = "running"
          /\ defers' = Registered(2)
       \/ Goto("introduce", "return") /\ UNCHANGED defers
    /\ UNCHANGED <<agent, child, buildDir, registered, table, goodbyes, stateVars>>

\* The host mints an invite; the joiner hands its hello to the daemon, which needs it
\* alive.  The receive loop runs from here on.
Introduce ==
    /\ \/ /\ Goto("introduce", "serve")
          /\ role = "joiner" => daemon = "running"
          /\ defers' = Registered(2)
       \/ Goto("introduce", "stop") /\ UNCHANGED defers
    /\ UNCHANGED <<agent, child, buildDir, registered, table, goodbyes, stateVars>>

StartMCPHTTP ==
    /\ \/ Goto("serve", "register") /\ defers' = Registered(3)
       \/ Goto("serve", "return") /\ UNCHANGED defers
    /\ UNCHANGED <<agent, child, buildDir, registered, table, goodbyes, stateVars>>

\* Mutation: the clean-up would run last, after the transport has closed.
RegisterToCleanUpLast ==
    /\ \/ /\ Goto("register", "files")
          /\ registered' = TRUE
          /\ defers' = Append(defers, "cleanupMCP")
       \/ Goto("register", "return") /\ UNCHANGED <<registered, defers>>
    /\ UNCHANGED <<agent, child, buildDir, table, goodbyes, stateVars>>

RegisterUserScopeMCP ==
    /\ \/ Goto("register", "files") /\ registered' = TRUE /\ defers' = Registered(4)
       \/ Goto("register", "return") /\ UNCHANGED <<registered, defers>>
    /\ UNCHANGED <<agent, child, buildDir, table, goodbyes, stateVars>>

\* The prompt, and the host's invite; then the tracker and the state writer start.
WriteSessionFiles ==
    /\ \/ Goto("files", "running") /\ defers' = Registered(5) /\ StartWriter(Ours)
       \/ Goto("files", "return") /\ UNCHANGED <<defers, stateVars>>
    /\ UNCHANGED <<agent, child, buildDir, registered, table, goodbyes>>

----
(* A session that is up: the terminal UI, which the agent suspends while   *)
(* it runs, or with --detach the agent alone.  The agent is started on the *)
(* context of the run, or of the UI, which ends with it.                   *)

Foreground(running) ==
    /\ at = "running"
    /\ agent' = running
    /\ UNCHANGED <<defers, child, buildDir, registered, table, goodbyes, stateVars>>

\* launchAgent, or the key "a".  A cancelled context refuses the start.
LaunchAgent ==
    /\ ~agent /\ ~cancelled
    /\ Foreground(TRUE)
    /\ UNCHANGED <<role, at, detach>>

\* The agent ends, or could not be started.  With --detach so does the session;
\* otherwise the UI shows how it ended (agentDoneMsg) and goes on.
AgentDone ==
    /\ agent
    /\ Foreground(FALSE)
    /\ IF detach THEN Goto("running", "return") ELSE UNCHANGED <<role, at, detach>>

\* Mutation: the agent is started without the context.
NobodyKillsAgent == FALSE /\ AgentDone

\* exec.CommandContext kills it.
KillAgent == cancelled /\ AgentDone

\* The key "q", for which the UI must not be suspended.
Quit ==
    /\ ~detach /\ ~agent
    /\ Foreground(FALSE)
    /\ Goto("running", "return")

\* The context is done: the program is told to quit, which it does once the agent is
\* gone; launchAgent cannot start one.
QuitOnCancel ==
    /\ cancelled /\ ~agent
    /\ Foreground(FALSE)
    /\ Goto("running", "return")

----
(* Returning.                                                              *)

Returns(call) ==
    /\ at = "return"
    /\ defers # <<>> /\ Head(defers) = call
    /\ defers' = Tail(defers)
    /\ UNCHANGED <<role, detach>>

\* Nobody waits for the writer to take notice.
StopWriter ==
    /\ Returns("close stateStop")
    /\ CloseStop(Ours)
    /\ UNCHANGED <<at, agent, child, buildDir, registered, table, goodbyes>>

CleanupMCP ==
    /\ Returns("cleanupMCP")
    /\ registered' = FALSE
    /\ UNCHANGED <<at, agent, child, buildDir, table, goodbyes, stateVars>>

\* The MCP server's context is cancelled, and the store closed; see Store.
StopServing ==
    /\ Returns("mcpStop") \/ Returns("st.Close")
    /\ UNCHANGED <<at, agent, child, buildDir, registered, table, goodbyes, stateVars>>

\* Mutation: the daemon is stopped without a word.
CloseSilently ==
    /\ Returns("ax.Close")
    /\ at' = "stop"
    /\ known' = table
    /\ UNCHANGED <<farewell, told, refused, agent, child, buildDir, registered, table, stateVars>>

CloseTransport ==
    /\ Returns("ax.Close")
    /\ at' = "goodbye"
    /\ farewell' = table
    /\ known' = table
    /\ UNCHANGED <<told, refused, agent, child, buildDir, registered, table, stateVars>>

\* One attempt for each peer, of half a second at most.  A running daemon takes the goodbye,
\* or refuses it or is too slow, and one that is gone takes nothing; Close goes on regardless.
SendGoodbye(q) ==
    /\ at = "goodbye"
    /\ q \in farewell
    /\ farewell' = farewell \ {q}
    /\ \/ daemon = "running" /\ told' = told \cup {q} /\ UNCHANGED refused
       \/ daemon = "running" /\ refused' = refused \cup {q} /\ UNCHANGED told
       \/ daemon # "running" /\ UNCHANGED <<told, refused>>
    /\ UNCHANGED <<process, agent, known, child, buildDir, registered, table, stateVars>>

GoodbyesSaid ==
    /\ Goto("goodbye", "stop")
    /\ farewell = {}
    /\ UNCHANGED <<defers, agent, child, buildDir, registered, table, goodbyes, stateVars>>

\* stop: an interrupt, up to three seconds for the daemon to exit, and a kill.
StopDaemon ==
    /\ Goto("stop", "clean")
    /\ daemon' = "gone"
    /\ UNCHANGED <<defers, agent, cancelled, died, tempDir, buildDir, registered, table, goodbyes, stateVars>>

RemoveTempDir ==
    /\ Goto("clean", "return")
    /\ tempDir' = FALSE
    /\ UNCHANGED <<defers, agent, cancelled, daemon, died, buildDir, registered, table, goodbyes, stateVars>>

\* The process ends, and every goroutine with it.
Exit ==
    /\ Goto("return", "exited")
    /\ defers = <<>>
    /\ EndProcess(Ours)
    /\ UNCHANGED <<defers, agent, child, buildDir, registered, table, goodbyes>>

----
(* What happens beside main.                                               *)

\* SIGINT or SIGTERM.
Signal ==
    /\ at # "exited" /\ ~cancelled
    /\ cancelled' = TRUE
    /\ UNCHANGED <<process, agent, daemon, died, tempDir, buildDir, registered, table, goodbyes, stateVars>>

\* The node was started with exec.CommandContext: its goroutine kills it at once.
KillDaemon ==
    /\ at # "exited" /\ cancelled /\ daemon = "running"
    /\ daemon' = "gone"
    /\ UNCHANGED <<process, agent, cancelled, died, tempDir, buildDir, registered, table, goodbyes, stateVars>>

\* Nothing restarts it, and nobody waits for it before stop.
DaemonDies ==
    /\ daemon = "running"
    /\ daemon' = "gone"
    /\ died' = TRUE
    /\ UNCHANGED <<process, agent, cancelled, tempDir, buildDir, registered, table, goodbyes, stateVars>>

\* The receive loop handles a hello, an ack or a goodbye, one of them perhaps after
\* Close has taken its snapshot.
PeerComes(q) ==
    /\ at \in {"serve", "register", "files", "running", "return", "goodbye"}
    /\ daemon = "running" /\ q \notin table
    /\ table' = table \cup {q}
    /\ UNCHANGED <<process, agent, child, buildDir, registered, goodbyes, stateVars>>

PeerGoes(q) ==
    /\ at \in {"running", "return", "goodbye"} /\ q \in table
    /\ table' = table \ {q}
    /\ UNCHANGED <<process, agent, child, buildDir, registered, goodbyes, stateVars>>

\* The writers, of this session and of others, and the others' main.
WriterRuns(s) ==
    /\ Run(s)
    /\ UNCHANGED <<process, agent, child, buildDir, registered, table, goodbyes>>

OtherSession(s) ==
    /\ s # Ours
    /\ Main(s)
    /\ UNCHANGED <<process, agent, child, buildDir, registered, table, goodbyes>>

----
Up == \/ Allocate \/ EnsureAxl \/ BuildAxl \/ MkdirTemp \/ Spawn \/ WaitReady \/ Introduce
      \/ StartMCPHTTP \/ RegisterUserScopeMCP \/ WriteSessionFiles

Running == LaunchAgent \/ AgentDone \/ KillAgent \/ Quit \/ QuitOnCancel

Down == \/ StopWriter \/ CleanupMCP \/ StopServing \/ CloseTransport
        \/ GoodbyesSaid \/ StopDaemon \/ RemoveTempDir \/ Exit
        \/ \E q \in Peers : SendGoodbye(q)

Beside == \/ Signal \/ KillDaemon \/ DaemonDies
          \/ \E s \in Sessions : WriterRuns(s) \/ OtherSession(s)
          \/ \E q \in Peers : PeerComes(q) \/ PeerGoes(q)

Next == Up \/ Running \/ Down \/ Beside

Spec == Init /\ [][Next]_vars

\* main goes on, and a goroutine that has work to do does it; a session that is up ends
\* only when it is asked to, and a cancelled context asks it and its agent.
FairSpec ==
    /\ Spec
    /\ WF_vars(Up) /\ WF_vars(Down) /\ WF_vars(KillAgent) /\ WF_vars(QuitOnCancel)
    /\ \A s \in Sessions : WF_vars(WriterRuns(s))

----
(* Properties.                                                             *)

\* On whichever step a run fails, is interrupted or loses its daemon, when it returns no
\* daemon and no agent is running, their directories are gone and the agent's
\* configuration no longer names our MCP server (create.go 90-251, supervisor.go 41-152,
\* axl.go 84-158, bootstrap.go 81-117).
LeavesNothingBehind ==
    at = "exited" => daemon # "running" /\ ~agent /\ ~buildDir /\ ~tempDir /\ ~registered

\* Everyone is offered a goodbye in time: unless a signal or its own death ends the daemon
\* early, each peer that is in the table when Close looks at it has been told through the
\* running daemon, or been refused by it, before the daemon is stopped (axl.go 272-302).
GoodbyesPrecedeStop ==
    at \in {"stop", "clean", "exited"} /\ ~cancelled /\ ~died => told \cup refused = known

\* A run that is interrupted, or that is on its way out, does exit: no step waits for
\* a peer, for the daemon or for another goroutine, and an agent that never ends by
\* itself does not keep the UI suspended (create.go 90-251, axl.go 272-302).
EndsWhenAsked == (cancelled \/ at = "return") ~> at = "exited"

\* A goodbye is "sent before clean disconnect" (docs/07-protocol.md:32), and a session
\* blocks "until SIGINT" (docs/08-cli.md:33): an interrupt is how it is meant to end.  Read
\* as weakly as can be: a daemon that does not die by itself has been given every goodbye.
GoodbyeOnInterrupt == at = "exited" /\ ~died => told \cup refused = known
====

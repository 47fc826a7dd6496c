---- MODULE LifecycleProofs ----
(***************************************************************************)
(* Theorems about Lifecycle for every set of peers: whatever fails, dies   *)
(* or is interrupted, a run that returns leaves nothing behind, and every  *)
(* peer has been offered a goodbye unless the daemon went early.           *)
(*                                                                         *)
(* What main has to clean up is not in its variables but in its place and  *)
(* in the calls it has deferred.  So the inductive invariant says which    *)
(* calls are deferred at which place, and that whatever is there to be     *)
(* cleaned up has an owner: a place that leads to its clean-up, or a       *)
(* deferred call.                                                          *)
(*                                                                         *)
(* The theorems about StateFile, for every set of sessions, come first:    *)
(* the types of its variables, and that without overlap a reader never     *)
(* finds a torn file.  Their inductive invariant says what the one writer  *)
(* there can be knows of the temporary file at each of its steps; a writer *)
(* that was left behind by a process that ended is no writer any more.     *)
(***************************************************************************)
EXTENDS Lifecycle, SequenceTheorems, TLAPS

----
(* The state file.                                                         *)

\* Whatever a writer does keeps the types of the variables.
LEMMA RunTypes == ASSUME StateTypeOK, NEW s \in Sessions, Run(s) PROVE StateTypeOK'
<1> USE DEF StateTypeOK, Contents, Moves
<1>1. CASE OpenTmp(s)
  BY <1>1 DEF OpenTmp
<1>2. CASE WriteTmp(s)
  <2>1. tmp' \in Contents /\ file' \in Contents
    BY <1>2 DEF WriteTmp, Over
  <2> QED BY <1>2, <2>1 DEF WriteTmp
<1>3. CASE RenameTmp(s)
  BY <1>3 DEF RenameTmp, Renamed
<1>4. CASE RenameFails(s)
  BY <1>4 DEF RenameFails
<1>5. CASE Tick(s)
  BY <1>5 DEF Tick
<1>6. CASE RemoveFile(s)
  BY <1>6 DEF RemoveFile
<1> QED BY <1>1, <1>2, <1>3, <1>4, <1>5, <1>6 DEF Run, Flush

\* Whatever main does about its writer keeps them too.
LEMMA MainTypes == ASSUME StateTypeOK, NEW s \in Sessions, Main(s) PROVE StateTypeOK'
<1> USE DEF StateTypeOK, Contents
<1>1. CASE StartWriter(s)
  BY <1>1 DEF StartWriter
<1>2. CASE CloseStop(s)
  BY <1>2 DEF CloseStop
<1>3. CASE EndProcess(s)
  BY <1>3 DEF EndProcess
<1> QED BY <1>1, <1>2, <1>3 DEF Main

----
(* The file is whole unless two sessions overlap.                          *)

\* A writer lives in a process that is up, and without overlap there is one of them.
OneUp ==
    /\ \A s \in Sessions : writer[s] # "none" => life[s] = "up"
    /\ ~overlap => \A r, s \in Sessions : life[r] = "up" /\ life[s] = "up" => r = s

\* The temporary file is what the writer's last step has left of it.
TmpIsMine ==
    ~overlap => \A s \in Sessions : /\ writer[s] = "write" => open[s] = "tmp" /\ tmp = "empty"
                                    /\ writer[s] = "rename" => tmp = s

FileInv == StateTypeOK /\ OneUp /\ TmpIsMine /\ WholeUnlessOverlapping

\* Nothing is written and nobody is up at first.
LEMMA InitFileInv == StateInit => FileInv
BY DEF StateInit, FileInv, StateTypeOK, Contents, OneUp, TmpIsMine, WholeUnlessOverlapping

\* The writer's own steps: another writer would be another session that is up.
LEMMA RunKeepsFileInv == ASSUME FileInv, NEW s \in Sessions, Run(s) PROVE FileInv'
<1>0. StateTypeOK'
  BY RunTypes DEF FileInv
<1> USE DEF FileInv, StateTypeOK, OneUp, TmpIsMine, WholeUnlessOverlapping, Moves
<1>1. CASE OpenTmp(s)
  BY <1>0, <1>1 DEF OpenTmp
<1>2. CASE WriteTmp(s)
  <2>1. ~overlap => open[s] = "tmp" /\ tmp' = s /\ file' = file
    BY <1>2 DEF WriteTmp, Over
  <2>2. OneUp'
    BY <1>2 DEF WriteTmp
  <2>3. ASSUME ~overlap', NEW r \in Sessions
        PROVE  /\ writer'[r] = "write" => open'[r] = "tmp" /\ tmp' = "empty"
               /\ writer'[r] = "rename" => tmp' = r
    <3>1. r = s \/ writer'[r] = "none"
      BY <1>2, <2>3 DEF WriteTmp
    <3> QED BY <1>2, <2>1, <2>3, <3>1 DEF WriteTmp
  <2>4. WholeUnlessOverlapping'
    BY <1>2, <2>1 DEF WriteTmp
  <2> QED BY <1>0, <2>2, <2>3, <2>4
<1>3. CASE RenameTmp(s)
  <2>1. ~overlap => file' = s
    BY <1>3 DEF RenameTmp
  <2>2. OneUp'
    BY <1>3 DEF RenameTmp
  <2>3. ASSUME ~overlap', NEW r \in Sessions
        PROVE  writer'[r] \notin {"write", "rename"}
    <3>1. r = s \/ writer'[r] = "none"
      BY <1>3, <2>3 DEF RenameTmp
    <3> QED BY <1>3, <3>1 DEF RenameTmp
  <2>4. TmpIsMine'
    BY <2>3
  <2> QED BY <1>0, <2>1, <2>2, <2>4, <1>3 DEF RenameTmp
<1>4. CASE RenameFails(s)
  BY <1>0, <1>4 DEF RenameFails
<1>5. CASE Tick(s)
  BY <1>0, <1>5 DEF Tick
<1>6. CASE RemoveFile(s)
  <2>1. OneUp' /\ WholeUnlessOverlapping'
    BY <1>6 DEF RemoveFile
  <2>2. ASSUME ~overlap', NEW r \in Sessions
        PROVE  writer'[r] \notin {"write", "rename"}
    <3>1. r = s \/ writer'[r] = "none"
      BY <1>6, <2>2 DEF RemoveFile
    <3> QED BY <1>6, <3>1 DEF RemoveFile
  <2> QED BY <1>0, <2>1, <2>2
<1> QED BY <1>1, <1>2, <1>3, <1>4, <1>5, <1>6 DEF Run, Flush

\* A session that starts while none is up finds no writer, and one that ends leaves none.
LEMMA MainKeepsFileInv == ASSUME FileInv, NEW s \in Sessions, Main(s) PROVE FileInv'
<1>0. StateTypeOK'
  BY MainTypes DEF FileInv
<1> USE DEF FileInv, StateTypeOK, OneUp, TmpIsMine, WholeUnlessOverlapping
<1>1. CASE StartWriter(s)
  <2>1. ~overlap' => \A r \in Sessions : life[r] # "up"
    BY <1>1 DEF StartWriter
  <2>2. \A r \in Sessions : r # s => writer'[r] = writer[r] /\ life'[r] = life[r]
    BY <1>1 DEF StartWriter
  <2>3. writer'[s] = "open" /\ life'[s] = "up"
    BY <1>1 DEF StartWriter
  <2>4. OneUp'
    BY <2>1, <2>2, <2>3, <1>1 DEF StartWriter
  <2>5. ASSUME ~overlap', NEW r \in Sessions PROVE writer'[r] \notin {"write", "rename"}
    BY <2>1, <2>2, <2>3, <2>5
  <2>6. overlap' = FALSE => overlap = FALSE
    BY <1>1 DEF StartWriter
  <2>7. WholeUnlessOverlapping'
    BY <2>6, <1>1 DEF StartWriter
  <2> QED BY <1>0, <2>4, <2>5, <2>7
<1>2. CASE CloseStop(s)
  BY <1>0, <1>2 DEF CloseStop
<1>3. CASE EndProcess(s)
  <2>1. OneUp'
    BY <1>3 DEF EndProcess
  <2>2. ASSUME ~overlap', NEW r \in Sessions
        PROVE  /\ writer'[r] = "write" => open'[r] = "tmp" /\ tmp' = "empty"
               /\ writer'[r] = "rename" => tmp' = r
    <3>1. r # s \/ writer'[r] = "none"
      BY <1>3 DEF EndProcess
    <3> QED BY <1>3, <2>2, <3>1 DEF EndProcess
  <2> QED BY <1>0, <2>1, <2>2, <1>3 DEF EndProcess
<1> QED BY <1>1, <1>2, <1>3 DEF Main

\* Steps of the file's own specification keep the invariant.
LEMMA FileStep == FileInv /\ [StateNext]_stateVars => FileInv'
<1>1. ASSUME FileInv, UNCHANGED stateVars PROVE FileInv'
  BY <1>1 DEF FileInv, StateTypeOK, OneUp, TmpIsMine, WholeUnlessOverlapping, stateVars
<1>2. ASSUME FileInv, StateNext PROVE FileInv'
  BY <1>2, RunKeepsFileInv, MainKeepsFileInv DEF StateNext
<1> QED BY <1>1, <1>2

\* A reader of state.json finds a whole snapshot or no file, as long as no two sessions
\* are up at once (state.go 75-94).
THEOREM WholeFile == StateSpec => []WholeUnlessOverlapping
<1>1. FileInv => WholeUnlessOverlapping
  BY DEF FileInv
<1> QED BY <1>1, InitFileInv, FileStep, PTL DEF StateSpec

----
(* One run.                                                                *)

\* How many calls are deferred at the places before the first return.
StackFitsPlace ==
    /\ at \in {"allocate", "ensure", "build", "mkdir", "spawn", "ready", "introduce",
               "goodbye", "stop", "clean", "exited"} => defers = Registered(0)
    /\ at = "serve" => defers = Registered(2)
    /\ at = "register" => defers = Registered(3)
    /\ at = "files" => defers = Registered(4)
    /\ at = "running" => defers = Registered(5)

\* main has started a daemon and will still stop it: here, or in a deferred call.
Owned ==
    \/ at \in {"ready", "introduce", "serve", "register", "files", "running", "goodbye", "stop"}
    \/ at = "return" /\ defers # <<>>

EverythingHasOwner ==
    /\ daemon = "running" => Owned
    /\ tempDir => Owned \/ at \in {"spawn", "clean"}
    /\ registered => \/ at \in {"files", "running"}
                     \/ at = "return" /\ defers \in {Registered(4), Registered(5)}
    /\ buildDir => at = "build"
    /\ agent => at = "running"

\* Until main stops it, only a signal or its own death ends a daemon.
DaemonLives == Owned /\ at # "stop" /\ ~cancelled /\ ~died => daemon = "running"

\* Close has not run yet.
Before ==
    \/ at \in {"allocate", "ensure", "build", "mkdir", "spawn", "ready", "introduce", "serve",
               "register", "files", "running"}
    \/ at = "return" /\ defers # <<>>

GoodbyeBook ==
    /\ Before => known = {} /\ told = {} /\ refused = {}
    /\ ~cancelled /\ ~died =>
          /\ at = "goodbye" => known = told \cup refused \cup farewell
          /\ ~Before /\ at # "goodbye" => told \cup refused = known

IInv == TypeOK /\ StackFitsPlace /\ EverythingHasOwner /\ DaemonLives /\ GoodbyeBook

----
(* The stack of deferred calls.                                            *)

\* The last call of k deferred ones is the k-th from the end of Deferred, and what is
\* below it are the other k - 1; no two heights of the stack are the same.
LEMMA Heights ==
    /\ Registered(0) = <<>>
    /\ \A k \in 1 .. 5 : /\ Registered(k) # <<>>
                         /\ Head(Registered(k)) = Deferred[6 - k]
                         /\ Tail(Registered(k)) = Registered(k - 1)
    /\ \A k, l \in 0 .. 5 : Registered(k) = Registered(l) => k = l
    /\ Len(Deferred) = 5
<1> DEFINE Calls == {"close stateStop", "cleanupMCP", "mcpStop", "st.Close", "ax.Close"}
<1>1. Deferred \in Seq(Calls) /\ Len(Deferred) = 5
  <2>1. Deferred \in Seq(Calls)
    BY SMTT(30) DEF Deferred
  <2>2. Len(Deferred) = 5
    BY SMTT(30) DEF Deferred
  <2> QED BY <2>1, <2>2
<1> HIDE DEF Calls
<1>2. \A k \in 0 .. 5 : Len(Registered(k)) = k
  <2> SUFFICES ASSUME NEW k \in 0 .. 5 PROVE Len(Registered(k)) = k
    OBVIOUS
  <2>1. \A i \in 6 - k .. 5 : Deferred[i] \in Calls
    BY <1>1
  <2> QED BY <1>1, <2>1, SubSeqProperties DEF Registered
<1>3. Registered(0) = <<>>
  BY <1>1, SubSeqEmpty DEF Registered
<1>4. ASSUME NEW k \in 1 .. 5
      PROVE  /\ Registered(k) # <<>>
             /\ Head(Registered(k)) = Deferred[6 - k]
             /\ Tail(Registered(k)) = Registered(k - 1)
  <2>1. 6 - k \in 1 .. Len(Deferred) /\ 5 \in 6 - k .. Len(Deferred)
    BY <1>1
  <2>2. /\ Head(SubSeq(Deferred, 6 - k, 5)) = Deferred[6 - k]
        /\ Tail(SubSeq(Deferred, 6 - k, 5)) = SubSeq(Deferred, 6 - k + 1, 5)
    BY <1>1, <2>1, HeadTailOfSubSeq
  <2>3. Registered(k) # <<>>
    <3>0. k \in 0 .. 5 /\ k # 0
      OBVIOUS
    <3>1. Len(Registered(k)) = k /\ k # 0
      BY <1>2, <3>0
    <3>2. Len(<<>>) = 0
      OBVIOUS
    <3> QED BY <3>1, <3>2
  <2>4. 5 - k + 1 = 6 - k /\ 5 - (k - 1) + 1 = 6 - k + 1
    OBVIOUS
  <2> QED BY <1>1, <2>2, <2>3, <2>4 DEF Registered
<1> QED BY <1>1, <1>2, <1>3, <1>4

\* The call that returns tells the height of the stack it was on top of.
LEMMA Due ==
    ASSUME TypeOK, NEW call, Returns(call)
    PROVE  /\ call = "close stateStop" => defers = Registered(5) /\ defers' = Registered(4)
           /\ call = "cleanupMCP" => defers = Registered(4) /\ defers' = Registered(3)
           /\ call = "mcpStop" => defers = Registered(3) /\ defers' = Registered(2)
           /\ call = "st.Close" => defers = Registered(2) /\ defers' = Registered(1)
           /\ call = "ax.Close" => defers = Registered(1) /\ defers' = Registered(0)
<1>1. PICK k \in 0 .. 5 : defers = Registered(k)
  BY Heights DEF TypeOK, Stacks
<1>2. k \in 1 .. 5
  BY <1>1, Heights DEF Returns
<1>3. call = Deferred[6 - k] /\ defers' = Registered(k - 1)
  BY <1>1, <1>2, Heights DEF Returns
<1>5. /\ Deferred[5] = "ax.Close" /\ Deferred[4] = "st.Close" /\ Deferred[3] = "mcpStop"
      /\ Deferred[2] = "cleanupMCP" /\ Deferred[1] = "close stateStop"
  BY DEF Deferred
<1>6. \/ k = 1 /\ 6 - k = 5 /\ k - 1 = 0
      \/ k = 2 /\ 6 - k = 4 /\ k - 1 = 1
      \/ k = 3 /\ 6 - k = 3 /\ k - 1 = 2
      \/ k = 4 /\ 6 - k = 2 /\ k - 1 = 3
      \/ k = 5 /\ 6 - k = 1 /\ k - 1 = 4
  BY <1>2
<1>4. \/ call = "ax.Close" /\ defers = Registered(1) /\ defers' = Registered(0)
      \/ call = "st.Close" /\ defers = Registered(2) /\ defers' = Registered(1)
      \/ call = "mcpStop" /\ defers = Registered(3) /\ defers' = Registered(2)
      \/ call = "cleanupMCP" /\ defers = Registered(4) /\ defers' = Registered(3)
      \/ call = "close stateStop" /\ defers = Registered(5) /\ defers' = Registered(4)
  BY <1>1, <1>3, <1>5, <1>6
<1> QED BY <1>4

\* The heights main is at, by name, are stacks, and different ones.
LEMMA Places ==
    /\ Registered(0) = <<>>
    /\ {Registered(0), Registered(1), Registered(2), Registered(3), Registered(4), Registered(5)}
          \subseteq Stacks
    /\ Registered(1) # <<>> /\ Registered(2) # <<>> /\ Registered(3) # <<>>
    /\ Registered(4) # <<>> /\ Registered(5) # <<>>
    /\ {Registered(4), Registered(5)} \cap {Registered(0), Registered(1), Registered(2), Registered(3)} = {}
BY Heights DEF Stacks

----
(* The invariant.                                                          *)

\* Before the first step nothing is there to own and nothing is deferred.
LEMMA InitIInv == Init => IInv
<1>1. Init => StateTypeOK
  BY DEF Init, StateInit, StateTypeOK, Contents
<1> QED BY <1>1, Places DEF Init, IInv, TypeOK, StackFitsPlace, EverythingHasOwner, DaemonLives,
           GoodbyeBook, Owned, Before

\* A step that has nothing to do with the state file leaves its variables their types.
LEMMA StateStays == ASSUME IInv, UNCHANGED stateVars PROVE StateTypeOK'
BY DEF IInv, TypeOK, stateVars, StateTypeOK

\* Bringing a session up keeps the invariant.
LEMMA UpKeepsIInv == ASSUME IInv, Up PROVE IInv'
<1> USE DEF IInv, TypeOK, StackFitsPlace, EverythingHasOwner, DaemonLives, GoodbyeBook, Owned, Before,
            Goto, process, child, goodbyes
<1>1. CASE Allocate
  <2>1. StateTypeOK'
    BY <1>1, StateStays DEF Allocate
  <2> QED BY <1>1, Places, <2>1 DEF Allocate
<1>2. CASE EnsureAxl
  <2>1. StateTypeOK'
    BY <1>2, StateStays DEF EnsureAxl
  <2>2. TypeOK'
    BY <1>2, Places, <2>1 DEF EnsureAxl
  <2>3. StackFitsPlace'
    BY <1>2, Places DEF EnsureAxl
  <2>4. EverythingHasOwner'
    BY <1>2, Places DEF EnsureAxl
  <2>5. DaemonLives'
    BY <1>2, Places DEF EnsureAxl
  <2>6. GoodbyeBook'
    BY <1>2, Places DEF EnsureAxl
  <2> QED BY <2>2, <2>3, <2>4, <2>5, <2>6
<1>3. CASE BuildAxl
  <2>1. StateTypeOK'
    BY <1>3, StateStays DEF BuildAxl
  <2> QED BY <1>3, Places, <2>1 DEF BuildAxl
<1>4. CASE MkdirTemp
  <2>0. StateTypeOK'
    BY <1>4, StateStays DEF MkdirTemp
  <2>1. TypeOK'
    BY <1>4, Places, <2>0 DEF MkdirTemp
  <2>2. StackFitsPlace'
    BY <1>4, Places DEF MkdirTemp
  <2>3. EverythingHasOwner'
    BY <1>4, Places DEF MkdirTemp
  <2>4. DaemonLives'
    BY <1>4, Places DEF MkdirTemp
  <2>5. GoodbyeBook'
    BY <1>4, Places DEF MkdirTemp
  <2> QED BY <2>1, <2>2, <2>3, <2>4, <2>5
<1>5. CASE Spawn
  <2>1. StateTypeOK'
    BY <1>5, StateStays DEF Spawn
  <2> QED BY <1>5, Places, <2>1 DEF Spawn
<1>6. CASE WaitReady
  <2>1. StateTypeOK'
    BY <1>6, StateStays DEF WaitReady
  <2> QED BY <1>6, Places, <2>1 DEF WaitReady
<1>7. CASE Introduce
  <2>1. StateTypeOK'
    BY <1>7, StateStays DEF Introduce
  <2> QED BY <1>7, Places, <2>1 DEF Introduce
<1>8. CASE StartMCPHTTP
  <2>1. StateTypeOK'
    BY <1>8, StateStays DEF StartMCPHTTP
  <2> QED BY <1>8, Places, <2>1 DEF StartMCPHTTP
<1>9. CASE RegisterUserScopeMCP
  <2>0. StateTypeOK'
    BY <1>9, StateStays DEF RegisterUserScopeMCP
  <2>1. TypeOK'
    BY <1>9, Places, <2>0 DEF RegisterUserScopeMCP
  <2>2. StackFitsPlace'
    BY <1>9, Places DEF RegisterUserScopeMCP
  <2>3. EverythingHasOwner'
    BY <1>9, Places DEF RegisterUserScopeMCP
  <2>4. DaemonLives'
    BY <1>9, Places DEF RegisterUserScopeMCP
  <2>5. GoodbyeBook'
    BY <1>9, Places DEF RegisterUserScopeMCP
  <2> QED BY <2>1, <2>2, <2>3, <2>4, <2>5
<1>10. CASE WriteSessionFiles
  <2>1. StateTypeOK'
    BY <1>10, StateStays, MainTypes, OursAssumption DEF WriteSessionFiles, Main
  <2> QED BY <1>10, Places, <2>1 DEF WriteSessionFiles
<1> QED BY <1>1, <1>2, <1>3, <1>4, <1>5, <1>6, <1>7, <1>8, <1>9, <1>10 DEF Up

\* So does what happens to a session that is up.
LEMMA RunningKeepsIInv == ASSUME IInv, Running PROVE IInv'
<1> USE DEF IInv, TypeOK, StackFitsPlace, EverythingHasOwner, DaemonLives, GoodbyeBook, Owned, Before,
            Goto, Foreground, process, child, goodbyes
<1>1. CASE LaunchAgent
  <2>1. StateTypeOK'
    BY <1>1, StateStays DEF LaunchAgent
  <2>2. TypeOK'
    BY <1>1, Places, <2>1 DEF LaunchAgent
  <2>3. StackFitsPlace'
    BY <1>1, Places DEF LaunchAgent
  <2>4. EverythingHasOwner'
    BY <1>1, Places DEF LaunchAgent
  <2>5. DaemonLives'
    BY <1>1, Places DEF LaunchAgent
  <2>6. GoodbyeBook'
    BY <1>1, Places DEF LaunchAgent
  <2> QED BY <2>2, <2>3, <2>4, <2>5, <2>6
<1>2. CASE AgentDone \/ KillAgent
  <2>1. StateTypeOK'
    BY <1>2, StateStays DEF AgentDone, KillAgent
  <2>2. TypeOK'
    BY <1>2, Places, <2>1 DEF AgentDone, KillAgent
  <2>3. StackFitsPlace'
    BY <1>2, Places DEF AgentDone, KillAgent
  <2>4. EverythingHasOwner'
    BY <1>2, Places DEF AgentDone, KillAgent
  <2>5. DaemonLives'
    BY <1>2, Places DEF AgentDone, KillAgent
  <2>6. GoodbyeBook'
    BY <1>2, Places DEF AgentDone, KillAgent
  <2> QED BY <2>2, <2>3, <2>4, <2>5, <2>6
<1>3. CASE Quit \/ QuitOnCancel
  <2>1. StateTypeOK'
    BY <1>3, StateStays DEF Quit, QuitOnCancel
  <2>2. TypeOK'
    BY <1>3, Places, <2>1 DEF Quit, QuitOnCancel
  <2>3. StackFitsPlace'
    BY <1>3, Places DEF Quit, QuitOnCancel
  <2>4. EverythingHasOwner'
    BY <1>3, Places DEF Quit, QuitOnCancel
  <2>5. DaemonLives'
    BY <1>3, Places DEF Quit, QuitOnCancel
  <2>6. GoodbyeBook'
    BY <1>3, Places DEF Quit, QuitOnCancel
  <2> QED BY <2>2, <2>3, <2>4, <2>5, <2>6
<1> QED BY <1>1, <1>2, <1>3 DEF Running

\* Returning keeps it: each deferred call takes away what it was the owner of.
LEMMA DownKeepsIInv == ASSUME IInv, Down PROVE IInv'
<1>a. /\ StopWriter => defers = Registered(5) /\ defers' = Registered(4)
      /\ CleanupMCP => defers = Registered(4) /\ defers' = Registered(3)
      /\ StopServing => \/ defers = Registered(3) /\ defers' = Registered(2)
                        \/ defers = Registered(2) /\ defers' = Registered(1)
      /\ CloseTransport => defers = Registered(1) /\ defers' = Registered(0)
  BY Due DEF IInv, StopWriter, CleanupMCP, StopServing, CloseTransport
<1> USE DEF IInv, TypeOK, StackFitsPlace, EverythingHasOwner, DaemonLives, GoodbyeBook, Owned, Before,
            Goto, process, child, goodbyes
<1>1. CASE StopWriter
  <2>1. StateTypeOK'
    BY <1>1, MainTypes, OursAssumption DEF StopWriter, Returns, Main, IInv, TypeOK
  <2> QED BY <1>1, <1>a, Places, <2>1 DEF StopWriter, Returns, Main, IInv, TypeOK
<1>2. CASE CleanupMCP
  <2>1. StateTypeOK'
    BY <1>2, StateStays DEF CleanupMCP, Returns
  <2> QED BY <1>2, <1>a, Places, <2>1 DEF CleanupMCP, Returns
<1>3. CASE StopServing
  <2>0. StateTypeOK'
    BY <1>3, StateStays DEF StopServing, Returns
  <2>1. TypeOK'
    BY <1>3, <1>a, Places, <2>0 DEF StopServing, Returns
  <2>2. StackFitsPlace'
    BY <1>3, <1>a, Places DEF StopServing, Returns
  <2>3. EverythingHasOwner'
    BY <1>3, <1>a, Places DEF StopServing, Returns
  <2>4. DaemonLives'
    BY <1>3, <1>a, Places DEF StopServing, Returns
  <2>5. GoodbyeBook'
    BY <1>3, <1>a, Places DEF StopServing, Returns
  <2> QED BY <2>1, <2>2, <2>3, <2>4, <2>5
<1>4. CASE CloseTransport
  <2>1. StateTypeOK'
    BY <1>4, StateStays DEF CloseTransport, Returns
  <2> QED BY <1>4, <1>a, Places, <2>1 DEF CloseTransport, Returns
<1>5. CASE GoodbyesSaid
  <2>1. StateTypeOK'
    BY <1>5, StateStays DEF GoodbyesSaid
  <2> QED BY <1>5, Places, <2>1 DEF GoodbyesSaid
<1>6. CASE StopDaemon
  <2>1. StateTypeOK'
    BY <1>6, StateStays DEF StopDaemon
  <2> QED BY <1>6, Places, <2>1 DEF StopDaemon
<1>7. CASE RemoveTempDir
  <2>1. StateTypeOK'
    BY <1>7, StateStays DEF RemoveTempDir
  <2> QED BY <1>7, Places, <2>1 DEF RemoveTempDir
<1>8. CASE Exit
  <2>1. StateTypeOK'
    BY <1>8, MainTypes, OursAssumption DEF Exit, Main
  <2> QED BY <1>8, Places, <2>1 DEF Exit, Main
<1>9. ASSUME NEW q \in Peers, SendGoodbye(q) PROVE IInv'
  <2>1. StateTypeOK'
    BY <1>9, StateStays DEF SendGoodbye
  <2> QED BY <1>9, Places, <2>1 DEF SendGoodbye
<1> QED BY <1>1, <1>2, <1>3, <1>4, <1>5, <1>6, <1>7, <1>8, <1>9 DEF Down

\* Nothing that happens beside main does more than to end a daemon.
LEMMA BesideKeepsIInv == ASSUME IInv, Beside PROVE IInv'
<1> USE DEF IInv, TypeOK, StackFitsPlace, EverythingHasOwner, DaemonLives, GoodbyeBook, Owned, Before,
            Goto, process, child, goodbyes
<1>1. CASE Signal
  <2>1. StateTypeOK'
    BY <1>1, StateStays DEF Signal
  <2> QED BY <1>1, Places, <2>1 DEF Signal
<1>2. CASE KillDaemon
  <2>1. StateTypeOK'
    BY <1>2, StateStays DEF KillDaemon
  <2> QED BY <1>2, Places, <2>1 DEF KillDaemon
<1>3. CASE DaemonDies
  <2>1. StateTypeOK'
    BY <1>3, StateStays DEF DaemonDies
  <2> QED BY <1>3, Places, <2>1 DEF DaemonDies
<1>4. ASSUME NEW s \in Sessions, WriterRuns(s) \/ OtherSession(s) PROVE IInv'
  <2>1. StateTypeOK'
    BY <1>4, RunTypes, MainTypes DEF WriterRuns, OtherSession
  <2> QED BY <1>4, <2>1 DEF WriterRuns, OtherSession
<1>5. ASSUME NEW q \in Peers, PeerComes(q) \/ PeerGoes(q) PROVE IInv'
  <2>1. StateTypeOK'
    BY <1>5, StateStays DEF PeerComes, PeerGoes
  <2> QED BY <1>5, <2>1 DEF PeerComes, PeerGoes
<1> QED BY <1>1, <1>2, <1>3, <1>4, <1>5 DEF Beside

\* The invariant holds in every reachable state.
THEOREM OwnersInvariant == Spec => []IInv
<1>1. ASSUME IInv, UNCHANGED vars PROVE IInv'
  <2>1. StateTypeOK'
    BY <1>1, StateStays DEF vars
  <2> QED BY <1>1, <2>1 DEF IInv, TypeOK, StackFitsPlace, EverythingHasOwner, DaemonLives, GoodbyeBook,
             Owned, Before, vars, process, child, goodbyes
<1>2. IInv /\ [Next]_vars => IInv'
  BY <1>1, UpKeepsIInv, RunningKeepsIInv, DownKeepsIInv, BesideKeepsIInv DEF Next
<1> QED BY <1>2, InitIInv, PTL DEF Spec

----
(* The theorems.                                                           *)

\* The variables keep their types, and main has deferred the calls of a session in the
\* order it should (create.go 105-151).
THEOREM TypeCorrect == Spec => []TypeOK
<1>1. IInv => TypeOK
  BY DEF IInv
<1> QED BY <1>1, OwnersInvariant, PTL

\* Whichever step fails and whoever interrupts the run, it leaves no daemon, no
\* directory and no registration behind.
THEOREM NothingLeftBehind == Spec => []LeavesNothingBehind
<1>1. IInv => LeavesNothingBehind
  BY Places DEF IInv, StackFitsPlace, EverythingHasOwner, Owned, LeavesNothingBehind
<1> QED BY <1>1, OwnersInvariant, PTL

\* Close offers the running daemon a goodbye for every peer it knows before it stops it, and
\* only a daemon that refuses one, or is too slow, leaves a peer untold: unless a signal or
\* the daemon's own end came first (axl.go 272-302).
THEOREM GoodbyesAreOffered == Spec => []GoodbyesPrecedeStop
<1>1. IInv => GoodbyesPrecedeStop
  BY Places DEF IInv, StackFitsPlace, GoodbyeBook, Before, GoodbyesPrecedeStop
<1> QED BY <1>1, OwnersInvariant, PTL

----
(* The state file.                                                         *)

\* To the state file a run is a session like any other: each of its steps is a step of
\* its writer, a step of main that the writer knows of, or none of the file's business.
THEOREM RunIsASession == Spec => StateSpec
<1>1. Init => StateInit
  BY DEF Init
<1>2. ASSUME Up PROVE [StateNext]_stateVars
  BY <1>2, OursAssumption DEF Up, Allocate, EnsureAxl, BuildAxl, MkdirTemp, Spawn, WaitReady, Introduce,
     StartMCPHTTP, RegisterUserScopeMCP, WriteSessionFiles, StateNext, Main
<1>3. ASSUME Running PROVE UNCHANGED stateVars
  BY <1>3 DEF Running, LaunchAgent, AgentDone, KillAgent, Quit, QuitOnCancel, Foreground
<1>4. ASSUME Down PROVE [StateNext]_stateVars
  BY <1>4, OursAssumption DEF Down, StopWriter, CleanupMCP, StopServing, CloseTransport, GoodbyesSaid,
     StopDaemon, RemoveTempDir, Exit, SendGoodbye, StateNext, Main
<1>5. ASSUME Beside PROVE [StateNext]_stateVars
  BY <1>5 DEF Beside, Signal, KillDaemon, DaemonDies, WriterRuns, OtherSession, PeerComes, PeerGoes,
     StateNext
<1>6. [Next]_vars => [StateNext]_stateVars
  BY <1>2, <1>3, <1>4, <1>5 DEF Next, vars, stateVars
<1> QED BY <1>1, <1>6, PTL DEF Spec, StateSpec

\* So in the run with everything around it, too, the file is whole unless sessions overlap.
THEOREM FileWholeDuringRun == Spec => []WholeUnlessOverlapping
BY RunIsASession, WholeFile, PTL
====

----------------------------- MODULE Bootstrap -----------------------------
(***************************************************************************)
(* How the servers and the clients come up and go down.  Servers and       *)
(* clients are two MPI jobs (main.cpp, hfetch::MPI_Init): a barrier or any *)
(* other collective holds only the processes of one job.  A process builds *)
(* singletons that build other singletons; the shared structures among     *)
(* them create (server) or open (client) a shared memory region and bind   *)
(* their methods to the RPC server of the process.  todo is the code a     *)
(* process has still to run, as a sequence of steps: GetInstance puts the  *)
(* steps of a constructor before the rest.                                 *)
(*                                                                         *)
(* External: the clients are started when server 0 has printed its prompt, *)
(* and its key is pressed when they have finished; nothing in the code     *)
(* enforces either.                                                        *)
(***************************************************************************)
EXTENDS Integers, Sequences

SeqsExt == INSTANCE SequencesExt

CONSTANTS
    NumServers,     \* processes of the server job
    NumClients,     \* processes of the client job
    RanksPerServer, \* ranks_per_server, the same for every client
    NumLayers,
    OffsetMaps,     \* the names of the max_num_files offset maps
    None, Stale     \* no region; the region a server of an earlier run left

ASSUME CountAssumption ==
    /\ {NumServers, RanksPerServer, NumLayers} \subseteq Nat \ {0}
    /\ NumClients \in 0 .. (NumServers * RanksPerServer)
    /\ OffsetMaps \in Seq(STRING)
    /\ \A i \in DOMAIN OffsetMaps :      \* they begin with a number
          OffsetMaps[i] \notin {"RPC_SERVER_LIST", "LOCAL_FILE_CLIENT", "MEMORY_CLIENT"}
    /\ None # Stale /\ {None, Stale} \cap (0 .. NumServers) = {}

Ranks == 0 .. (NumServers - 1)
Procs == [server : {TRUE}, rank : Ranks]
           \cup [server : {FALSE}, rank : 0 .. (NumClients - 1)]
Job(p) == {q \in Procs : q.server = p.server}

(* CONF->my_server *)
MyServer(p) == IF p.server THEN p.rank ELSE p.rank \div RanksPerServer

VARIABLES
    todo,       \* process -> the steps before it
    made,       \* process -> the singletons whose instance is set
    region,     \* <<name, server>> -> who created the region of that name
    mapped,     \* process -> name -> the region it works in
    bound,      \* server -> names whose methods its RPC server knows
    running,    \* servers whose RPC server has handler threads
    call,       \* process -> the <<name, server>> it is calling
    ready,      \* server 0 has printed its prompt
    failed      \* processes that an exception ended

vars == <<todo, made, region, mapped, bound, running, call, ready, failed>>

Step(a, x) == [act |-> a, on |-> x, at |-> 0]
Barrier == <<Step("Barrier", "MPI_COMM_WORLD")>>
GetInstance(T) == <<Step("GetInstance", T)>>
Create(x) == <<Step("Create", x)>>
Bind(x) == <<Step("Bind", x)>>
Open(x) == <<Step("Open", x)>>
If(c, steps) == IF c THEN steps ELSE <<>>

----------------------------------------------------------------------------
(* The constructors. *)

(* MPI_Comm_split, then the names of the hosts are gathered and broadcast: *)
(* each of these needs everybody.  A client opens before the barrier.      *)
RPC(p) ==
    Barrier \o (IF p.server THEN Barrier \o Create("RPC_SERVER_LIST")
                ELSE Open("RPC_SERVER_LIST"))
            \o Barrier

DistributedHashMap(p, x) ==
    GetInstance("RPC") \o If(p.server, Create(x) \o Bind(x))
        \o Barrier \o If(~p.server, Open(x)) \o Barrier

DistributedMap(p, x) == DistributedHashMap(p, x)
DistributedMessageQueue(p, x) == DistributedHashMap(p, x)

(* Bound before it is created. *)
GlobalSequence(p, x) ==
    GetInstance("RPC") \o If(p.server, Bind(x) \o Create(x))
        \o Barrier \o If(~p.server, Open(x)) \o Barrier

GlobalClock(p) == GlobalSequence(p, "GLOBAL_CLOCK")

SharedNames == <<"LAYER_CHANGED", "LAYER_CAPACITY">>
LocalNames == <<"L_LAYER_CHANGED", "L_LAYER_CAPACITY">>

SharedFileClient(p, names) ==
    DistributedHashMap(p, names[1]) \o DistributedHashMap(p, names[2])

LocalFileClient(p) ==
    SharedFileClient(p, LocalNames) \o GetInstance("RPC")
        \o If(p.server, Bind("LOCAL_FILE_CLIENT"))

\* Mutant of MemoryClient: the methods bound under another name.
Misspelt(p) ==
    DistributedHashMap(p, "DATA_MAP") \o GetInstance("RPC")
        \o If(p.server, Bind("MEMORY_CLIENT_"))

MemoryClient(p) ==
    DistributedHashMap(p, "DATA_MAP") \o GetInstance("RPC")
        \o If(p.server, Bind("MEMORY_CLIENT"))

IOClientFactory ==
    GetInstance("SharedFileClient") \o GetInstance("LocalFileClient")
        \o GetInstance("MemoryClient")

Offsets(p) ==
    SeqsExt!FlattenSeq([i \in DOMAIN OffsetMaps |-> DistributedMap(p, OffsetMaps[i])])

(* The key of layer_score_map is the layer's id, whose hash is itself.     *)
(* The Put of a key of another server is a call.                           *)
PutScore(l) ==
    If(l % NumServers # 0,
       <<[Step("Call", "LAYER_SCORE_MAP") EXCEPT !.at = l % NumServers]>>)

PutScores == SeqsExt!FlattenSeq([l \in 1 .. NumLayers |-> PutScore(l)])

Auditor(p, afterScores) ==
    DistributedHashMap(p, "VALID_SEQ") \o DistributedHashMap(p, "FILE_ACTIVE_STATUS")
        \o DistributedHashMap(p, "LAYER_SCORE_MAP") \o GlobalSequence(p, "FILE_INDEX")
        \o GetInstance("RPC") \o GetInstance("IOClientFactory") \o Offsets(p)
        \o If(p.server, Barrier \o If(p.rank = 0, PutScores) \o afterScores)

\* Mutant of FileSegmentAuditor: nobody waits for the scores.
NoLastBarrier(p) == Auditor(p, <<>>)

FileSegmentAuditor(p) == Auditor(p, Barrier)

DataManager(p) ==
    GlobalSequence(p, "FILE_NUM_SEQ")
        \o GetInstance("IOClientFactory") \o GetInstance("FileSegmentAuditor")

MaxBandwidthDPE ==
    GetInstance("FileSegmentAuditor") \o GetInstance("IOClientFactory")
        \o GetInstance("DataManager")

EventManager ==
    GetInstance("IOClientFactory") \o GetInstance("FileSegmentAuditor")
        \o GetInstance("DPEFactory") \o GetInstance("MaxBandwidthDPE")
        \o GetInstance("DataManager")

HardwareMonitor(p) == DistributedMessageQueue(p, "HARDWARE_QUEUE")

Server(p) ==
    GlobalClock(p) \o DistributedMessageQueue(p, "APPLICATION_QUEUE")
        \o GetInstance("RPC")
        \o If(p.server, <<Step("Run", "RPC")>> \o GetInstance("EventManager")
                            \o GetInstance("HardwareMonitor"))
        \o GetInstance("FileSegmentAuditor")

Constructor(p, T) ==
    CASE T = "RPC" -> RPC(p)
      [] T = "SharedFileClient" -> SharedFileClient(p, SharedNames)
      [] T = "LocalFileClient" -> LocalFileClient(p)
      [] T = "MemoryClient" -> MemoryClient(p)
      [] T = "IOClientFactory" -> IOClientFactory
      [] T = "FileSegmentAuditor" -> FileSegmentAuditor(p)
      [] T = "DPEFactory" -> <<>>
      [] T = "DataManager" -> DataManager(p)
      [] T = "MaxBandwidthDPE" -> MaxBandwidthDPE
      [] T = "EventManager" -> EventManager
      [] T = "HardwareMonitor" -> HardwareMonitor(p)
      [] T = "Server" -> Server(p)

\* Mutant of main: the destructors run while another server drains its queue.
NoFinalize(p) ==
    Barrier \o GetInstance("Server") \o If(p.rank = 0, <<Step("Prompt", "key")>>)
        \o Barrier \o <<Step("Stop", "Server")>> \o <<Step("Exit", "main")>>

(* UpdateServerComm splits the communicator; MPI_Finalize is collective. *)
main(p) ==
    Barrier \o GetInstance("Server") \o If(p.rank = 0, <<Step("Prompt", "key")>>)
        \o Barrier \o <<Step("Stop", "Server")>> \o Barrier \o <<Step("Exit", "main")>>

\* Mutant of Application: a collective in a branch of one rank.
RankZeroWaits(p) ==
    Barrier \o GetInstance("Server") \o GetInstance("IOClientFactory")
        \o <<Step("Work", "hfetch")>> \o If(p.rank = 0, Barrier) \o Barrier

(* InitializeClients, the application, MPI_Finalize. *)
Application(p) ==
    Barrier \o GetInstance("Server") \o GetInstance("IOClientFactory")
        \o <<Step("Work", "hfetch")>> \o Barrier

----------------------------------------------------------------------------
Names ==
    {"RPC_SERVER_LIST", "GLOBAL_CLOCK", "APPLICATION_QUEUE", "HARDWARE_QUEUE",
     "VALID_SEQ", "FILE_ACTIVE_STATUS", "LAYER_SCORE_MAP", "FILE_INDEX",
     "FILE_NUM_SEQ", "DATA_MAP", "LAYER_CHANGED", "LAYER_CAPACITY",
     "L_LAYER_CHANGED", "L_LAYER_CAPACITY"}
      \cup {OffsetMaps[i] : i \in DOMAIN OffsetMaps}

Bindable == (Names \ {"RPC_SERVER_LIST"}) \cup {"LOCAL_FILE_CLIENT", "MEMORY_CLIENT"}

(* What a process asks another server for: clock and queues are only used  *)
(* on the own server.                                                      *)
Remote == Bindable \ {"GLOBAL_CLOCK", "APPLICATION_QUEUE", "HARDWARE_QUEUE"}

(* What the end of a server does not remove: offsetMaps is an array from    *)
(* new, which nothing deletes, and the maps in it keep rpc.                 *)
Leaked ==
    LET maps == {OffsetMaps[i] : i \in DOMAIN OffsetMaps}
    IN  IF maps = {} THEN {} ELSE maps \cup {"RPC_SERVER_LIST"}

TypeOK ==
    /\ DOMAIN todo = Procs /\ DOMAIN made = Procs
    /\ region \in [Names \X Ranks -> Ranks \cup {None, Stale}]
    /\ mapped \in [Procs -> [Names -> Ranks \cup {None, Stale}]]
    /\ bound \in [Ranks -> SUBSET Bindable] /\ running \subseteq Ranks
    /\ call \in [Procs -> (Remote \X Ranks) \cup {None}]
    /\ ready \in BOOLEAN /\ failed \subseteq Procs

(* An earlier run was killed and left all regions, or it ended, or there    *)
(* was none.                                                                *)
Init ==
    /\ todo = [p \in Procs |-> IF p.server THEN main(p) ELSE Application(p)]
    /\ made = [p \in Procs |-> {}]
    /\ \E left \in {{}, Leaked, Names} :
          region = [n \in Names \X Ranks |-> IF n[1] \in left THEN Stale ELSE None]
    /\ mapped = [p \in Procs |-> [x \in Names |-> None]]
    /\ bound = [s \in Ranks |-> {}]
    /\ running = {}
    /\ call = [p \in Procs |-> None]
    /\ ready = FALSE /\ failed = {}

ClientsDone == \A p \in Procs : ~p.server => todo[p] = <<>>

At(p, a) ==
    /\ todo[p] # <<>> /\ Head(todo[p]).act = a
    /\ p.server \/ ready

Arg(p) == Head(todo[p]).on
Advance(p) == todo' = [todo EXCEPT ![p] = Tail(@)]

(* An exception that nobody catches. *)
Abort(p) == /\ failed' = failed \cup {p}
            /\ todo' = [todo EXCEPT ![p] = <<>>]

(* instance == nullptr: it is set when the constructor has returned. *)
DoGetInstance(p) ==
    /\ At(p, "GetInstance")
    /\ todo' = [todo EXCEPT ![p] =
                  IF Arg(p) \in made[p] THEN Tail(@)
                  ELSE Constructor(p, Arg(p)) \o <<Step("Set", Arg(p))>> \o Tail(@)]
    /\ UNCHANGED <<made, region, mapped, bound, running, call, ready, failed>>

SetInstance(p) ==
    /\ At(p, "Set") /\ Advance(p)
    /\ made' = [made EXCEPT ![p] = @ \cup {Arg(p)}]
    /\ UNCHANGED <<region, mapped, bound, running, call, ready, failed>>

(* A collective of the job p belongs to; p is its first rank. *)
DoBarrier(p) ==
    /\ p.rank = 0
    /\ \A q \in Job(p) : At(q, "Barrier")
    /\ todo' = [q \in Procs |-> IF q \in Job(p) THEN Tail(todo[q]) ELSE todo[q]]
    /\ UNCHANGED <<made, region, mapped, bound, running, call, ready, failed>>

\* Mutant of Region: the name without its "_" + my_server.
SameName(x, s) == <<x, 0>>

(* name += "_" + std::to_string(my_server) *)
Region(x, s) == <<x, s>>

(* shared_memory_object::remove, then managed_shared_memory(create_only). *)
DoCreate(p) ==
    /\ At(p, "Create") /\ Advance(p)
    /\ region' = [region EXCEPT ![Region(Arg(p), MyServer(p))] = p.rank]
    /\ mapped' = [mapped EXCEPT ![p][Arg(p)] = p.rank]
    /\ UNCHANGED <<made, bound, running, call, ready, failed>>

(* managed_shared_memory(open_only) throws if there is no region. *)
DoOpen(p) ==
    LET n == Region(Arg(p), MyServer(p))
        there == n \in DOMAIN region /\ region[n] # None
    IN  /\ At(p, "Open")
        /\ IF there
           THEN /\ mapped' = [mapped EXCEPT ![p][Arg(p)] = region[n]]
                /\ Advance(p) /\ UNCHANGED failed
           ELSE Abort(p) /\ UNCHANGED mapped
        /\ UNCHANGED <<made, region, bound, running, call, ready>>

DoBind(p) ==
    /\ At(p, "Bind") /\ Advance(p)
    /\ bound' = [bound EXCEPT ![p.rank] = @ \cup {Arg(p)}]
    /\ UNCHANGED <<made, region, mapped, running, call, ready, failed>>

(* rpc->run: async_run. *)
DoRun(p) ==
    /\ At(p, "Run") /\ Advance(p)
    /\ running' = running \cup {p.rank}
    /\ UNCHANGED <<made, region, mapped, bound, call, ready, failed>>

(* What p may be calling: the Put of a layer's scores; anything the other  *)
(* servers offer while the application runs or stop() drains the queue.    *)
Targets(p) ==
    CASE At(p, "Call") -> {<<Arg(p), Head(todo[p]).at>>}
      [] At(p, "Work") \/ At(p, "Stop") -> Remote \X (Ranks \ {MyServer(p)})
      [] OTHER -> {}

(* rpc->call: a handler of the server looks the name up. *)
CallBegin(p) ==
    /\ call[p] = None
    /\ \E t \in Targets(p) : call' = [call EXCEPT ![p] = t]
    /\ UNCHANGED <<todo, made, region, mapped, bound, running, ready, failed>>

CallEnd(p) ==
    /\ call[p] # None
    /\ LET x == call[p][1]  s == call[p][2]
           up == todo[[server |-> TRUE, rank |-> s]] # <<>>
       IN  /\ s \in running \/ ~up
           /\ IF ~up \/ x \notin bound[s] THEN Abort(p)
              ELSE /\ IF At(p, "Call") THEN Advance(p) ELSE UNCHANGED todo
                   /\ UNCHANGED failed
    /\ call' = [call EXCEPT ![p] = None]
    /\ UNCHANGED <<made, region, mapped, bound, running, ready>>

WorkEnds(p) ==
    /\ At(p, "Work") \/ At(p, "Stop")
    /\ call[p] = None /\ Advance(p)
    /\ UNCHANGED <<made, region, mapped, bound, running, call, ready, failed>>

Prompt(p) ==
    /\ At(p, "Prompt") /\ ~ready /\ ready' = TRUE
    /\ UNCHANGED <<todo, made, region, mapped, bound, running, call, failed>>

KeyPressed(p) ==
    /\ At(p, "Prompt") /\ ready /\ ClientsDone /\ Advance(p)
    /\ UNCHANGED <<made, region, mapped, bound, running, call, ready, failed>>

(* The destructors of the singletons remove the regions they know. *)
Exit(p) ==
    /\ At(p, "Exit") /\ Advance(p)
    /\ region' = [n \in DOMAIN region |->
                    IF n \in {Region(x, p.rank) : x \in Names \ Leaked} THEN None
                    ELSE region[n]]
    /\ running' = running \ {p.rank}
    /\ UNCHANGED <<made, mapped, bound, call, ready, failed>>

Act(p) ==
    \/ DoGetInstance(p) \/ SetInstance(p) \/ DoBarrier(p)
    \/ DoCreate(p) \/ DoOpen(p) \/ DoBind(p) \/ DoRun(p)
    \/ CallBegin(p) \/ CallEnd(p) \/ WorkEnds(p)
    \/ Prompt(p) \/ KeyPressed(p) \/ Exit(p)

Next == \E p \in Procs : Act(p)

----------------------------------------------------------------------------
(***************************************************************************)
(* A client works in the memory its server works in, under the mutex that  *)
(* is there: not in that of another server of the node, nor in one that a  *)
(* server of an earlier run left behind, and no region is replaced while   *)
(* somebody uses it (DistributedHashMap.h:107, 112).                       *)
(***************************************************************************)
SharesItsServersMemory ==
    \A p \in Procs, x \in Names : mapped[p][x] # None =>
        /\ mapped[p][x] = MyServer(p)
        /\ todo[p] # <<>> => region[Region(x, MyServer(p))] = MyServer(p)

(***************************************************************************)
(* No process ends with an exception: what it opens has been created, what *)
(* it calls is bound, and a server that is called, by an application or by *)
(* a server that is draining its queue, is still there (main.cpp:50-58).   *)
(***************************************************************************)
NothingMissing == failed = {}

(***************************************************************************)
(* Nobody binds methods in a server that is serving a call: rpclib reads   *)
(* and writes its table of functions without a lock, and rpc->run comes    *)
(* before most constructors (server.h:141).                                *)
(***************************************************************************)
NoBindDuringCall ==
    \A p, q \in Procs : At(p, "Bind") /\ call[q] # None => call[q][2] # p.rank

(***************************************************************************)
(* Everybody comes up and goes down: the processes of a job reach the same *)
(* collectives in the same order, whatever branches they take (the         *)
(* barriers of the constructors, main.cpp:55).  Each server leaves the     *)
(* offset maps and the RPC list it has created in shared memory, and       *)
(* nothing else (file_segment_auditor.h:64).                               *)
(***************************************************************************)
AllFinish ==
    <>[](/\ \A p \in Procs : todo[p] = <<>>
         /\ region = [n \in Names \X Ranks |-> IF n[1] \in Leaked THEN n[2] ELSE None])

(* Every process is scheduled; an application makes finitely many calls. *)
Spec == Init /\ [][Next]_vars /\ \A p \in Procs : WF_vars(Act(p)) /\ SF_vars(WorkEnds(p))
=============================================================================

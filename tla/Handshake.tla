------------------------------ MODULE Handshake -----------------------------
(***************************************************************************)
(* How afl-fuzz and its fork servers come to terms: afl_fsrv_start         *)
(* (afl-forkserver.c) with the sequence of starts, size changes and        *)
(* restarts in main (afl-fuzz.c), against the three servers that are in    *)
(* this repository: __afl_start_forkserver with the current protocol, the  *)
(* same with AFL_OLD_FORKSERVER (afl-compiler-rt.o.c), and _fksrv_start    *)
(* of unicornafl.  There may be a second server, for the CmpLog binary.    *)
(*                                                                         *)
(* The two sides talk over two pipes and share the coverage map, whose     *)
(* size only the target knows and only afl-fuzz can choose.  A server may  *)
(* die, or be slow, at any point.                                          *)
(*                                                                         *)
(* Abstractions.  A word on a pipe is a record that says what its sender   *)
(* meant by it; a dictionary is one message.  Test cases in shared memory  *)
(* are always on offer (shmem_testcase_mode).  Left out: stop_soon, the    *)
(* options of older servers that nothing in this repository sends, the     *)
(* QEMU, FRIDA, CoreSight and Nyx modes, and the other tools that start a  *)
(* fork server.                                                            *)
(***************************************************************************)
EXTENDS Naturals, Sequences

CONSTANTS
    MAP_SIZE, DEFAULT_SHMEM_SIZE,
    Align,              \* map sizes are rounded up to a multiple of this: 64
    FS_NEW_VERSION,     \* the only version this afl-fuzz understands
    Sizes,              \* what an uninitialised size may be
    Unset,
    NoTarget,
    Setups              \* how afl-fuzz is called, and with which targets

ASSUME HandshakeAssumption ==
    /\ MAP_SIZE \in Nat \ {0} /\ DEFAULT_SHMEM_SIZE \in Nat /\ Align \in Nat \ {0}
    /\ MAP_SIZE <= DEFAULT_SHMEM_SIZE
    /\ MAP_SIZE % Align = 0 /\ DEFAULT_SHMEM_SIZE % Align = 0
    /\ FS_NEW_VERSION \in Nat \ {0}
    /\ Sizes \subseteq Nat
    /\ Unset \notin Nat

Servers == {"main", "cmplog"}
Kinds == {"new", "old", "unicorn"}
Opts == {"MAPSIZE", "SHDMEM", "AUTODICT"}

Targets == [kind : Kinds, version : Nat, map_size : Nat \ {0}, shmem : BOOLEAN,
            dict : BOOLEAN]

\* A server that speaks the vanilla protocol can announce neither a map that is
\* not the default one nor a dictionary, and with AFL_OLD_FORKSERVER not that its
\* harness reads shared memory: afl-fuzz has to be told, or to be lucky.  The
\* CmpLog binary is built from the same harness as the main one.
ASSUME SetupsAssumption ==
    \A s \in Setups :
        /\ s.main \in Targets /\ s.cmplog \in Targets \cup {NoTarget}
        /\ s.env \in (Nat \ {0}) \cup {Unset}
        /\ s.skip_bin_check \in BOOLEAN /\ s.no_autodict \in BOOLEAN /\ s.deaths \in Nat
        /\ s.main.kind # "new" => s.main.map_size = MAP_SIZE /\ ~s.main.dict
        /\ s.main.kind = "old" =>
              /\ ~s.main.shmem
              /\ s.skip_bin_check => s.env = Unset \/ s.env >= MAP_SIZE
        /\ s.cmplog # NoTarget => s.cmplog.shmem = s.main.shmem

VARIABLES
    setup,          \* never changes
    deaths,         \* how many servers may still die
    \* afl-fuzz
    phase,          \* of main
    current,        \* the server that afl_fsrv_start is starting
    apc,            \* where in afl_fsrv_start, or "none"
    opts,           \* the options it has been sent
    map_size,       \* of main
    shm_size,       \* of the shared map
    env,            \* AFL_MAP_SIZE
    no_autodict,    \* AFL_NO_AUTODICT
    fsrv,           \* the two afl_forkserver_t
    loaded,         \* how often the dictionary has been loaded
    \* the servers
    spc,
    shmem,          \* it takes its test cases from shared memory
    \* the pipes
    ctl, st

clientVars == <<phase, current, apc, opts, map_size, shm_size, env, no_autodict,
                fsrv, loaded>>
vars == <<setup, deaths, clientVars, spc, shmem, ctl, st>>

Round(n) == ((n + Align - 1) \div Align) * Align

Target(f) == setup[f]
Compiled == setup.main.kind # "unicorn"
Word(type, value) == [type |-> type, value |-> value]

\* get_map_size.
get_map_size ==
    CASE setup.env # Unset -> Round(setup.env)
      [] setup.env = Unset /\ setup.skip_bin_check -> MAP_SIZE
      [] OTHER -> DEFAULT_SHMEM_SIZE

\* Once the shared map has been created.
Init ==
    /\ setup \in Setups
    /\ deaths = setup.deaths
    /\ phase = "init"
    /\ current = "main" /\ apc = "none" /\ opts = {}
    /\ map_size = IF Compiled THEN get_map_size ELSE MAP_SIZE
    /\ shm_size = map_size
    /\ env = setup.env
    /\ no_autodict = setup.no_autodict
    /\ fsrv = [f \in Servers |-> [map_size |-> map_size, use_shmem_fuzz |-> FALSE,
                                  up |-> FALSE]]
    /\ loaded = 0
    /\ spc = [f \in Servers |-> "off"]
    /\ shmem = [f \in Servers |-> FALSE]
    /\ ctl = [f \in Servers |-> <<>>] /\ st = [f \in Servers |-> <<>>]

----------------------------------------------------------------------------
(***************************************************************************)
(* The servers.                                                            *)
(***************************************************************************)

Dead(f) == spc[f] = "dead"

SetPc(f, to) == spc' = [spc EXCEPT ![f] = to]
Send(f, word) == st' = [st EXCEPT ![f] = Append(@, word)]

\* "if (!map_env || atoi((char *)map_env) < MAP_SIZE)".
MapRefused(f) ==
    /\ Target(f).map_size > MAP_SIZE
    /\ env = Unset \/ env < MAP_SIZE

\* Up to the first word.  The vanilla protocol has no more.
Hello(f) ==
    LET t == Target(f)
    IN  /\ spc[f] = "start"
        /\ CASE t.kind # "unicorn" /\ MapRefused(f) ->
                  Send(f, Word("error", 0)) /\ SetPc(f, "dead")
             [] t.kind = "new" /\ ~MapRefused(f) ->
                  Send(f, Word("version", t.version)) /\ SetPc(f, "reply")
             [] t.kind = "old" /\ ~MapRefused(f) ->
                  Send(f, Word("vanilla", {})) /\ SetPc(f, "loop")
             [] t.kind = "unicorn" ->
                  /\ Send(f, Word("vanilla", IF Target(f).shmem THEN {"SHDMEM"} ELSE {}))
                  /\ SetPc(f, IF Target(f).shmem THEN "reply" ELSE "loop")
        /\ shmem' = [shmem EXCEPT ![f] = Target(f).shmem]
        /\ UNCHANGED <<setup, deaths, clientVars, ctl>>

\* The answer has to be the inverted version, or the options, that were sent.
GetReply(f) ==
    LET t == Target(f)
        expected == IF t.kind = "new" THEN Word("inverse", t.version)
                    ELSE Word("accepted", {"SHDMEM"})
    IN  /\ spc[f] = "reply"
        /\ ctl[f] # <<>>
        /\ ctl' = [ctl EXCEPT ![f] = Tail(@)]
        /\ SetPc(f, CASE Head(ctl[f]) # expected -> "dead"
                      [] Head(ctl[f]) = expected /\ t.kind = "new" -> "options"
                      [] OTHER -> "loop")
        /\ UNCHANGED <<setup, deaths, clientVars, shmem, st>>

SendOptions(f) ==
    /\ spc[f] = "options"
    /\ Send(f, Word("options", {"MAPSIZE"}
                       \cup (IF shmem[f] THEN {"SHDMEM"} ELSE {})
                       \cup (IF Target(f).dict THEN {"AUTODICT"} ELSE {})))
    /\ SetPc(f, "map_size")
    /\ UNCHANGED <<setup, deaths, clientVars, shmem, ctl>>

SendMapSize(f) ==
    /\ spc[f] = "map_size"
    /\ Send(f, Word("number", Target(f).map_size))
    /\ SetPc(f, IF Target(f).dict THEN "dict" ELSE "end")
    /\ UNCHANGED <<setup, deaths, clientVars, shmem, ctl>>

SendDict(f) ==
    /\ spc[f] = "dict"
    /\ Send(f, Word("dict", 0))
    /\ SetPc(f, "end")
    /\ UNCHANGED <<setup, deaths, clientVars, shmem, ctl>>

\* "send welcome message as final message".
SendEnd(f) ==
    /\ spc[f] = "end"
    /\ Send(f, Word("version", Target(f).version))
    /\ SetPc(f, "loop")
    /\ UNCHANGED <<setup, deaths, clientVars, shmem, ctl>>

ServerStep(f) ==
    \/ Hello(f)
    \/ GetReply(f)
    \/ SendOptions(f)
    \/ SendMapSize(f)
    \/ SendDict(f)
    \/ SendEnd(f)

\* The server crashes, or is killed from outside.
Die(f) ==
    /\ deaths > 0
    /\ spc[f] \notin {"off", "dead"}
    /\ deaths' = deaths - 1
    /\ SetPc(f, "dead")
    /\ UNCHANGED <<setup, clientVars, shmem, ctl, st>>

----------------------------------------------------------------------------
(***************************************************************************)
(* afl_fsrv_start.                                                         *)
(***************************************************************************)

\* FATAL: the servers are killed on the way out.
Fatal ==
    /\ phase' = "fatal"
    /\ apc' = "none"
    /\ spc' = [f \in Servers |-> "off"]

\* fork and exec, over new pipes.
Start(f, servers) ==
    /\ current' = f
    /\ apc' = "hello"
    /\ opts' = {}
    /\ spc' = [servers EXCEPT ![f] = "start"]
    /\ ctl' = [ctl EXCEPT ![f] = <<>>]
    /\ st' = [st EXCEPT ![f] = <<>>]
    /\ UNCHANGED <<setup, deaths, loaded, shmem>>

Arrived == st[current] # <<>>
Received == Head(st[current])
Eof == ~Arrived /\ Dead(current)
Consume == st' = [st EXCEPT ![current] = Tail(@)]

\* Mutant: the answer is forgotten.
Answer_Forgotten(word) == ctl

Answer(word) == [ctl EXCEPT ![current] = Append(@, word)]

\* The handshake is over.
Connected(size, use_shmem_fuzz) ==
    /\ fsrv' = [fsrv EXCEPT ![current] = [map_size |-> size, up |-> TRUE,
                                          use_shmem_fuzz |-> use_shmem_fuzz]]
    /\ apc' = "none"

\* Too late: the server is killed.
HelloTimeout ==
    /\ apc = "hello" /\ ~Arrived
    /\ Fatal
    /\ UNCHANGED <<setup, deaths, current, opts, map_size, shm_size, env, no_autodict,
                   fsrv, loaded, shmem, ctl, st>>

\* "Old fork server model is used by the target, this still works though."
OldModel(options) ==
    /\ IF options = {} THEN UNCHANGED ctl
       ELSE ctl' = Answer(Word("accepted", options))
    /\ Connected(fsrv[current].map_size,
                 fsrv[current].use_shmem_fuzz \/ options # {})
    /\ UNCHANGED <<phase, spc>>

\* "If we have a four-byte 'hello' message from the server, we're all set."
\* CmpLog needs the current protocol.
ReadHello ==
    /\ apc = "hello" /\ Arrived
    /\ CASE Received.type = "version" /\ Received.value = FS_NEW_VERSION /\ ~Dead(current) ->
              /\ ctl' = Answer(Word("inverse", Received.value))
              /\ apc' = "options"
              /\ Consume
              /\ UNCHANGED <<phase, spc, fsrv>>
         [] Received.type = "vanilla" /\ current # "cmplog"
            /\ (Received.value = {} \/ ~Dead(current)) ->
              OldModel(Received.value) /\ Consume
         [] OTHER -> Fatal /\ UNCHANGED <<ctl, st, fsrv>>
    /\ UNCHANGED <<setup, deaths, current, opts, map_size, shm_size, env, no_autodict,
                   loaded, shmem>>

\* The options, or, if the server is gone, what the variable held before: the
\* answer that was sent, in which the bit FS_NEW_OPT_SHDMEM_FUZZ is set.
Status == IF Arrived THEN Received.value ELSE {"SHDMEM"}

\* What comes after the size: FS_NEW_OPT_SHDMEM_FUZZ, then FS_NEW_OPT_AUTODICT.
AfterSize(size, options) ==
    /\ fsrv' = [fsrv EXCEPT ![current].map_size = size,
                            ![current].use_shmem_fuzz = @ \/ "SHDMEM" \in options]
    /\ apc' = IF "AUTODICT" \in options THEN "dict" ELSE "end"
    /\ UNCHANGED <<phase, spc>>

ReadOptions ==
    /\ apc = "options"
    /\ Arrived \/ Eof
    /\ opts' = Status
    /\ IF "MAPSIZE" \in Status
         THEN apc' = "map_size" /\ UNCHANGED <<phase, spc, fsrv>>
         ELSE AfterSize(MAP_SIZE, Status)
    /\ IF Arrived THEN Consume ELSE UNCHANGED st
    /\ UNCHANGED <<setup, deaths, current, map_size, shm_size, env, no_autodict, loaded,
                   shmem, ctl>>

Limit == IF fsrv[current].map_size = 0 THEN MAP_SIZE ELSE fsrv[current].map_size

\* The size; an uninitialised one if the server is gone.
ReadMapSize(size) ==
    /\ apc = "map_size"
    /\ (Arrived /\ size = Received.value) \/ (Eof /\ size \in Sizes)
    /\ IF Round(size) > Limit
         THEN Fatal /\ UNCHANGED fsrv
         ELSE AfterSize(Round(size), opts)
    /\ IF Arrived THEN Consume ELSE UNCHANGED st
    /\ UNCHANGED <<setup, deaths, current, opts, map_size, shm_size, env, no_autodict,
                   loaded, shmem, ctl>>

\* "even if we do not need the dictionary we have to read it"; only the main
\* server has an add_extra_func.
ReadDict ==
    /\ apc = "dict"
    /\ \/ /\ Arrived
          /\ Consume
          /\ loaded' = IF no_autodict \/ current # "main" THEN loaded ELSE loaded + 1
          /\ apc' = "end"
          /\ UNCHANGED <<phase, spc>>
       \/ /\ Eof
          /\ Fatal
          /\ UNCHANGED <<st, loaded>>
    /\ UNCHANGED <<setup, deaths, current, opts, map_size, shm_size, env, no_autodict,
                   fsrv, shmem, ctl>>

\* The version once more.  Without one, status2 is not initialised and may be
\* anything, the version included.
ReadEnd ==
    /\ apc = "end"
    /\ \/ /\ Arrived /\ Received = Word("version", FS_NEW_VERSION)
          /\ Consume
          /\ Connected(fsrv[current].map_size, fsrv[current].use_shmem_fuzz)
          /\ UNCHANGED <<phase, spc>>
       \/ /\ Eof
          /\ Connected(fsrv[current].map_size, fsrv[current].use_shmem_fuzz)
          /\ UNCHANGED <<phase, spc, st>>
       \/ /\ Eof \/ (Arrived /\ Received # Word("version", FS_NEW_VERSION))
          /\ Fatal
          /\ UNCHANGED <<fsrv, st>>
    /\ UNCHANGED <<setup, deaths, current, opts, map_size, shm_size, env, no_autodict,
                   loaded, shmem, ctl>>

ReadStep ==
    \/ ReadHello
    \/ ReadOptions
    \/ \E size \in Sizes \cup {Target(current).map_size} : ReadMapSize(size)
    \/ ReadDict
    \/ ReadEnd
    \/ (Dead(current) /\ HelloTimeout)

----------------------------------------------------------------------------
(***************************************************************************)
(* main, between the creation of the shared map and the first calibration. *)
(***************************************************************************)

Max2(a, b) == IF a < b THEN b ELSE a

\* The targets whose map size afl-fuzz finds out before it starts.
Probes == Compiled /\ ~setup.skip_bin_check

\* afl_fsrv_kill.
Killed(servers) == [f \in Servers |-> IF f \in servers THEN "off" ELSE spc[f]]
Down(servers, sizes) ==
    [f \in Servers |-> IF f \in servers
                         THEN [fsrv[f] EXCEPT !.up = FALSE, !.map_size = sizes[f]]
                         ELSE fsrv[f]]

\* The first start tells how large the map has to be: "dummy temporary value".
Probe ==
    /\ phase = "init" /\ apc = "none"
    /\ IF Probes
         THEN /\ phase' = "probed"
              /\ IF map_size <= DEFAULT_SHMEM_SIZE
                   THEN /\ fsrv' = [fsrv EXCEPT !["main"].map_size = DEFAULT_SHMEM_SIZE]
                        /\ env' = DEFAULT_SHMEM_SIZE
                   ELSE UNCHANGED <<fsrv, env>>
              /\ Start("main", spc)
         ELSE /\ phase' = "cmplog"
              /\ UNCHANGED <<setup, deaths, current, apc, opts, env, fsrv, loaded, spc,
                             shmem, ctl, st>>
    /\ UNCHANGED <<map_size, shm_size, no_autodict>>

\* Mutant: AFL_NO_AUTODICT is not set.
NoAutodictOnRestart_Forgotten == no_autodict

\* setenv("AFL_NO_AUTODICT"): "loaded already".
NoAutodictOnRestart == TRUE

\* Mutant: the shared map is kept.
SharedMap_Kept(size) == shm_size

\* afl_shm_deinit and afl_shm_init.
SharedMap(size) == size

\* New maps, "only if the map needs to be larger than what we have".
Enlarge(servers, sizes, size) ==
    /\ fsrv' = Down(servers, sizes)
    /\ map_size' = size
    /\ shm_size' = SharedMap(size)
    /\ no_autodict' = NoAutodictOnRestart
    /\ Start("main", Killed(servers))
    /\ UNCHANGED env

Restart ==
    LET size == fsrv["main"].map_size
    IN  /\ phase = "probed" /\ apc = "none"
        /\ phase' = "cmplog"
        /\ IF map_size < size
             THEN Enlarge({"main"}, [f \in Servers |-> size], size)
             ELSE UNCHANGED <<setup, deaths, current, apc, opts, map_size, shm_size, env,
                              no_autodict, fsrv, loaded, spc, shmem, ctl, st>>

\* Spawning the CmpLog fork server.
StartCmplog ==
    LET dup == fsrv["main"].map_size
        raise == Probes /\ (map_size <= DEFAULT_SHMEM_SIZE \/ dup < map_size)
        size == IF raise THEN Max2(map_size, DEFAULT_SHMEM_SIZE) ELSE dup
    IN  /\ phase = "cmplog" /\ apc = "none"
        /\ IF setup.cmplog # NoTarget
             THEN /\ phase' = "cmploged"
                  /\ fsrv' = [fsrv EXCEPT !["cmplog"].map_size = size]
                  /\ env' = IF raise THEN size ELSE env
                  /\ Start("cmplog", spc)
             ELSE /\ phase' = "late"
                  /\ UNCHANGED <<setup, deaths, current, apc, opts, env, fsrv, loaded, spc,
                                 shmem, ctl, st>>
        /\ UNCHANGED <<map_size, shm_size, no_autodict>>

\* "non-cmplog stays the same".
RestartBoth ==
    LET size == fsrv["cmplog"].map_size
    IN  /\ phase = "cmploged" /\ apc = "none"
        /\ IF map_size < size
             THEN /\ phase' = "again"
                  /\ Enlarge(Servers, [f \in Servers |-> fsrv[f].map_size], size)
             ELSE /\ phase' = "late"
                  /\ UNCHANGED <<setup, deaths, current, apc, opts, map_size, shm_size,
                                 env, no_autodict, fsrv, loaded, spc, shmem, ctl, st>>

RestartCmplog ==
    /\ phase = "again" /\ apc = "none"
    /\ phase' = "late"
    /\ Start("cmplog", spc)
    /\ UNCHANGED <<map_size, shm_size, env, no_autodict, fsrv>>

\* calibrate_case: "Make sure the forkserver is up before we do anything".
StartLate ==
    /\ phase = "late" /\ apc = "none"
    /\ phase' = "fuzz"
    /\ IF fsrv["main"].up
         THEN UNCHANGED <<setup, deaths, current, apc, opts, loaded, spc, shmem, ctl, st>>
         ELSE Start("main", spc)
    /\ UNCHANGED <<map_size, shm_size, env, no_autodict, fsrv>>

MainStep ==
    \/ Probe
    \/ Restart
    \/ StartCmplog
    \/ RestartBoth
    \/ RestartCmplog
    \/ StartLate

Next ==
    \/ MainStep
    \/ ReadStep
    \/ HelloTimeout
    \/ \E f \in Servers : ServerStep(f) \/ Die(f)

\* Each side goes on when it can.  A server that lives may still be too slow to
\* say hello in time; nothing else is timed.
Fairness ==
    /\ WF_vars(MainStep)
    /\ WF_vars(ReadStep)
    /\ \A f \in Servers : WF_vars(ServerStep(f))

Spec == Init /\ [][Next]_vars /\ Fairness

----------------------------------------------------------------------------
(***************************************************************************)
(* Properties.                                                             *)
(***************************************************************************)

\* The types of afl_fsrv_start's variables, of the servers' and of the pipes;
\* whatever main restarts, the dictionary of the target (add_extra_func) is
\* loaded at most once.
TypeOK ==
    /\ setup \in Setups /\ deaths \in 0 .. setup.deaths
    /\ phase \in {"init", "probed", "cmplog", "cmploged", "again", "late", "fuzz", "fatal"}
    /\ current \in Servers
    /\ apc \in {"none", "hello", "options", "map_size", "dict", "end"}
    /\ opts \subseteq Opts
    /\ map_size \in Nat /\ shm_size \in Nat /\ env \in Nat \cup {Unset}
    /\ no_autodict \in BOOLEAN
    /\ fsrv \in [Servers -> [map_size : Nat, use_shmem_fuzz : BOOLEAN, up : BOOLEAN]]
    /\ loaded \in {0, 1}
    /\ spc \in [Servers -> {"off", "start", "reply", "options", "map_size", "dict", "end",
                           "loop", "dead"}]
    /\ shmem \in [Servers -> BOOLEAN]
    /\ \A f \in Servers : Len(st[f]) <= 5 /\ Len(ctl[f]) <= 1

\* A server that has reached its loop with afl-fuzz at work.
Serving(f) ==
    /\ phase = "fuzz" /\ apc = "none"
    /\ fsrv[f].up /\ spc[f] = "loop"

\* No server has died.
Undisturbed == deaths = setup.deaths

\* AFL_MAP_SIZE, if it is set, is not below the default.
Spacious == setup.env = Unset \/ setup.env >= MAP_SIZE

\* When afl-fuzz starts to fuzz, it and every server that is alive mean the same
\* (afl_fsrv_start with __afl_start_forkserver and _fksrv_start): both pipes
\* are empty, so that the first word is not taken for another; the shared map
\* and afl-fuzz's own maps hold what the target writes and what afl-fuzz
\* reads, whatever sizes were asked for, guessed and changed on the way; the
\* test case is put where the target looks for it, and the dictionary on offer
\* has been loaded if it was wanted.  When a server has died on the way the last
\* two may fail, and the sizes, too, if AFL_MAP_SIZE is below MAP_SIZE.
BothSidesAgree ==
    /\ \A f \in Servers : Serving(f) =>
        /\ ctl[f] = <<>> /\ st[f] = <<>>
        /\ Undisturbed \/ Spacious =>
             /\ Target(f).map_size <= shm_size
             /\ fsrv[f].map_size <= shm_size /\ fsrv[f].map_size <= map_size
             /\ Target(f).map_size <= fsrv[f].map_size
        /\ Undisturbed => shmem[f] = fsrv["main"].use_shmem_fuzz
    /\ Serving("main") /\ Undisturbed =>
        (loaded = 1 <=> setup.main.kind = "new" /\ setup.main.dict /\ ~setup.no_autodict)

\* No side waits for ever for a word that the other one never sends: afl-fuzz
\* gives up, or fuzzes with servers that are in their loops or dead.
HandshakeEnds ==
    <>(\/ phase = "fatal"
       \/ /\ phase = "fuzz" /\ apc = "none"
          /\ \A f \in Servers : spc[f] \in {"off", "loop", "dead"})

=============================================================================

--------------------------- MODULE HandshakeProofs --------------------------
(***************************************************************************)
(* Proofs about Handshake: types, and agreement of afl-fuzz with the       *)
(* servers it has started, for every setup, every size and any number of   *)
(* deaths.  The inductive invariant says where in the conversation both    *)
(* sides are, from what is under way in the pipes.                         *)
(***************************************************************************)
EXTENDS Handshake, TLAPS

\* afl_fsrv_start is talking to f.
Busy(f) == apc # "none" /\ current = f
Alive(f) == spc[f] \notin {"off", "dead"}

Options(t) == {"MAPSIZE"} \cup (IF t.shmem THEN {"SHDMEM"} ELSE {})
                          \cup (IF t.dict THEN {"AUTODICT"} ELSE {})

\* The first word of a server that does not refuse, and where it leads.
HelloWord(t) ==
    IF t.kind = "new" THEN Word("version", t.version)
    ELSE Word("vanilla", IF t.kind = "unicorn" /\ t.shmem THEN {"SHDMEM"} ELSE {})

AfterHello(t) ==
    IF t.kind = "new" \/ (t.kind = "unicorn" /\ t.shmem) THEN "reply" ELSE "loop"

\* What a server of the current protocol says after the reply.
Script(t) ==
    IF t.dict THEN << Word("options", Options(t)), Word("number", t.map_size),
                      Word("dict", 0), Word("version", t.version) >>
    ELSE << Word("options", Options(t)), Word("number", t.map_size),
            Word("version", t.version) >>

ScriptLen(t) == IF t.dict THEN 4 ELSE 3

\* Where it is when it has said the first k of these words.
PcAt(t, k) ==
    CASE k = 0 -> "options"
      [] k = 1 -> "map_size"
      [] k = 2 /\ t.dict -> "dict"
      [] k = ScriptLen(t) - 1 -> "end"
      [] OTHER -> "loop"

\* How many of them afl-fuzz has read.
ReadAt(t) ==
    CASE apc = "options" -> 0
      [] apc = "map_size" -> 1
      [] apc = "dict" -> 2
      [] OTHER -> ScriptLen(t) - 1

Between(t, c, k) == SubSeq(Script(t), c + 1, k)

\* A server that afl-fuzz is not talking to.
Settled(f) ==
    \/ ~Alive(f)
    \/ /\ spc[f] = "loop"
       /\ st[f] = <<>> /\ ctl[f] = <<>>
       /\ f = "cmplog" => Target(f).kind = "new"
    \/ /\ spc[f] = "reply" /\ f = "main"
       /\ Target(f).kind = "unicorn" /\ Target(f).shmem
       /\ st[f] = <<>> /\ ctl[f] = << Word("accepted", {"SHDMEM"}) >>

\* One from which the first word is expected.
Greeting(f) ==
    /\ ctl[f] = <<>>
    /\ \/ spc[f] = "start" /\ st[f] = <<>>
       \/ /\ spc[f] \in {AfterHello(Target(f)), "dead"}
          /\ st[f] = << HelloWord(Target(f)) >>
       \/ spc[f] = "dead" /\ st[f] = <<>>
       \/ spc[f] = "dead" /\ st[f] = << Word("error", 0) >>

\* One with which afl-fuzz exchanges options, size and dictionary.
Exchanging(f) ==
    LET t == Target(f)
    IN  /\ t.kind = "new" /\ t.version = FS_NEW_VERSION
        /\ apc = "dict" => t.dict
        /\ apc = "map_size" => opts = Options(t)
        /\ \/ /\ spc[f] = "reply" /\ apc = "options"
              /\ st[f] = <<>> /\ ctl[f] = << Word("inverse", t.version) >>
           \/ \E k \in ReadAt(t) .. ScriptLen(t) :
                /\ st[f] = Between(t, ReadAt(t), k)
                /\ spc[f] = PcAt(t, k) /\ ctl[f] = <<>>
           \/ /\ spc[f] = "dead"
              /\ \E k \in ReadAt(t) .. ScriptLen(t) : st[f] = Between(t, ReadAt(t), k)

ConversationWith(f) ==
    /\ ~Busy(f) => Settled(f)
    /\ Busy(f) /\ apc = "hello" => Greeting(f)
    /\ Busy(f) /\ apc # "hello" => Exchanging(f)

Conversation == \A f \in Servers : ConversationWith(f)

\* Only a server that refuses its map dies by itself.
CalmDeath(f) ==
    spc[f] = "dead" => Busy(f) /\ apc = "hello" /\ st[f] = << Word("error", 0) >>

Calm ==
    /\ phase = "init" => apc = "none" /\ \A f \in Servers : spc[f] = "off"
    /\ Alive("cmplog") \/ Busy("cmplog") \/ phase \in {"cmploged", "again"} =>
          setup.cmplog # NoTarget
    /\ Undisturbed => \A f \in Servers : CalmDeath(f)

\* The sizes: what main has allocated, what afl_fsrv_start was told.
SizesFit ==
    /\ shm_size = map_size
    /\ Spacious => MAP_SIZE <= map_size
    /\ Undisturbed => \A f \in Servers : fsrv[f].map_size > 0
    /\ phase = "init" => fsrv["main"].map_size = map_size
    /\ Undisturbed \/ Spacious =>
         /\ phase # "probed" => fsrv["main"].map_size <= map_size
         /\ phase \in {"again", "late", "fuzz"} /\ setup.cmplog # NoTarget =>
               fsrv["cmplog"].map_size <= map_size
    /\ Undisturbed /\ ~Probes =>
         /\ phase \notin {"probed", "again"}
         /\ phase = "cmploged" => fsrv["cmplog"].map_size <= map_size
    /\ (phase # "init" \/ ~Probes) /\ setup.main.kind # "new" =>
         MAP_SIZE <= fsrv["main"].map_size
    /\ \A f \in Servers :
         /\ Alive(f) /\ Target(f).kind = "new"
         /\ ~(Busy(f) /\ apc \in {"hello", "options", "map_size"})
         => fsrv[f].map_size = Round(Target(f).map_size)

\* Shared memory test cases: what a server does, what afl-fuzz believes.
ShmemKnown ==
    /\ \A f \in Servers : Alive(f) /\ spc[f] # "start" => shmem[f] = Target(f).shmem
    /\ Undisturbed =>
         /\ fsrv["main"].use_shmem_fuzz => setup.main.shmem
         /\ fsrv["main"].up \/ (Busy("main") /\ apc \in {"dict", "end"}) =>
               fsrv["main"].use_shmem_fuzz = setup.main.shmem

Wanted == setup.main.kind = "new" /\ setup.main.dict /\ ~setup.no_autodict

\* main has been heard of, or is being talked to.
MainUp ==
    /\ phase = "init" => ~fsrv["main"].up
    /\ Busy("main") => ~fsrv["main"].up
    /\ \/ phase \in {"again", "fuzz"}
       \/ Probes /\ phase # "init"
       => Busy("main") \/ fsrv["main"].up

HasPassedDict == fsrv["main"].up \/ (Busy("main") /\ apc = "end") \/ no_autodict

DictOnce ==
    /\ phase = "init" => loaded = 0
    /\ setup.no_autodict => no_autodict
    /\ loaded = 1 => Wanted /\ HasPassedDict
    /\ Undisturbed /\ Wanted /\ HasPassedDict => loaded = 1

\* Once FATAL has been called nothing happens any more.
IInv ==
    /\ TypeOK /\ DOMAIN st = Servers /\ DOMAIN ctl = Servers
    /\ phase = "fatal" => apc = "none" /\ \A f \in Servers : spc[f] = "off"
    /\ phase # "fatal" =>
         Conversation /\ Calm /\ SizesFit /\ ShmemKnown /\ MainUp /\ DictOnce

----------------------------------------------------------------------------
(***************************************************************************)
(* The words of the current protocol.                                      *)
(***************************************************************************)

LEMMA ScriptWords ==
    ASSUME NEW t
    PROVE  /\ Script(t)[1] = Word("options", Options(t))
           /\ Script(t)[2] = Word("number", t.map_size)
           /\ t.dict => Script(t)[3] = Word("dict", 0)
           /\ Script(t)[ScriptLen(t)] = Word("version", t.version)
           /\ Len(Script(t)) = ScriptLen(t)
BY DEF Script, ScriptLen

LEMMA PcAtValues ==
    ASSUME NEW t, NEW k
    PROVE  PcAt(t, k) \in {"options", "map_size", "dict", "end", "loop"}
BY DEF PcAt

LEMMA ScriptSeq == ASSUME NEW t PROVE \E S : Script(t) \in Seq(S)
<1> DEFINE a == Word("options", Options(t))
           b == Word("number", t.map_size)
           c == Word("dict", 0)
           d == Word("version", t.version)
<1>1. Script(t) = IF t.dict THEN <<a, b, c, d>> ELSE <<a, b, d>>
  BY DEF Script
<1> HIDE DEF a, b, c, d
<1>2. <<a, b, c, d>> \in Seq({a, b, c, d}) /\ <<a, b, d>> \in Seq({a, b, c, d})
  OBVIOUS
<1>3. Script(t) \in Seq({a, b, c, d})
  BY <1>1, <1>2
<1> QED
  BY <1>3

\* What is under way after j words, of which b have been read.
LEMMA BetweenIs ==
    ASSUME NEW t
    PROVE  \E S :
             /\ \A i \in 1..ScriptLen(t) : Script(t)[i] \in S
             /\ \A b \in Nat : \A j \in b..ScriptLen(t) :
                  /\ Between(t, b, j) \in Seq(S)
                  /\ Len(Between(t, b, j)) = j - b
                  /\ \A i \in 1..(j - b) : Between(t, b, j)[i] = Script(t)[b + i]
<1>1. PICK S : Script(t) \in Seq(S)
  BY ScriptSeq
<1> DEFINE n == ScriptLen(t)
<1>2. (n = 3 \/ n = 4) /\ n = Len(Script(t))
  BY ScriptWords DEF ScriptLen
<1>3. \A i \in 1..n : Script(t)[i] \in S
  BY <1>1, <1>2
<1>4. ASSUME NEW b \in Nat, NEW j \in b..n
      PROVE  /\ Between(t, b, j) \in Seq(S)
             /\ Len(Between(t, b, j)) = j - b
             /\ \A i \in 1..(j - b) : Between(t, b, j)[i] = Script(t)[b + i]
  <2>1. Between(t, b, j) = [i \in 1..(j - b) |-> Script(t)[b + i]]
    BY <1>1, <1>2 DEF Between
  <2>2. \A i \in 1..(j - b) : Script(t)[b + i] \in S
    BY <1>2, <1>3
  <2> QED
    BY <1>2, <2>1, <2>2
<1> QED
  BY <1>3, <1>4

LEMMA BetweenLen ==
    ASSUME NEW t, NEW c \in Nat, NEW k \in c..ScriptLen(t)
    PROVE  /\ Len(Between(t, c, k)) <= 5
           /\ c = k <=> Between(t, c, k) = <<>>
<1>1. Len(Between(t, c, k)) = k - c /\ \E S : Between(t, c, k) \in Seq(S)
  BY BetweenIs
<1>2. ScriptLen(t) \in Nat /\ ScriptLen(t) <= 4
  BY DEF ScriptLen
<1>3. k \in Nat /\ k <= ScriptLen(t)
  BY <1>2
<1> QED
  BY <1>1, <1>2, <1>3

LEMMA BetweenEmpty ==
    ASSUME NEW t, NEW c \in 0..ScriptLen(t)
    PROVE  Between(t, c, c) = <<>>
<1>1. c \in Nat /\ c \in c..ScriptLen(t)
  BY DEF ScriptLen
<1> QED
  BY <1>1, BetweenLen

LEMMA AppendIs ==
    ASSUME NEW S, NEW u \in Seq(S), NEW v \in Seq(S), NEW w \in S,
           Len(v) = Len(u) + 1, v[Len(u) + 1] = w, \A i \in 1..Len(u) : v[i] = u[i]
    PROVE  Append(u, w) = v
OBVIOUS

\* One more word is said.
LEMMA BetweenSay ==
    ASSUME NEW t, NEW c \in Nat, NEW k \in c..ScriptLen(t), k < ScriptLen(t)
    PROVE  Append(Between(t, c, k), Script(t)[k + 1]) = Between(t, c, k + 1)
<1> DEFINE u == Between(t, c, k)
           v == Between(t, c, k + 1)
           w == Script(t)[k + 1]
<1>1. k + 1 \in c..ScriptLen(t) /\ (k + 1) - c = k - c + 1
      /\ k + 1 \in 1..ScriptLen(t) /\ c + (k - c + 1) = k + 1
      /\ k - c \in Nat /\ k - c + 1 \in 1..(k - c + 1)
  BY DEF ScriptLen
<1>0. PICK S :
         /\ \A i \in 1..ScriptLen(t) : Script(t)[i] \in S
         /\ \A b \in Nat : \A j \in b..ScriptLen(t) :
              /\ Between(t, b, j) \in Seq(S)
              /\ Len(Between(t, b, j)) = j - b
              /\ \A i \in 1..(j - b) : Between(t, b, j)[i] = Script(t)[b + i]
  BY BetweenIs
<1>2. /\ w \in S
      /\ u \in Seq(S) /\ Len(u) = k - c /\ \A i \in 1..(k - c) : u[i] = Script(t)[c + i]
      /\ v \in Seq(S) /\ Len(v) = k - c + 1
      /\ \A i \in 1..(k - c + 1) : v[i] = Script(t)[c + i]
  BY <1>0, <1>1
<1>3. v[k - c + 1] = w
  BY <1>1, <1>2
<1>4. \A i \in 1..(k - c) : v[i] = u[i]
  BY <1>1, <1>2
<1> HIDE DEF u, v, w
<1>5. Append(u, w) = v
  <2>1. Len(v) = Len(u) + 1 /\ v[Len(u) + 1] = w /\ \A i \in 1..Len(u) : v[i] = u[i]
    BY <1>1, <1>2, <1>3, <1>4
  <2> QED
    BY <1>2, <2>1, AppendIs
<1> QED
  BY <1>5 DEF u, v, w

\* The next word is read.
LEMMA BetweenRead ==
    ASSUME NEW t, NEW c \in Nat, NEW k \in c..ScriptLen(t), c < k
    PROVE  /\ Head(Between(t, c, k)) = Script(t)[c + 1]
           /\ Tail(Between(t, c, k)) = Between(t, c + 1, k)
<1> DEFINE u == Between(t, c, k)
           v == Between(t, c + 1, k)
<1>1. c + 1 \in Nat /\ k \in (c + 1)..ScriptLen(t) /\ k - (c + 1) = k - c - 1
      /\ k - c - 1 \in Nat /\ 1 \in 1..(k - c)
  BY DEF ScriptLen
<1>0. PICK S :
         /\ \A i \in 1..ScriptLen(t) : Script(t)[i] \in S
         /\ \A b \in Nat : \A j \in b..ScriptLen(t) :
              /\ Between(t, b, j) \in Seq(S)
              /\ Len(Between(t, b, j)) = j - b
              /\ \A i \in 1..(j - b) : Between(t, b, j)[i] = Script(t)[b + i]
  BY BetweenIs
<1>2. /\ u \in Seq(S) /\ Len(u) = k - c /\ \A i \in 1..(k - c) : u[i] = Script(t)[c + i]
      /\ v \in Seq(S) /\ Len(v) = k - c - 1
      /\ \A i \in 1..(k - c - 1) : v[i] = Script(t)[c + 1 + i]
  BY <1>0, <1>1
<1>3. u[1] = Script(t)[c + 1] /\ u # <<>>
  BY <1>1, <1>2
<1>4. ASSUME NEW i \in 1..(k - c - 1)
      PROVE  v[i] = u[i + 1]
  <2>1. i + 1 \in 1..(k - c) /\ c + (i + 1) = c + 1 + i
    BY <1>1
  <2> QED
    BY <2>1, <1>2
<1> HIDE DEF u, v
<1>5. Head(u) = Script(t)[c + 1] /\ Tail(u) = v
  BY <1>1, <1>2, <1>3, <1>4
<1> QED
  BY <1>5 DEF u, v

----------------------------------------------------------------------------
(***************************************************************************)
(* The servers' steps.                                                     *)
(***************************************************************************)

\* A server that does something is the one afl-fuzz talks to, or unicornafl's
\* that still has to take the reply.
LEMMA ActiveTarget ==
    ASSUME IInv, NEW f \in Servers, Alive(f)
    PROVE  /\ phase # "fatal"
           /\ setup \in Setups
           /\ Target(f) \in Targets
           /\ f = "cmplog" => setup.cmplog # NoTarget
<1>1. phase # "fatal" /\ setup \in Setups
  BY DEF IInv, TypeOK, Alive
<1>2. f = "cmplog" => setup.cmplog # NoTarget
  BY <1>1 DEF IInv, Calm
<1>3. Target(f) \in Targets
  BY <1>1, <1>2, SetupsAssumption DEF Target, Servers
<1> QED
  BY <1>1, <1>2, <1>3

\* Nothing but server f and its pipes has changed, and at most one death is
\* recorded.
ServerMoves(f) ==
    /\ UNCHANGED <<setup, clientVars>>
    /\ deaths' \in 0 .. setup.deaths /\ (Undisturbed' => Undisturbed)
    /\ spc' \in [Servers -> {"reply", "options", "map_size", "dict", "end", "loop", "dead",
                             "off", "start"}]
    /\ shmem' \in [Servers -> BOOLEAN]
    /\ DOMAIN st' = Servers /\ DOMAIN ctl' = Servers
    /\ spc[f] \notin {"off", "dead"} /\ spc'[f] \notin {"off", "start"}
    /\ \A g \in Servers \ {f} :
          spc'[g] = spc[g] /\ shmem'[g] = shmem[g] /\ st'[g] = st[g] /\ ctl'[g] = ctl[g]

LEMMA ServerMovesKeeps ==
    ASSUME IInv, NEW f \in Servers, ServerMoves(f),
           Len(st'[f]) <= 5, Len(ctl'[f]) <= 1,
           spc'[f] = "dead" \/ shmem'[f] = Target(f).shmem,
           ConversationWith(f)',
           Undisturbed' => CalmDeath(f)'
    PROVE  IInv'
<1>1. phase # "fatal" /\ phase' = phase
  BY ActiveTarget DEF ServerMoves, Alive, clientVars
<1>2. TypeOK' /\ DOMAIN st' = Servers /\ DOMAIN ctl' = Servers
  <2>1. \A g \in Servers : Len(st'[g]) <= 5 /\ Len(ctl'[g]) <= 1
    BY DEF IInv, TypeOK, ServerMoves
  <2> QED
    BY <2>1 DEF IInv, TypeOK, ServerMoves, clientVars
<1>3. Conversation'
  <2>1. ASSUME NEW g \in Servers, g # f
        PROVE  ConversationWith(g)'
    <3>1. ConversationWith(g)
      BY <1>1 DEF IInv, Conversation
    <3>2. UNCHANGED <<apc, current, opts, setup>> /\ UNCHANGED <<spc[g], st[g], ctl[g]>>
      BY <2>1 DEF ServerMoves, clientVars
    <3>3. (Busy(g)' <=> Busy(g)) /\ Target(g)' = Target(g) /\ (Alive(g)' <=> Alive(g))
      BY <3>2 DEF Busy, Target, Alive
    <3>4. Settled(g) => Settled(g)'
      BY <3>2, <3>3 DEF Settled
    <3>5. Greeting(g) => Greeting(g)'
      BY <3>2, <3>3 DEF Greeting
    <3>6. Exchanging(g) => Exchanging(g)'
      BY <3>2, <3>3 DEF Exchanging, ReadAt
    <3> QED
      BY <3>1, <3>2, <3>3, <3>4, <3>5, <3>6 DEF ConversationWith
  <2> QED
    BY <2>1 DEF Conversation
<1>4. Calm'
  <2>1. ASSUME NEW g \in Servers, g # f, Undisturbed'
        PROVE  CalmDeath(g)'
    <3>1. CalmDeath(g)
      BY <1>1, <2>1 DEF IInv, Calm, ServerMoves
    <3>2. UNCHANGED <<apc, current, spc[g], st[g]>>
      BY <2>1 DEF ServerMoves, clientVars
    <3> QED
      BY <3>1, <3>2 DEF CalmDeath, Busy
  <2>2. Undisturbed' => \A g \in Servers : CalmDeath(g)'
    BY <2>1
  <2>3. phase' = "init" => apc' = "none" /\ \A g \in Servers : spc'[g] = "off"
    BY <1>1 DEF IInv, Calm, ServerMoves, clientVars
  <2>4. Alive("cmplog")' \/ Busy("cmplog")' \/ phase' \in {"cmploged", "again"} =>
          setup'.cmplog # NoTarget
    BY <1>1 DEF IInv, Calm, ServerMoves, clientVars, Alive, Busy, Servers
  <2> QED
    BY <2>2, <2>3, <2>4 DEF Calm
<1>5. \A g \in Servers : Alive(g)' => Alive(g)
  BY DEF ServerMoves, Alive
<1>6. SizesFit'
  BY <1>1, <1>5 DEF IInv, ServerMoves, clientVars, SizesFit, Spacious, Probes, Compiled,
         Target, Busy, Round
<1>7. ShmemKnown'
  <2>1. \A g \in Servers : Alive(g)' /\ spc'[g] # "start" => shmem'[g] = Target(g).shmem
    BY <1>1 DEF IInv, ShmemKnown, ServerMoves, Alive
  <2> QED
    BY <1>1, <2>1 DEF IInv, ServerMoves, clientVars, ShmemKnown, Target, Busy
<1>8. MainUp' /\ DictOnce'
  BY <1>1 DEF IInv, ServerMoves, clientVars, MainUp, DictOnce, Probes, Compiled,
         Wanted, HasPassedDict, Busy
<1> QED
  BY <1>1, <1>2, <1>3, <1>4, <1>6, <1>7, <1>8 DEF IInv

\* Appending to a pipe that is empty.
LEMMA FirstWord == ASSUME NEW w PROVE Append(<<>>, w) = <<w>> /\ Len(<<w>>) = 1
OBVIOUS

LEMMA HelloKeeps ==
    ASSUME IInv, NEW f \in Servers, Hello(f)
    PROVE  IInv'
<1> DEFINE t == Target(f)
           refused == t.kind # "unicorn" /\ MapRefused(f)
           word == IF refused THEN Word("error", 0) ELSE HelloWord(t)
           to == IF refused THEN "dead" ELSE AfterHello(t)
<1>1. /\ Alive(f) /\ spc[f] = "start"
      /\ UNCHANGED <<setup, deaths, clientVars, ctl>>
      /\ shmem' = [shmem EXCEPT ![f] = t.shmem]
  BY DEF Hello, Alive
<1>2. phase # "fatal" /\ t \in Targets
  BY <1>1, ActiveTarget
<1>3. Busy(f) /\ apc = "hello" /\ st[f] = <<>> /\ ctl[f] = <<>>
  <2>1. ConversationWith(f)
    BY <1>2 DEF IInv, Conversation
  <2>2. Busy(f)
    BY <1>1, <2>1 DEF ConversationWith, Settled
  <2>3. apc = "hello"
    BY <1>1, <2>1, <2>2, PcAtValues DEF ConversationWith, Exchanging
  <2> QED
    BY <1>1, <2>1, <2>2, <2>3 DEF ConversationWith, Greeting, AfterHello
<1>4. st' = [st EXCEPT ![f] = Append(@, word)] /\ spc' = [spc EXCEPT ![f] = to]
  BY <1>1, <1>2 DEF Hello, Send, SetPc, HelloWord, AfterHello, Targets, Kinds
<1>5. to \in {"dead", "reply", "loop"}
  BY DEF AfterHello
<1>6. st' = [st EXCEPT ![f] = <<word>>]
  BY <1>3, <1>4, FirstWord
<1> HIDE DEF t, refused, word, to
<1>7. st'[f] = <<word>> /\ spc'[f] = to /\ ctl'[f] = <<>> /\ shmem'[f] = t.shmem
  BY <1>1, <1>3, <1>4, <1>6 DEF IInv, TypeOK
<1>8. ServerMoves(f)
  BY <1>1, <1>2, <1>4, <1>5, <1>6 DEF IInv, TypeOK, ServerMoves, Undisturbed, Targets
<1>9. Len(st'[f]) <= 5 /\ Len(ctl'[f]) <= 1
  BY <1>7, FirstWord
<1>10. Busy(f)' /\ apc' = "hello" /\ Target(f)' = t
  BY <1>1, <1>3 DEF Busy, Target, clientVars, t
<1>11. ConversationWith(f)'
  BY <1>7, <1>10 DEF ConversationWith, Greeting, word, to, refused
<1>12. CalmDeath(f)'
  BY <1>7, <1>10 DEF CalmDeath, to, word, AfterHello
<1> QED
  BY <1>7, <1>8, <1>9, <1>11, <1>12, ServerMovesKeeps DEF t

\* A server that is saying its part is being listened to, and the pipe holds
\* what it has said so far.
LEMMA Saying ==
    ASSUME IInv, NEW f \in Servers, spc[f] \in {"options", "map_size", "dict", "end"}
    PROVE  /\ phase # "fatal" /\ Target(f) \in Targets
           /\ Busy(f) /\ apc # "hello" /\ Exchanging(f)
           /\ ctl[f] = <<>>
           /\ \E k \in ReadAt(Target(f)) .. ScriptLen(Target(f)) :
                /\ st[f] = Between(Target(f), ReadAt(Target(f)), k)
                /\ spc[f] = PcAt(Target(f), k)
<1>1. phase # "fatal" /\ Target(f) \in Targets
  BY ActiveTarget DEF Alive
<1>2. ConversationWith(f)
  BY <1>1 DEF IInv, Conversation
<1>3. Busy(f) /\ apc # "hello"
  BY <1>2 DEF ConversationWith, Settled, Greeting, AfterHello, Alive
<1> QED
  BY <1>1, <1>2, <1>3 DEF ConversationWith, Exchanging

\* The next word of the script is said.
LEMMA SayKeeps ==
    ASSUME IInv, NEW f \in Servers, phase # "fatal", Busy(f), apc # "hello",
           Exchanging(f), ctl[f] = <<>>,
           NEW t, t = Target(f), t \in Targets,
           NEW k \in ReadAt(t) .. ScriptLen(t), k < ScriptLen(t),
           st[f] = Between(t, ReadAt(t), k), spc[f] = PcAt(t, k),
           st' = [st EXCEPT ![f] = Append(@, Script(t)[k + 1])],
           spc' = [spc EXCEPT ![f] = PcAt(t, k + 1)],
           UNCHANGED <<setup, deaths, clientVars, shmem, ctl>>
    PROVE  IInv'
<1>1. ReadAt(t) \in Nat /\ ScriptLen(t) \in Nat /\ k + 1 \in ReadAt(t) .. ScriptLen(t)
  BY DEF ReadAt, ScriptLen
<1>2. st'[f] = Between(t, ReadAt(t), k + 1)
  <2> DEFINE c == ReadAt(t)
  <2>1. st'[f] = Append(Between(t, c, k), Script(t)[k + 1])
    BY DEF IInv
  <2> HIDE DEF c
  <2>2. c \in Nat /\ k \in c .. ScriptLen(t)
    BY <1>1 DEF c
  <2>3. Append(Between(t, c, k), Script(t)[k + 1]) = Between(t, c, k + 1)
    BY <2>2, BetweenSay
  <2> QED
    BY <2>1, <2>3 DEF c
<1>3. spc'[f] = PcAt(t, k + 1) /\ ctl'[f] = <<>> /\ shmem'[f] = t.shmem
  <2>1. Alive(f) /\ spc[f] # "start"
    BY PcAtValues DEF Alive
  <2> QED
    BY <2>1 DEF IInv, TypeOK, ShmemKnown
<1>4. Len(st'[f]) <= 5 /\ Len(ctl'[f]) <= 1
  <2> DEFINE c == ReadAt(t)
             B == Between(t, c, k + 1)
  <2> HIDE DEF c
  <2>1. c \in Nat /\ k + 1 \in c .. ScriptLen(t)
    BY <1>1 DEF c
  <2>2. Len(B) <= 5
    BY <2>1, BetweenLen
  <2>3. st'[f] = B
    BY <1>2 DEF c
  <2> HIDE DEF B
  <2>4. Len(ctl'[f]) = 0
    BY <1>3
  <2>6. Len(st'[f]) <= 5
    BY <2>2, <2>3
  <2>7. Len(ctl'[f]) <= 1
    BY <2>4
  <2> QED
    BY <2>6, <2>7
<1>5. ServerMoves(f)
  <2>1. /\ PcAt(t, k) \in {"options", "map_size", "dict", "end", "loop"}
        /\ PcAt(t, k + 1) \in {"options", "map_size", "dict", "end", "loop"}
    BY PcAtValues
  <2> QED
    BY <2>1 DEF IInv, TypeOK, ServerMoves, Undisturbed, clientVars
<1>6. Busy(f)' /\ apc' # "hello" /\ Target(f)' = t /\ ReadAt(t)' = ReadAt(t)
  BY DEF Busy, Target, clientVars, ReadAt
<1>7. Exchanging(f)'
  BY <1>1, <1>2, <1>3, <1>6 DEF Exchanging, clientVars
<1>8. ConversationWith(f)'
  BY <1>6, <1>7 DEF ConversationWith
<1>9. CalmDeath(f)'
  BY <1>3, PcAtValues DEF CalmDeath
<1> QED
  BY <1>3, <1>4, <1>5, <1>8, <1>9, ServerMovesKeeps

LEMMA SendKeeps ==
    ASSUME IInv, NEW f \in Servers,
           SendOptions(f) \/ SendMapSize(f) \/ SendDict(f) \/ SendEnd(f)
    PROVE  IInv'
<1> DEFINE t == Target(f)
<1>1. spc[f] \in {"options", "map_size", "dict", "end"}
  BY DEF SendOptions, SendMapSize, SendDict, SendEnd
<1>2. /\ phase # "fatal" /\ t \in Targets
      /\ Busy(f) /\ apc # "hello" /\ Exchanging(f) /\ ctl[f] = <<>>
  BY <1>1, Saying
<1>3. PICK k \in ReadAt(t) .. ScriptLen(t) :
         st[f] = Between(t, ReadAt(t), k) /\ spc[f] = PcAt(t, k)
  BY <1>1, Saying
<1>4. shmem[f] = t.shmem
  BY <1>1, <1>2 DEF IInv, ShmemKnown, Alive
<1>5. UNCHANGED <<setup, deaths, clientVars, shmem, ctl>>
  BY DEF SendOptions, SendMapSize, SendDict, SendEnd
<1>6. t.dict \in BOOLEAN /\ k \in Nat
  BY <1>2, <1>3 DEF Targets, ReadAt, ScriptLen
<1> HIDE DEF t
<1>7. /\ k < ScriptLen(t)
      /\ st' = [st EXCEPT ![f] = Append(@, Script(t)[k + 1])]
      /\ spc' = [spc EXCEPT ![f] = PcAt(t, k + 1)]
  <2>1. CASE SendOptions(f)
    <3>1. k = 0 /\ k + 1 = 1 /\ k < ScriptLen(t)
      BY <2>1, <1>3, <1>6 DEF SendOptions, PcAt, ScriptLen
    <3>2. PcAt(t, k + 1) = "map_size" /\ Script(t)[k + 1] = Word("options", Options(t))
      BY <3>1, ScriptWords DEF PcAt, ScriptLen
    <3> QED
      BY <2>1, <1>4, <3>1, <3>2 DEF SendOptions, Send, SetPc, Options, t
  <2>2. CASE SendMapSize(f)
    <3>1. k = 1 /\ k + 1 = 2 /\ k < ScriptLen(t)
      BY <2>2, <1>3, <1>6 DEF SendMapSize, PcAt, ScriptLen
    <3>2. PcAt(t, k + 1) = (IF t.dict THEN "dict" ELSE "end")
          /\ Script(t)[k + 1] = Word("number", t.map_size)
      BY <3>1, ScriptWords DEF PcAt, ScriptLen
    <3> QED
      BY <2>2, <3>1, <3>2 DEF SendMapSize, Send, SetPc, t
  <2>3. CASE SendDict(f)
    <3>1. k = 2 /\ k + 1 = 3 /\ t.dict /\ k < ScriptLen(t)
      BY <2>3, <1>3, <1>6 DEF SendDict, PcAt, ScriptLen
    <3>2. PcAt(t, k + 1) = "end" /\ Script(t)[k + 1] = Word("dict", 0)
      BY <3>1, ScriptWords DEF PcAt, ScriptLen
    <3> QED
      BY <2>3, <3>1, <3>2 DEF SendDict, Send, SetPc, t
  <2>4. CASE SendEnd(f)
    <3>1. k + 1 = ScriptLen(t) /\ k < ScriptLen(t)
      BY <2>4, <1>3, <1>6 DEF SendEnd, PcAt, ScriptLen
    <3>2. PcAt(t, k + 1) = "loop" /\ Script(t)[k + 1] = Word("version", t.version)
      BY <3>1, ScriptWords DEF PcAt, ScriptLen
    <3> QED
      BY <2>4, <3>1, <3>2 DEF SendEnd, Send, SetPc, t
  <2> QED
    BY <2>1, <2>2, <2>3, <2>4
<1> QED
  BY <1>2, <1>3, <1>5, <1>7, SayKeeps DEF t

LEMMA GetReplyKeeps ==
    ASSUME IInv, NEW f \in Servers, GetReply(f)
    PROVE  IInv'
<1> DEFINE t == Target(f)
<1>1. /\ Alive(f) /\ spc[f] = "reply" /\ ctl[f] # <<>>
      /\ UNCHANGED <<setup, deaths, clientVars, shmem, st>>
      /\ ctl' = [ctl EXCEPT ![f] = Tail(@)]
  BY DEF GetReply, Alive
<1>2. phase # "fatal" /\ t \in Targets
  BY <1>1, ActiveTarget
<1>3. ConversationWith(f)
  BY <1>2 DEF IInv, Conversation
<1>4. shmem'[f] = t.shmem
  BY <1>1, <1>2 DEF IInv, ShmemKnown
<1>5. Target(f)' = t /\ (Busy(f)' <=> Busy(f)) /\ apc' = apc /\ st'[f] = st[f]
  BY <1>1 DEF Target, Busy, clientVars
<1>6. ASSUME NEW w, ctl[f] = <<w>>
      PROVE  ctl'[f] = <<>> /\ Head(ctl[f]) = w /\ Len(ctl'[f]) <= 1
  BY <1>1, <1>6 DEF IInv
<1>7. CASE Busy(f)
  <2>1. apc = "options" /\ Exchanging(f) /\ st[f] = <<>>
        /\ ctl[f] = << Word("inverse", t.version) >>
    BY <1>1, <1>3, <1>7, PcAtValues DEF ConversationWith, Exchanging, Greeting
  <2>2. t.kind = "new"
    BY <2>1 DEF Exchanging
  <2>3. ctl'[f] = <<>> /\ Head(ctl[f]) = Word("inverse", t.version) /\ Len(ctl'[f]) <= 1
    BY <2>1, <1>6
  <2>4. spc' = [spc EXCEPT ![f] = "options"]
    BY <2>2, <2>3 DEF GetReply, SetPc
  <2>5. spc'[f] = "options" /\ ServerMoves(f)
    BY <2>4, <1>1 DEF IInv, TypeOK, ServerMoves, Undisturbed, clientVars
  <2>6. Exchanging(f)'
    <3>1. ReadAt(t)' = 0 /\ Between(t, 0, 0) = <<>> /\ PcAt(t, 0) = "options"
      BY <2>1, <1>5, BetweenEmpty DEF ReadAt, PcAt, ScriptLen
    <3>2. 0 \in 0 .. ScriptLen(t)
      BY DEF ScriptLen
    <3> QED
      BY <2>1, <2>3, <2>5, <3>1, <3>2, <1>1, <1>5 DEF Exchanging, clientVars
  <2>7. ConversationWith(f)' /\ CalmDeath(f)'
    BY <2>1, <2>5, <2>6, <1>5, <1>7 DEF ConversationWith, CalmDeath
  <2>8. Len(st'[f]) <= 5
    BY <1>5 DEF IInv, TypeOK
  <2> QED
    BY <2>3, <2>5, <2>7, <2>8, <1>4, ServerMovesKeeps
<1>8. CASE ~Busy(f)
  <2>1. f = "main" /\ t.kind = "unicorn" /\ st[f] = <<>>
        /\ ctl[f] = << Word("accepted", {"SHDMEM"}) >>
    BY <1>1, <1>3, <1>8 DEF ConversationWith, Settled
  <2>2. ctl'[f] = <<>> /\ Head(ctl[f]) = Word("accepted", {"SHDMEM"}) /\ Len(ctl'[f]) <= 1
    BY <2>1, <1>6
  <2>3. spc' = [spc EXCEPT ![f] = "loop"]
    BY <2>1, <2>2 DEF GetReply, SetPc
  <2>4. spc'[f] = "loop" /\ ServerMoves(f)
    BY <2>3, <1>1 DEF IInv, TypeOK, ServerMoves, Undisturbed, clientVars
  <2>5. ConversationWith(f)' /\ CalmDeath(f)'
    BY <2>1, <2>2, <2>4, <1>5, <1>8 DEF ConversationWith, CalmDeath, Settled
  <2>6. Len(st'[f]) <= 5
    BY <1>5 DEF IInv, TypeOK
  <2> QED
    BY <2>2, <2>4, <2>5, <2>6, <1>4, ServerMovesKeeps
<1> QED
  BY <1>7, <1>8

LEMMA DieKeeps ==
    ASSUME IInv, NEW f \in Servers, Die(f)
    PROVE  IInv'
<1>1. /\ Alive(f) /\ deaths > 0 /\ deaths' = deaths - 1
      /\ spc' = [spc EXCEPT ![f] = "dead"]
      /\ UNCHANGED <<setup, clientVars, shmem, ctl, st>>
  BY DEF Die, Alive, SetPc
<1>2. phase # "fatal" /\ setup \in Setups
  BY <1>1, ActiveTarget
<1>3. setup.deaths \in Nat /\ deaths \in 0 .. setup.deaths
  BY <1>2, SetupsAssumption DEF IInv, TypeOK
<1>4. ~Undisturbed'
  BY <1>1, <1>3 DEF Undisturbed
<1>5. spc'[f] = "dead" /\ ServerMoves(f)
  BY <1>1, <1>3, <1>4 DEF IInv, TypeOK, ServerMoves, Alive
<1>6. Len(st'[f]) <= 5 /\ Len(ctl'[f]) <= 1
  BY <1>1 DEF IInv, TypeOK
<1>7. ConversationWith(f)'
  <2>1. ConversationWith(f)
    BY <1>2 DEF IInv, Conversation
  <2>2. Target(f)' = Target(f) /\ (Busy(f)' <=> Busy(f)) /\ UNCHANGED <<apc, opts, st[f], ctl[f]>>
    BY <1>1 DEF Target, Busy, clientVars
  <2>3. Settled(f)' /\ (Greeting(f) => Greeting(f)')
    BY <1>5, <2>2 DEF Settled, Greeting, Alive
  <2>4. Exchanging(f) => Exchanging(f)'
    <3> SUFFICES ASSUME Exchanging(f) PROVE Exchanging(f)'
      OBVIOUS
    <3> DEFINE t == Target(f)
    <3>1. ReadAt(t)' = ReadAt(t)
      BY <2>2 DEF ReadAt
    <3>2. \E k \in ReadAt(t) .. ScriptLen(t) : st[f] = Between(t, ReadAt(t), k)
      <4>1. CASE spc[f] = "reply" /\ apc = "options"
        <5>1. ReadAt(t) = 0 /\ 0 \in 0 .. ScriptLen(t) /\ st[f] = <<>> /\ Between(t, 0, 0) = <<>>
          BY <4>1, BetweenEmpty, PcAtValues DEF Exchanging, ReadAt, ScriptLen
        <5> QED
          BY <5>1
      <4> QED
        BY <4>1 DEF Exchanging
    <3> QED
      BY <1>5, <2>2, <3>1, <3>2 DEF Exchanging
  <2> QED
    BY <2>1, <2>2, <2>3, <2>4 DEF ConversationWith
<1> QED
  BY <1>4, <1>5, <1>6, <1>7, ServerMovesKeeps

----------------------------------------------------------------------------
(***************************************************************************)
(* afl_fsrv_start.                                                         *)
(***************************************************************************)

LEMMA FatalKeeps ==
    ASSUME IInv, Fatal,
           UNCHANGED <<setup, deaths, current, map_size, shm_size, env, no_autodict, fsrv,
                       loaded, shmem>>,
           opts' \subseteq Opts,
           DOMAIN st' = Servers, DOMAIN ctl' = Servers,
           \A f \in Servers : Len(st'[f]) <= 5 /\ Len(ctl'[f]) <= 1
    PROVE  IInv'
<1>1. TypeOK'
  BY DEF IInv, TypeOK, Fatal
<1> QED
  BY <1>1 DEF IInv, Fatal

\* afl-fuzz has got on with the server it talks to.
ClientMoves ==
    /\ apc # "none" /\ phase # "fatal"
    /\ UNCHANGED <<setup, deaths, phase, current, map_size, shm_size, env, no_autodict,
                   shmem, spc>>
    /\ DOMAIN st' = Servers /\ DOMAIN ctl' = Servers
    /\ \A g \in Servers \ {current} :
          st'[g] = st[g] /\ ctl'[g] = ctl[g] /\ fsrv'[g] = fsrv[g]

LEMMA ClientMovesKeeps ==
    ASSUME IInv, ClientMoves,
           apc' \in {"none", "options", "map_size", "dict", "end"}, opts' \subseteq Opts,
           fsrv' \in [Servers -> [map_size : Nat, use_shmem_fuzz : BOOLEAN, up : BOOLEAN]],
           loaded' \in {0, 1},
           Len(st'[current]) <= 5, Len(ctl'[current]) <= 1,
           ConversationWith(current)',
           Undisturbed => spc[current] # "dead",
           SizesFit', ShmemKnown', MainUp', DictOnce'
    PROVE  IInv'
<1>0. current \in Servers
  BY DEF IInv, TypeOK
<1>1. TypeOK'
  <2>1. \A g \in Servers : Len(st'[g]) <= 5 /\ Len(ctl'[g]) <= 1
    BY DEF IInv, TypeOK, ClientMoves
  <2> QED
    BY <2>1 DEF IInv, TypeOK, ClientMoves
<1>2. Conversation'
  <2>1. ASSUME NEW g \in Servers, g # current
        PROVE  ConversationWith(g)'
    <3>1. ~Busy(g) /\ ~Busy(g)' /\ Settled(g)
      BY <2>1 DEF IInv, Conversation, ConversationWith, ClientMoves, Busy
    <3>2. UNCHANGED <<setup, spc, st[g], ctl[g]>>
      BY <2>1 DEF ClientMoves
    <3>3. Settled(g)'
      BY <3>1, <3>2 DEF Settled, Target, Alive
    <3> QED
      BY <3>1, <3>3 DEF ConversationWith
  <2> QED
    BY <2>1, <1>0 DEF Conversation, ClientMoves
<1>3. Calm'
  <2>1. Undisturbed' => \A g \in Servers : CalmDeath(g)'
    BY DEF IInv, Calm, ClientMoves, CalmDeath, Undisturbed, Busy
  <2>2. phase # "init"
    BY DEF IInv, Calm, ClientMoves
  <2>3. Alive("cmplog")' \/ Busy("cmplog")' \/ phase' \in {"cmploged", "again"} =>
          setup'.cmplog # NoTarget
    BY DEF IInv, Calm, ClientMoves, Alive, Busy
  <2> QED
    BY <2>1, <2>2, <2>3 DEF Calm, ClientMoves
<1> QED
  BY <1>1, <1>2, <1>3 DEF IInv, ClientMoves

\* While afl_fsrv_start waits for a word other than the first.
LEMMA Hearing ==
    ASSUME IInv, apc \notin {"none", "hello"}, NEW t, t = Target(current)
    PROVE  /\ phase # "fatal" /\ current \in Servers /\ t \in Targets
           /\ Busy(current) /\ Exchanging(current)
           /\ Undisturbed => spc[current] # "dead"
           /\ ReadAt(t) \in Nat /\ ReadAt(t) < ScriptLen(t) /\ ScriptLen(t) \in Nat
<1>1. phase # "fatal" /\ current \in Servers /\ Busy(current) /\ setup \in Setups
  BY DEF IInv, TypeOK, Busy
<1>2. t \in Targets
  <2>1. current = "cmplog" => setup.cmplog # NoTarget
    BY <1>1 DEF IInv, Calm
  <2> QED
    BY <1>1, <2>1, SetupsAssumption DEF Target, Servers
<1>3. Exchanging(current)
  BY <1>1 DEF IInv, Conversation, ConversationWith
<1>4. Undisturbed => spc[current] # "dead"
  BY <1>1 DEF IInv, Calm, CalmDeath
<1>5. ReadAt(t) \in Nat /\ ReadAt(t) < ScriptLen(t) /\ ScriptLen(t) \in Nat
  <2>1. apc = "dict" => t.dict
    BY <1>3 DEF Exchanging
  <2> QED
    BY <2>1 DEF ReadAt, ScriptLen
<1> QED
  BY <1>1, <1>2, <1>3, <1>4, <1>5

\* What arrives is the next word of the script, and what is left behind it is
\* the rest of what has been said.
LEMMA Heard ==
    ASSUME IInv, apc \notin {"none", "hello"}, NEW t, t = Target(current), Arrived,
           NEW c, c = ReadAt(t)
    PROVE  /\ Received = Script(t)[c + 1]
           /\ \E k \in c + 1 .. ScriptLen(t) :
                /\ Tail(st[current]) = Between(t, c + 1, k)
                /\ \/ spc[current] = PcAt(t, k) /\ ctl[current] = <<>>
                   \/ spc[current] = "dead"
<1>1. /\ c \in Nat /\ c < ScriptLen(t) /\ ScriptLen(t) \in Nat
      /\ Exchanging(current)
  BY Hearing
<1>2. PICK k \in c .. ScriptLen(t) :
         /\ st[current] = Between(t, c, k)
         /\ \/ spc[current] = PcAt(t, k) /\ ctl[current] = <<>>
            \/ spc[current] = "dead"
  BY <1>1 DEF Exchanging, Arrived
<1>3. c # k
  BY <1>1, <1>2, BetweenLen DEF Arrived
<1>4. c < k /\ k \in c + 1 .. ScriptLen(t)
  BY <1>1, <1>3
<1>5. Head(st[current]) = Script(t)[c + 1] /\ Tail(st[current]) = Between(t, c + 1, k)
  <2>1. Head(Between(t, c, k)) = Script(t)[c + 1]
        /\ Tail(Between(t, c, k)) = Between(t, c + 1, k)
    BY <1>1, <1>4, BetweenRead
  <2> QED
    BY <1>2, <2>1
<1> QED
  BY <1>2, <1>4, <1>5 DEF Received

\* A word is taken from the pipe.
LEMMA OneWord == ASSUME NEW w PROVE Head(<<w>>) = w /\ Tail(<<w>>) = <<>>
OBVIOUS

LEMMA ConsumeEffect ==
    ASSUME IInv, current \in Servers, Consume
    PROVE  /\ DOMAIN st' = Servers
           /\ st'[current] = Tail(st[current])
           /\ \A g \in Servers \ {current} : st'[g] = st[g]
BY DEF IInv, Consume

\* What has been heard leaves room in the pipe.
LEMMA RestFits ==
    ASSUME NEW t, NEW c \in Nat, NEW k \in c .. ScriptLen(t), NEW s, s = Between(t, c, k)
    PROVE  Len(s) <= 5
BY BetweenLen

LEMMA HelloTimeoutKeeps ==
    ASSUME IInv, HelloTimeout
    PROVE  IInv'
<1>1. \A f \in Servers : Len(st'[f]) <= 5 /\ Len(ctl'[f]) <= 1
  BY DEF IInv, TypeOK, HelloTimeout
<1> QED
  BY <1>1, FatalKeeps DEF HelloTimeout, IInv, TypeOK

LEMMA ReadDictKeeps ==
    ASSUME IInv, ReadDict
    PROVE  IInv'
<1> DEFINE t == Target(current)
<1>1. apc = "dict" /\ UNCHANGED <<setup, deaths, current, opts, map_size, shm_size, env,
                                  no_autodict, fsrv, shmem, ctl>>
  BY DEF ReadDict
<1>2. /\ phase # "fatal" /\ current \in Servers /\ t \in Targets
      /\ Busy(current) /\ Exchanging(current)
      /\ Undisturbed => spc[current] # "dead"
  BY <1>1, Hearing
<1>3. CASE Eof /\ Fatal /\ UNCHANGED <<st, loaded>>
  <2>1. \A f \in Servers : Len(st'[f]) <= 5 /\ Len(ctl'[f]) <= 1
    BY <1>1, <1>3 DEF IInv, TypeOK
  <2> QED
    BY <1>1, <1>3, <2>1, FatalKeeps DEF IInv, TypeOK
<1>4. CASE /\ Arrived /\ Consume
           /\ loaded' = IF no_autodict \/ current # "main" THEN loaded ELSE loaded + 1
           /\ apc' = "end"
           /\ UNCHANGED <<phase, spc>>
  <2>1. t.kind = "new" /\ t.version = FS_NEW_VERSION /\ t.dict
    BY <1>1, <1>2 DEF Exchanging
  <2>2. ReadAt(t) = 2 /\ ScriptLen(t) = 4
    BY <1>1, <2>1 DEF ReadAt, ScriptLen
  <2>3. PICK k \in 3 .. 4 :
           /\ st'[current] = Between(t, 3, k)
           /\ \/ spc[current] = PcAt(t, k) /\ ctl[current] = <<>>
              \/ spc[current] = "dead"
    <3>1. PICK k \in 2 + 1 .. ScriptLen(t) :
             /\ Tail(st[current]) = Between(t, 2 + 1, k)
             /\ \/ spc[current] = PcAt(t, k) /\ ctl[current] = <<>>
                \/ spc[current] = "dead"
      BY <1>1, <1>4, <2>2, Heard
    <3>2. st'[current] = Tail(st[current])
      BY <1>2, <1>4, ConsumeEffect
    <3> QED
      BY <2>2, <3>1, <3>2
  <2>4. Len(st'[current]) <= 5 /\ Len(ctl'[current]) <= 1
    BY <1>1, <1>2, <2>2, <2>3, RestFits DEF IInv, TypeOK
  <2>5. ConversationWith(current)'
    <3>1. Target(current)' = t /\ Busy(current)'
      BY <1>1, <1>4 DEF Target, Busy
    <3>2. ReadAt(Target(current))' = 3
      BY <1>4, <2>2, <3>1 DEF ReadAt
    <3>3. Exchanging(current)'
      BY <1>1, <1>4, <2>1, <2>2, <2>3, <3>1, <3>2 DEF Exchanging
    <3> QED
      BY <1>4, <3>1, <3>3 DEF ConversationWith
  <2>6. ClientMoves
    BY <1>1, <1>2, <1>4, ConsumeEffect DEF ClientMoves, IInv
  <2>7. SizesFit'
    BY <1>1, <1>2, <1>4 DEF IInv, SizesFit, Spacious, Undisturbed, Probes, Compiled, Alive,
       Target, Busy, Round
  <2>8. ShmemKnown'
    BY <1>1, <1>2, <1>4 DEF IInv, ShmemKnown, Undisturbed, Alive, Target, Busy
  <2>9. MainUp'
    BY <1>1, <1>2, <1>4 DEF IInv, MainUp, Busy, Probes, Compiled
  <2>10. loaded' \in {0, 1} /\ DictOnce'
    <3>1. CASE current = "main"
      <4>1. ~fsrv["main"].up /\ phase # "init"
        BY <1>1, <1>2, <3>1 DEF IInv, MainUp, Calm
      <4>2. ~no_autodict => loaded = 0 /\ ~setup.no_autodict /\ Wanted
        BY <1>1, <1>2, <2>1, <3>1, <4>1 DEF IInv, TypeOK, DictOnce, HasPassedDict, Wanted, Target
      <4> QED
        BY <1>1, <1>2, <1>4, <3>1, <4>1, <4>2 DEF IInv, TypeOK, DictOnce, HasPassedDict, Wanted,
           Busy, Undisturbed
    <3>2. CASE current # "main"
      BY <1>1, <1>2, <1>4, <3>2 DEF IInv, TypeOK, DictOnce, HasPassedDict, Wanted, Busy,
         Undisturbed
    <3> QED
      BY <3>1, <3>2
  <2> QED
    BY <1>1, <1>2, <1>4, <2>4, <2>5, <2>6, <2>7, <2>8, <2>9, <2>10, ClientMovesKeeps
       DEF IInv, TypeOK
<1> QED
  BY <1>3, <1>4 DEF ReadDict

\* afl-fuzz takes over what the server has said; main is one of two servers.
LEMMA ConnectedEffect ==
    ASSUME IInv, current \in Servers, NEW size \in Nat, NEW shm \in BOOLEAN,
           Connected(size, shm)
    PROVE  /\ apc' = "none"
           /\ fsrv' \in [Servers -> [map_size : Nat, use_shmem_fuzz : BOOLEAN, up : BOOLEAN]]
           /\ fsrv'[current] = [map_size |-> size, up |-> TRUE, use_shmem_fuzz |-> shm]
           /\ \A g \in Servers \ {current} : fsrv'[g] = fsrv[g]
BY DEF IInv, TypeOK, Connected

LEMMA ReadEndKeeps ==
    ASSUME IInv, ReadEnd
    PROVE  IInv'
<1> DEFINE t == Target(current)
           size == fsrv[current].map_size
           shm == fsrv[current].use_shmem_fuzz
<1>1. apc = "end" /\ UNCHANGED <<setup, deaths, current, opts, map_size, shm_size, env,
                                 no_autodict, loaded, shmem, ctl>>
  BY DEF ReadEnd
<1>2. /\ phase # "fatal" /\ current \in Servers /\ t \in Targets
      /\ Busy(current) /\ Exchanging(current)
      /\ Undisturbed => spc[current] # "dead"
  BY <1>1, Hearing
<1>3. CASE Fatal /\ UNCHANGED <<fsrv, st>>
  <2>1. \A f \in Servers : Len(st'[f]) <= 5 /\ Len(ctl'[f]) <= 1
    BY <1>1, <1>3 DEF IInv, TypeOK
  <2> QED
    BY <1>1, <1>3, <2>1, FatalKeeps DEF IInv, TypeOK
<1>4. CASE /\ Connected(size, shm)
           /\ UNCHANGED <<phase, spc>>
           /\ (Arrived /\ Consume) \/ (Eof /\ UNCHANGED st)
  <2>0. size \in Nat /\ shm \in BOOLEAN
    BY <1>2 DEF IInv, TypeOK
  <2>1. /\ apc' = "none"
        /\ fsrv' \in [Servers -> [map_size : Nat, use_shmem_fuzz : BOOLEAN, up : BOOLEAN]]
        /\ fsrv'[current] = [map_size |-> size, up |-> TRUE, use_shmem_fuzz |-> shm]
        /\ \A g \in Servers \ {current} : fsrv'[g] = fsrv[g]
    BY <1>2, <1>4, <2>0, ConnectedEffect
  <2>2. t.kind = "new"
    BY <1>2 DEF Exchanging
  <2>3. /\ DOMAIN st' = Servers
        /\ \A g \in Servers \ {current} : st'[g] = st[g]
        /\ Len(st'[current]) <= 5
        /\ \/ spc[current] = "dead"
           \/ spc[current] = "loop" /\ st'[current] = <<>> /\ ctl[current] = <<>>
    <3>1. CASE Eof /\ UNCHANGED st
      BY <1>2, <3>1 DEF IInv, TypeOK, Eof, Dead
    <3>2. CASE Arrived /\ Consume
      <4> DEFINE c == ReadAt(t)
      <4>1. c \in Nat /\ c + 1 = ScriptLen(t) /\ ScriptLen(t) \in 0..ScriptLen(t)
            /\ ScriptLen(t) \in Nat
        BY <1>1 DEF ReadAt, ScriptLen
      <4>2. PICK k \in c + 1 .. ScriptLen(t) :
               /\ Tail(st[current]) = Between(t, c + 1, k)
               /\ \/ spc[current] = PcAt(t, k) /\ ctl[current] = <<>>
                  \/ spc[current] = "dead"
        BY <1>1, <3>2, Heard
      <4>3. k = ScriptLen(t) /\ PcAt(t, k) = "loop"
        BY <4>1 DEF PcAt, ScriptLen
      <4>4. Between(t, ScriptLen(t), ScriptLen(t)) = <<>>
        BY <4>1, BetweenEmpty
      <4>5. st'[current] = <<>>
        BY <1>2, <3>2, <4>1, <4>2, <4>3, <4>4, ConsumeEffect
      <4> QED
        BY <1>2, <3>2, <4>2, <4>3, <4>5, ConsumeEffect
    <3> QED
      BY <1>4, <3>1, <3>2
  <2>4. ConversationWith(current)'
    <3>1. Settled(current)'
      BY <1>1, <1>4, <2>2, <2>3 DEF Settled, Target, Alive
    <3> QED
      BY <2>1, <3>1 DEF ConversationWith, Busy
  <2>5. ClientMoves
    BY <1>1, <1>2, <1>4, <2>1, <2>3 DEF ClientMoves, IInv
  <2>6. \A g \in Servers : fsrv'[g].map_size = fsrv[g].map_size
                           /\ fsrv'[g].use_shmem_fuzz = fsrv[g].use_shmem_fuzz
    BY <2>1
  <2>7. SizesFit'
    BY <1>1, <1>2, <1>4, <2>1, <2>6 DEF IInv, SizesFit, Spacious, Undisturbed, Probes, Compiled,
       Alive, Target, Busy, Round, Servers
  <2>8. ShmemKnown'
    BY <1>1, <1>2, <1>4, <2>1, <2>6 DEF IInv, ShmemKnown, Undisturbed, Alive, Target, Busy,
       Servers
  <2>9. MainUp'
    BY <1>1, <1>2, <1>4, <2>1 DEF IInv, MainUp, Busy, Probes, Compiled, Servers, Calm
  <2>10. DictOnce'
    BY <1>1, <1>2, <1>4, <2>1 DEF IInv, DictOnce, HasPassedDict, Wanted, Busy, Undisturbed,
       Servers
  <2> QED
    BY <1>1, <1>2, <2>1, <2>3, <2>4, <2>5, <2>7, <2>8, <2>9, <2>10, ClientMovesKeeps
       DEF IInv, TypeOK
<1> QED
  BY <1>3, <1>4 DEF ReadEnd

LEMMA AfterSizeEffect ==
    ASSUME IInv, current \in Servers, NEW size \in Nat, NEW options, AfterSize(size, options)
    PROVE  /\ UNCHANGED <<phase, spc>>
           /\ apc' = (IF "AUTODICT" \in options THEN "dict" ELSE "end")
           /\ fsrv' \in [Servers -> [map_size : Nat, use_shmem_fuzz : BOOLEAN, up : BOOLEAN]]
           /\ fsrv'[current].map_size = size
           /\ fsrv'[current].up = fsrv[current].up
           /\ fsrv'[current].use_shmem_fuzz =
                (fsrv[current].use_shmem_fuzz \/ "SHDMEM" \in options)
           /\ \A g \in Servers \ {current} : fsrv'[g] = fsrv[g]
<1> DEFINE b == fsrv[current].use_shmem_fuzz \/ "SHDMEM" \in options
<1>1. /\ fsrv \in [Servers -> [map_size : Nat, use_shmem_fuzz : BOOLEAN, up : BOOLEAN]]
      /\ b \in BOOLEAN
  BY DEF IInv, TypeOK
<1>2. fsrv' = [fsrv EXCEPT ![current].map_size = size, ![current].use_shmem_fuzz = b]
  BY DEF AfterSize
<1> HIDE DEF b
<1>3. /\ fsrv' \in [Servers -> [map_size : Nat, use_shmem_fuzz : BOOLEAN, up : BOOLEAN]]
      /\ fsrv'[current].map_size = size
      /\ fsrv'[current].up = fsrv[current].up
      /\ fsrv'[current].use_shmem_fuzz = b
      /\ \A g \in Servers \ {current} : fsrv'[g] = fsrv[g]
  BY <1>1, <1>2
<1> QED
  BY <1>3 DEF AfterSize, b

\* What has been told of the size and of shared memory is taken over.
LEMMA AfterSizeKeeps ==
    ASSUME IInv, apc \in {"options", "map_size"}, phase # "fatal", current \in Servers,
           NEW t, t = Target(current), t \in Targets, t.kind = "new",
           NEW size \in Nat, NEW options, AfterSize(size, options),
           opts' \subseteq Opts,
           UNCHANGED <<setup, deaths, current, map_size, shm_size, env, no_autodict, loaded,
                       shmem>>,
           DOMAIN st' = Servers, DOMAIN ctl' = Servers,
           \A g \in Servers \ {current} : st'[g] = st[g] /\ ctl'[g] = ctl[g],
           Len(st'[current]) <= 5, Len(ctl'[current]) <= 1,
           ConversationWith(current)',
           Undisturbed => spc[current] # "dead",
           \* A server that lives has said it all.
           spc[current] # "dead" => size = Round(t.map_size) /\ options = Options(t),
           Undisturbed => size > 0 /\ size <= fsrv[current].map_size,
           Spacious => size <= MAP_SIZE \/ size <= fsrv[current].map_size
    PROVE  IInv'
<1>1. /\ UNCHANGED <<phase, spc>>
      /\ apc' = (IF "AUTODICT" \in options THEN "dict" ELSE "end")
      /\ fsrv' \in [Servers -> [map_size : Nat, use_shmem_fuzz : BOOLEAN, up : BOOLEAN]]
      /\ fsrv'[current].map_size = size
      /\ fsrv'[current].up = fsrv[current].up
      /\ fsrv'[current].use_shmem_fuzz =
           (fsrv[current].use_shmem_fuzz \/ "SHDMEM" \in options)
      /\ \A g \in Servers \ {current} : fsrv'[g] = fsrv[g]
  BY AfterSizeEffect
<1>2. ClientMoves
  BY <1>1 DEF ClientMoves
<1>3. Busy(current) /\ Busy(current)' /\ apc' \in {"dict", "end"} /\ phase # "init"
  BY <1>1 DEF Busy, IInv, Calm
<1>4. SizesFit'
  <2>1. map_size \in Nat /\ MAP_SIZE \in Nat /\ \A g \in Servers : fsrv[g].map_size \in Nat
    BY HandshakeAssumption DEF IInv, TypeOK
  <2>2. shm_size' = map_size' /\ (Spacious' => MAP_SIZE <= map_size')
    BY DEF IInv, SizesFit, Spacious
  <2>3. Undisturbed' => \A g \in Servers : fsrv'[g].map_size > 0
    BY <1>1 DEF IInv, SizesFit, Undisturbed
  <2>4. Undisturbed' \/ Spacious' =>
          /\ phase' # "probed" => fsrv'["main"].map_size <= map_size'
          /\ phase' \in {"again", "late", "fuzz"} /\ setup'.cmplog # NoTarget =>
               fsrv'["cmplog"].map_size <= map_size'
    BY <1>1, <2>1 DEF IInv, SizesFit, Undisturbed, Spacious, Servers
  <2>5. Undisturbed' /\ ~Probes' =>
          /\ phase' \notin {"probed", "again"}
          /\ phase' = "cmploged" => fsrv'["cmplog"].map_size <= map_size'
    BY <1>1, <2>1 DEF IInv, SizesFit, Undisturbed, Probes, Compiled, Servers
  <2>6. (phase' # "init" \/ ~Probes') /\ setup'.main.kind # "new" =>
          MAP_SIZE <= fsrv'["main"].map_size
    BY <1>1, <1>3, <2>1 DEF IInv, SizesFit, Target, Servers
  <2>7. ASSUME NEW g \in Servers, Alive(g)', Target(g)'.kind = "new",
               ~(Busy(g)' /\ apc' \in {"hello", "options", "map_size"})
        PROVE  fsrv'[g].map_size = Round(Target(g).map_size)'
    <3>1. CASE g = current
      BY <1>1, <2>7, <3>1 DEF Alive, Target, Round
    <3>2. CASE g # current
      BY <1>1, <2>7, <3>2 DEF IInv, SizesFit, Alive, Target, Busy, Round
    <3> QED
      BY <3>1, <3>2
  <2> QED
    BY <1>3, <1>1, <2>2, <2>3, <2>4, <2>5, <2>6, <2>7 DEF SizesFit
<1>5. ShmemKnown'
  <2>1. ("SHDMEM" \in Options(t) <=> t.shmem) /\ ("AUTODICT" \in Options(t) <=> t.dict)
    BY DEF Targets, Options
  <2>2. \A g \in Servers : Alive(g)' /\ spc'[g] # "start" => shmem'[g] = Target(g)'.shmem
    BY <1>1 DEF IInv, ShmemKnown, Alive, Target
  <2>3. CASE ~Undisturbed
    BY <2>2, <2>3 DEF ShmemKnown, Undisturbed
  <2>4. CASE Undisturbed /\ current = "main"
    <3>1. options = Options(t) /\ t = setup.main
      BY <2>4 DEF Target
    <3>2. fsrv["main"].use_shmem_fuzz => setup.main.shmem
      BY <2>4 DEF IInv, ShmemKnown
    <3>3. fsrv'["main"].use_shmem_fuzz = setup.main.shmem
      BY <1>1, <2>1, <2>4, <3>1, <3>2 DEF Targets
    <3> QED
      BY <2>2, <3>3 DEF ShmemKnown
  <2>5. CASE Undisturbed /\ current # "main"
    BY <1>1, <2>2, <2>5 DEF IInv, ShmemKnown, Undisturbed, Busy, Servers
  <2> QED
    BY <2>3, <2>4, <2>5
<1>6. MainUp'
  BY <1>1, <1>3 DEF IInv, MainUp, Busy, Probes, Compiled, Servers
<1>7. DictOnce'
  <2>1. CASE current = "main"
    <3>1. Undisturbed => ~(Wanted /\ apc' = "end")
      BY <1>1, <2>1 DEF Wanted, Target, Options
    <3> QED
      BY <1>1, <1>3, <2>1, <3>1 DEF IInv, TypeOK, DictOnce, HasPassedDict, Wanted, Busy,
         Undisturbed
  <2>2. CASE current # "main"
    BY <1>1, <1>3, <2>2 DEF IInv, DictOnce, HasPassedDict, Wanted, Busy, Undisturbed, Servers
  <2> QED
    BY <2>1, <2>2
<1> QED
  BY <1>1, <1>2, <1>3, <1>4, <1>5, <1>6, <1>7, ClientMovesKeeps DEF IInv, TypeOK

\* Rounding a size up makes it no smaller.
LEMMA RoundUp ==
    ASSUME NEW n \in Nat
    PROVE  Round(n) \in Nat /\ n <= Round(n)
<1> DEFINE m == n + Align - 1
           q == m \div Align
<1>1. Align \in Nat \ {0}
  BY HandshakeAssumption
<1>2. m \in Nat
  BY <1>1
<1> HIDE DEF m
<1>3. q \in Nat /\ m - Align < q * Align
  BY <1>1, <1>2
<1> QED
  BY <1>1, <1>3 DEF Round, m

LEMMA ReadOptionsKeeps ==
    ASSUME IInv, ReadOptions
    PROVE  IInv'
<1> DEFINE t == Target(current)
<1>1. apc = "options" /\ (Arrived \/ Eof) /\ opts' = Status
      /\ UNCHANGED <<setup, deaths, current, map_size, shm_size, env, no_autodict, loaded,
                     shmem, ctl>>
  BY DEF ReadOptions
<1>2. /\ phase # "fatal" /\ current \in Servers /\ t \in Targets
      /\ Busy(current) /\ Exchanging(current)
      /\ Undisturbed => spc[current] # "dead"
  BY <1>1, Hearing
<1>3. t.kind = "new" /\ t.version = FS_NEW_VERSION /\ ReadAt(t) = 0 /\ ScriptLen(t) \in {3, 4}
  BY <1>1, <1>2 DEF Exchanging, ReadAt, ScriptLen
<1>4. Target(current)' = t
  BY <1>1 DEF Target
<1>5. CASE Arrived
  <2>0. Received = Script(t)[0 + 1]
    BY <1>1, <1>3, <1>5, Heard
  <2>1. Received = Word("options", Options(t))
    BY <2>0, ScriptWords
  <2>2. PICK k \in 0 + 1 .. ScriptLen(t) :
           /\ Tail(st[current]) = Between(t, 0 + 1, k)
           /\ \/ spc[current] = PcAt(t, k) /\ ctl[current] = <<>>
              \/ spc[current] = "dead"
    BY <1>1, <1>3, <1>5, Heard
  <2>3. Status = Options(t) /\ "MAPSIZE" \in Options(t) /\ Options(t) \subseteq Opts
    BY <1>5, <2>1 DEF Status, Word, Options, Opts
  <2>4. apc' = "map_size" /\ UNCHANGED <<phase, spc, fsrv>> /\ Consume
    BY <1>5, <2>3 DEF ReadOptions
  <2>5. /\ DOMAIN st' = Servers /\ st'[current] = Between(t, 1, k)
        /\ \A g \in Servers \ {current} : st'[g] = st[g]
    <3>1. /\ DOMAIN st' = Servers /\ st'[current] = Tail(st[current])
          /\ \A g \in Servers \ {current} : st'[g] = st[g]
      BY <1>2, <2>4, ConsumeEffect
    <3> QED
      BY <2>2, <3>1
  <2>6. Len(st'[current]) <= 5 /\ Len(ctl'[current]) <= 1
    <3>1. k \in 1 .. ScriptLen(t)
      BY <2>2
    <3>2. Len(st'[current]) <= 5
      BY <2>5, <3>1, RestFits
    <3> QED
      BY <1>1, <1>2, <3>2 DEF IInv, TypeOK
  <2>7. ConversationWith(current)'
    <3>1. Busy(current)' /\ ReadAt(Target(current))' = 1
      BY <1>1, <2>4 DEF Busy, ReadAt
    <3>2. Exchanging(current)'
      BY <1>1, <1>3, <1>4, <2>2, <2>3, <2>4, <2>5, <3>1 DEF Exchanging
    <3> QED
      BY <2>4, <3>1, <3>2 DEF ConversationWith
  <2>8. ClientMoves
    BY <1>1, <1>2, <2>4, <2>5 DEF ClientMoves, IInv
  <2>9. SizesFit'
    BY <1>1, <1>2, <2>4 DEF IInv, SizesFit, Spacious, Undisturbed, Probes, Compiled, Alive,
       Target, Busy, Round
  <2>10. ShmemKnown'
    BY <1>1, <1>2, <2>4 DEF IInv, ShmemKnown, Undisturbed, Alive, Target, Busy
  <2>11. MainUp' /\ DictOnce'
    BY <1>1, <1>2, <2>4 DEF IInv, MainUp, DictOnce, HasPassedDict, Wanted, Undisturbed, Busy,
       Probes, Compiled
  <2> QED
    BY <1>1, <1>2, <2>3, <2>4, <2>6, <2>7, <2>8, <2>9, <2>10, <2>11, ClientMovesKeeps
       DEF IInv, TypeOK
<1>6. CASE ~Arrived
  <2>1. spc[current] = "dead" /\ st[current] = <<>> /\ ~Undisturbed
    BY <1>1, <1>2, <1>6 DEF Eof, Dead, Arrived
  <2>2. Status = {"SHDMEM"} /\ Status \subseteq Opts /\ "MAPSIZE" \notin Status
        /\ "AUTODICT" \notin Status
    BY <1>6 DEF Status, Opts
  <2>3. AfterSize(MAP_SIZE, Status) /\ UNCHANGED st
    BY <1>6, <2>2 DEF ReadOptions
  <2>4. MAP_SIZE \in Nat
    BY HandshakeAssumption
  <2>5. UNCHANGED <<phase, spc>> /\ apc' = "end"
    BY <1>2, <2>2, <2>3, <2>4, AfterSizeEffect
  <2>6. ConversationWith(current)'
    <3> DEFINE c == ScriptLen(t) - 1
    <3>1. Busy(current)' /\ ReadAt(Target(current))' = c /\ c \in 0 .. ScriptLen(t)
          /\ c \in c .. ScriptLen(t)
      BY <1>3, <1>4, <2>5, <1>1 DEF Busy, ReadAt
    <3>2. Between(t, c, c) = <<>>
      BY <3>1, BetweenEmpty
    <3>3. \E k \in c .. ScriptLen(t) : st'[current] = Between(t, c, k)
      BY <2>1, <2>3, <3>1, <3>2, <1>1
    <3>4. spc'[current] = "dead" /\ apc' = "end"
      BY <1>1, <2>1, <2>5
    <3> HIDE DEF c
    <3>5. Exchanging(current)'
      BY <1>1, <1>3, <1>4, <3>1, <3>3, <3>4 DEF Exchanging
    <3> QED
      BY <3>1, <3>4, <3>5 DEF ConversationWith
  <2>7. /\ \A g \in Servers : Len(st'[g]) <= 5 /\ Len(ctl'[g]) <= 1
        /\ DOMAIN st' = Servers /\ DOMAIN ctl' = Servers
        /\ \A g \in Servers \ {current} : st'[g] = st[g] /\ ctl'[g] = ctl[g]
    BY <1>1, <2>3 DEF IInv, TypeOK
  <2>8. MAP_SIZE <= MAP_SIZE
    BY <2>4
  <2> QED
    BY <1>1, <1>2, <1>3, <2>1, <2>2, <2>3, <2>4, <2>6, <2>7, <2>8, AfterSizeKeeps
<1> QED
  BY <1>5, <1>6

LEMMA ReadMapSizeKeeps ==
    ASSUME IInv, NEW size \in Sizes \cup {Target(current).map_size}, ReadMapSize(size)
    PROVE  IInv'
<1> DEFINE t == Target(current)
<1>1. apc = "map_size" /\ ((Arrived /\ size = Received.value) \/ (Eof /\ size \in Sizes))
      /\ UNCHANGED <<setup, deaths, current, opts, map_size, shm_size, env, no_autodict,
                     loaded, shmem, ctl>>
  BY DEF ReadMapSize
<1>2. /\ phase # "fatal" /\ current \in Servers /\ t \in Targets
      /\ Busy(current) /\ Exchanging(current)
      /\ Undisturbed => spc[current] # "dead"
  BY <1>1, Hearing
<1>3. t.kind = "new" /\ t.version = FS_NEW_VERSION /\ ReadAt(t) = 1 /\ ScriptLen(t) \in {3, 4}
      /\ opts = Options(t)
  BY <1>1, <1>2 DEF Exchanging, ReadAt, ScriptLen
<1>4. Target(current)' = t
  BY <1>1 DEF Target
<1>5. size \in Nat /\ Round(size) \in Nat /\ size <= Round(size)
  <2>1. size \in Nat
    BY <1>2, HandshakeAssumption DEF Targets
  <2> QED
    BY <2>1, RoundUp
\* What is in the pipe afterwards.
<1>6. /\ DOMAIN st' = Servers
      /\ \A g \in Servers \ {current} : st'[g] = st[g]
      /\ Arrived => size = t.map_size
      /\ ~Arrived => spc[current] = "dead"
      /\ \E k \in 2 .. ScriptLen(t) :
           /\ st'[current] = Between(t, 2, k)
           /\ \/ spc[current] = PcAt(t, k) /\ ctl[current] = <<>>
              \/ spc[current] = "dead"
  <2>1. CASE Arrived
    <3>0. Received = Script(t)[1 + 1]
      BY <1>1, <1>3, <2>1, Heard
    <3>1. Received = Word("number", t.map_size)
      BY <3>0, ScriptWords
    <3>2. PICK k \in 1 + 1 .. ScriptLen(t) :
             /\ Tail(st[current]) = Between(t, 1 + 1, k)
             /\ \/ spc[current] = PcAt(t, k) /\ ctl[current] = <<>>
                \/ spc[current] = "dead"
      BY <1>1, <1>3, <2>1, Heard
    <3>3. Consume /\ size = t.map_size
      BY <1>1, <2>1, <3>1 DEF ReadMapSize, Eof, Word
    <3>4. /\ DOMAIN st' = Servers /\ st'[current] = Between(t, 2, k)
          /\ \A g \in Servers \ {current} : st'[g] = st[g]
      <4>1. /\ DOMAIN st' = Servers /\ st'[current] = Tail(st[current])
            /\ \A g \in Servers \ {current} : st'[g] = st[g]
        BY <1>2, <3>3, ConsumeEffect
      <4> QED
        BY <3>2, <4>1
    <3> QED
      BY <2>1, <3>2, <3>3, <3>4
  <2>2. CASE ~Arrived
    <3>1. st' = st /\ spc[current] = "dead" /\ st[current] = <<>>
      BY <1>1, <2>2 DEF ReadMapSize, Eof, Dead, Arrived
    <3>2. 2 \in 2 .. ScriptLen(t) /\ Between(t, 2, 2) = <<>>
      BY <1>3, BetweenEmpty
    <3> QED
      BY <2>2, <3>1, <3>2 DEF IInv
  <2> QED
    BY <2>1, <2>2
<1>7. Len(st'[current]) <= 5 /\ Len(ctl'[current]) <= 1
  <2>1. Len(st'[current]) <= 5
    BY <1>6, RestFits
  <2> QED
    BY <1>1, <1>2, <2>1 DEF IInv, TypeOK
<1>8. CASE Round(size) > Limit
  <2>1. \A f \in Servers : Len(st'[f]) <= 5 /\ Len(ctl'[f]) <= 1
    BY <1>1, <1>6, <1>7 DEF IInv, TypeOK
  <2>2. Fatal /\ UNCHANGED fsrv
    BY <1>8 DEF ReadMapSize
  <2> QED
    BY <1>1, <1>6, <2>1, <2>2, FatalKeeps DEF IInv, TypeOK
<1>9. CASE ~(Round(size) > Limit)
  <2>1. AfterSize(Round(size), opts)
    BY <1>9 DEF ReadMapSize
  <2>2. UNCHANGED <<phase, spc>> /\ apc' = (IF "AUTODICT" \in opts THEN "dict" ELSE "end")
    BY <1>2, <1>5, <2>1, AfterSizeEffect
  <2>3. apc' = (IF t.dict THEN "dict" ELSE "end")
    BY <1>2, <1>3, <2>2 DEF Options, Targets
  <2>4. ConversationWith(current)'
    <3>1. Busy(current)' /\ ReadAt(Target(current))' = 2
      BY <1>1, <1>4, <2>3 DEF Busy, ReadAt, ScriptLen
    <3>2. Exchanging(current)'
      BY <1>1, <1>3, <1>4, <1>6, <2>2, <2>3, <3>1 DEF Exchanging
    <3> QED
      BY <2>3, <3>1, <3>2 DEF ConversationWith
  <2>5. fsrv[current].map_size \in Nat /\ MAP_SIZE \in Nat
    BY <1>2, HandshakeAssumption DEF IInv, TypeOK
  <2>6. Undisturbed => Round(size) > 0 /\ Round(size) <= fsrv[current].map_size
    <3>1. Undisturbed => fsrv[current].map_size > 0 /\ size > 0
      BY <1>2, <1>6 DEF IInv, SizesFit, Targets
    <3> QED
      BY <1>5, <1>9, <2>5, <3>1 DEF Limit
  <2>7. Round(size) <= MAP_SIZE \/ Round(size) <= fsrv[current].map_size
    BY <1>5, <1>9, <2>5 DEF Limit
  <2>8. spc[current] # "dead" => Round(size) = Round(t.map_size) /\ opts = Options(t)
    BY <1>3, <1>6
  <2>9. opts' \subseteq Opts /\ DOMAIN ctl' = Servers
        /\ \A g \in Servers \ {current} : st'[g] = st[g] /\ ctl'[g] = ctl[g]
    BY <1>1, <1>6 DEF IInv, TypeOK
  <2> QED
    BY <1>1, <1>2, <1>3, <1>5, <1>6, <1>7, <2>1, <2>4, <2>6, <2>7, <2>8, <2>9, AfterSizeKeeps
<1> QED
  BY <1>8, <1>9

LEMMA ReadHelloKeeps ==
    ASSUME IInv, ReadHello
    PROVE  IInv'
<1> DEFINE t == Target(current)
           opt == IF t.kind = "unicorn" /\ t.shmem THEN {"SHDMEM"} ELSE {}
<1>1. /\ apc = "hello" /\ Arrived
      /\ UNCHANGED <<setup, deaths, current, opts, map_size, shm_size, env, no_autodict,
                     loaded, shmem>>
  BY DEF ReadHello
<1>2. phase # "fatal" /\ current \in Servers /\ Busy(current) /\ setup \in Setups
  BY <1>1 DEF IInv, TypeOK, Busy
<1>3. t \in Targets /\ (current = "cmplog" => setup.cmplog # NoTarget) /\ phase # "init"
  <2>1. (current = "cmplog" => setup.cmplog # NoTarget) /\ phase # "init"
    BY <1>1, <1>2 DEF IInv, Calm
  <2> QED
    BY <1>2, <2>1, SetupsAssumption DEF Target, Servers
<1>4. Greeting(current)
  BY <1>1, <1>2 DEF IInv, Conversation, ConversationWith
<1>5. /\ ctl[current] = <<>>
      /\ \/ /\ spc[current] \in {AfterHello(t), "dead"}
            /\ Received = HelloWord(t) /\ Tail(st[current]) = <<>>
         \/ spc[current] = "dead" /\ Received = Word("error", 0)
  <2>1. CASE st[current] = << HelloWord(t) >> /\ spc[current] \in {AfterHello(t), "dead"}
    BY <1>4, <2>1, OneWord DEF Greeting, Received
  <2>2. CASE st[current] = << Word("error", 0) >> /\ spc[current] = "dead"
    BY <1>4, <2>2, OneWord DEF Greeting, Received
  <2> QED
    BY <1>1, <1>4, <2>1, <2>2 DEF Greeting, Arrived
<1>6. Target(current)' = t
  BY <1>1 DEF Target
<1>7. CASE Fatal /\ UNCHANGED <<ctl, st, fsrv>>
  <2>1. \A f \in Servers : Len(st'[f]) <= 5 /\ Len(ctl'[f]) <= 1
    BY <1>7 DEF IInv, TypeOK
  <2> QED
    BY <1>1, <1>7, <2>1, FatalKeeps DEF IInv, TypeOK
<1>8. CASE /\ Received.type = "version" /\ Received.value = FS_NEW_VERSION /\ ~Dead(current)
           /\ ctl' = Answer(Word("inverse", Received.value))
           /\ apc' = "options" /\ Consume
           /\ UNCHANGED <<phase, spc, fsrv>>
  <2>1. t.kind = "new" /\ t.version = FS_NEW_VERSION /\ spc[current] = "reply"
        /\ Tail(st[current]) = <<>> /\ Received.value = t.version
    BY <1>5, <1>8 DEF Word, HelloWord, AfterHello, Dead
  <2>2. /\ DOMAIN st' = Servers /\ st'[current] = <<>>
        /\ \A g \in Servers \ {current} : st'[g] = st[g]
    BY <1>2, <1>8, <2>1, ConsumeEffect
  <2>3. /\ DOMAIN ctl' = Servers /\ ctl'[current] = << Word("inverse", t.version) >>
        /\ \A g \in Servers \ {current} : ctl'[g] = ctl[g]
    BY <1>2, <1>5, <1>8, <2>1, FirstWord DEF IInv, Answer
  <2>4. Len(st'[current]) <= 5 /\ Len(ctl'[current]) <= 1
    <3>1. Len(st'[current]) = 0
      BY <2>2
    <3>2. Len(ctl'[current]) = 1
      BY <2>3, FirstWord
    <3> QED
      BY <3>1, <3>2
  <2>5. ConversationWith(current)'
    <3>1. Busy(current)' /\ Exchanging(current)'
      BY <1>1, <1>6, <1>8, <2>1, <2>2, <2>3 DEF Busy, Exchanging
    <3> QED
      BY <1>8, <3>1 DEF ConversationWith
  <2>6. ClientMoves
    BY <1>1, <1>2, <1>8, <2>2, <2>3 DEF ClientMoves, IInv
  <2>7. SizesFit'
    BY <1>1, <1>2, <1>8 DEF IInv, SizesFit, Spacious, Undisturbed, Probes, Compiled, Alive,
       Target, Busy, Round
  <2>8. ShmemKnown'
    BY <1>1, <1>2, <1>8 DEF IInv, ShmemKnown, Undisturbed, Alive, Target, Busy
  <2>9. MainUp' /\ DictOnce'
    BY <1>1, <1>2, <1>8 DEF IInv, MainUp, DictOnce, HasPassedDict, Wanted, Undisturbed, Busy,
       Probes, Compiled
  <2> QED
    BY <1>1, <1>2, <1>8, <2>1, <2>4, <2>5, <2>6, <2>7, <2>8, <2>9, ClientMovesKeeps
       DEF IInv, TypeOK
<1>9. CASE /\ Received.type = "vanilla" /\ current # "cmplog"
           /\ Received.value = {} \/ ~Dead(current)
           /\ OldModel(Received.value) /\ Consume
  <2> DEFINE size == fsrv[current].map_size
             shm == fsrv[current].use_shmem_fuzz \/ Received.value # {}
  <2>1. /\ current = "main" /\ t.kind # "new" /\ Received.value = opt
        /\ spc[current] \in {AfterHello(t), "dead"} /\ Tail(st[current]) = <<>>
    <3>1. Received # Word("error", 0)
      BY <1>9 DEF Word
    <3>2. Received = HelloWord(t)
      BY <1>5, <3>1
    <3>3. HelloWord(t).type = "vanilla"
      BY <1>9, <3>2
    <3>4. t.kind # "new"
      BY <3>3 DEF HelloWord, Word
    <3>5. HelloWord(t).value = opt
      BY <3>4 DEF HelloWord, Word
    <3> QED
      BY <1>2, <1>5, <1>9, <3>1, <3>2, <3>4, <3>5 DEF Servers
  <2>2. t = setup.main /\ (opt # {} <=> t.shmem) /\ t.shmem \in BOOLEAN /\ opt \in {{}, {"SHDMEM"}}
    BY <1>2, <1>3, <2>1, SetupsAssumption DEF Target, Targets, Kinds
  <2>3. size \in Nat /\ shm \in BOOLEAN /\ Connected(size, shm) /\ UNCHANGED <<phase, spc>>
    BY <1>2, <1>9 DEF IInv, TypeOK, OldModel
  <2>4. /\ apc' = "none"
        /\ fsrv' \in [Servers -> [map_size : Nat, use_shmem_fuzz : BOOLEAN, up : BOOLEAN]]
        /\ fsrv'[current] = [map_size |-> size, up |-> TRUE, use_shmem_fuzz |-> shm]
        /\ \A g \in Servers \ {current} : fsrv'[g] = fsrv[g]
    BY <1>2, <2>3, ConnectedEffect
  <2>5. /\ DOMAIN st' = Servers /\ st'[current] = <<>>
        /\ \A g \in Servers \ {current} : st'[g] = st[g]
    BY <1>2, <1>9, <2>1, ConsumeEffect
  <2>6. /\ DOMAIN ctl' = Servers
        /\ ctl'[current] = IF opt = {} THEN <<>> ELSE << Word("accepted", {"SHDMEM"}) >>
        /\ \A g \in Servers \ {current} : ctl'[g] = ctl[g]
    <3>1. CASE opt = {}
      BY <1>5, <1>9, <2>1, <3>1 DEF IInv, OldModel
    <3>2. CASE opt = {"SHDMEM"}
      <4>1. ctl' = [ctl EXCEPT ![current] = Append(@, Word("accepted", {"SHDMEM"}))]
        BY <1>9, <2>1, <3>2 DEF OldModel, Answer
      <4> QED
        BY <1>2, <1>5, <3>2, <4>1, FirstWord DEF IInv
    <3> QED
      BY <2>2, <3>1, <3>2
  <2>7. Len(st'[current]) <= 5 /\ Len(ctl'[current]) <= 1
    <3>1. Len(st'[current]) = 0
      BY <2>5
    <3>2. CASE opt = {}
      <4>1. Len(ctl'[current]) = 0
        BY <2>6, <3>2
      <4> QED
        BY <3>1, <4>1
    <3>3. CASE opt # {}
      <4>1. Len(ctl'[current]) = 1
        BY <2>6, <3>3, FirstWord
      <4> QED
        BY <3>1, <4>1
    <3> QED
      BY <3>2, <3>3
  <2>8. ConversationWith(current)'
    <3>1. ~Busy(current)'
      BY <2>4 DEF Busy
    <3>2. Settled(current)'
      BY <1>1, <1>3, <1>6, <2>1, <2>2, <2>3, <2>5, <2>6 DEF Settled, Alive, AfterHello, Targets,
         Kinds
    <3> QED
      BY <3>1, <3>2 DEF ConversationWith
  <2>9. Undisturbed => spc[current] # "dead"
    <3>1. Received.type = "vanilla"
      BY <1>9
    <3>2. st[current] # << Word("error", 0) >>
      BY <3>1, OneWord DEF Received, Word
    <3> QED
      BY <1>2, <3>2 DEF IInv, Calm, CalmDeath
  <2>10. ClientMoves
    BY <1>1, <1>2, <2>3, <2>4, <2>5, <2>6 DEF ClientMoves
  <2>11. SizesFit'
    <3>1. \A g \in Servers : fsrv'[g].map_size = fsrv[g].map_size
      BY <2>4
    <3> QED
      BY <1>1, <1>2, <2>1, <2>2, <2>3, <2>4, <3>1 DEF IInv, SizesFit, Spacious, Undisturbed, Probes,
         Compiled, Alive, Target, Busy, Round, Servers
  <2>12. ShmemKnown'
    <3>1. fsrv'["main"].use_shmem_fuzz = shm
      BY <2>1, <2>4
    <3>2. Undisturbed => shm = setup.main.shmem
      BY <1>2, <2>1, <2>2, <2>3 DEF IInv, ShmemKnown
    <3>3. \A g \in Servers : Alive(g)' /\ spc'[g] # "start" => shmem'[g] = Target(g)'.shmem
      BY <1>1, <1>2, <2>3 DEF IInv, ShmemKnown, Alive, Target
    <3> QED
      BY <1>1, <3>1, <3>2, <3>3 DEF ShmemKnown, Undisturbed
  <2>13. MainUp'
    BY <1>1, <1>3, <2>1, <2>3, <2>4 DEF MainUp, Busy
  <2>14. DictOnce'
    BY <1>1, <1>2, <1>3, <2>1, <2>2, <2>3 DEF IInv, DictOnce, Wanted, TypeOK
  <2> QED
    BY <1>1, <1>2, <2>4, <2>7, <2>8, <2>9, <2>10, <2>11, <2>12, <2>13, <2>14, ClientMovesKeeps
       DEF IInv, TypeOK
<1> QED
  BY <1>7, <1>8, <1>9 DEF ReadHello

----------------------------------------------------------------------------
(***************************************************************************)
(* main.                                                                   *)
(***************************************************************************)

ServerPcs == {"off", "start", "reply", "options", "map_size", "dict", "end", "loop", "dead"}
MainPhases == {"init", "probed", "cmplog", "cmploged", "again", "late", "fuzz"}

\* Between two starts nobody is being talked to.
LEMMA Idle ==
    ASSUME IInv, phase # "fatal", apc = "none"
    PROVE  /\ setup \in Setups /\ setup.main \in Targets
           /\ \A f \in Servers : ~Busy(f) /\ Settled(f)
           /\ Undisturbed => \A f \in Servers : spc[f] # "dead"
           /\ map_size \in Nat /\ MAP_SIZE \in Nat /\ DEFAULT_SHMEM_SIZE \in Nat
           /\ MAP_SIZE <= DEFAULT_SHMEM_SIZE /\ MAP_SIZE > 0
           /\ \A f \in Servers : fsrv[f].map_size \in Nat
<1>1. \A f \in Servers : ~Busy(f) /\ Settled(f)
  BY DEF IInv, Conversation, ConversationWith, Busy
<1>2. Undisturbed => \A f \in Servers : spc[f] # "dead"
  BY <1>1 DEF IInv, Calm, CalmDeath
<1>3. setup \in Setups /\ setup.main \in Targets
  BY SetupsAssumption DEF IInv, TypeOK
<1>4. \A f \in Servers : fsrv[f].map_size \in Nat
  BY DEF IInv, TypeOK
<1> QED
  BY <1>1, <1>2, <1>3, <1>4, HandshakeAssumption DEF IInv, TypeOK

\* A server is started, and others may have been killed before.
LEMMA StartKeeps ==
    ASSUME IInv, phase \in MainPhases, apc = "none", phase' \in MainPhases \ {"init"},
           NEW f \in Servers, NEW servers \in [Servers -> ServerPcs], Start(f, servers),
           \A g \in Servers : servers[g] \in {spc[g], "off"},
           f = "cmplog" \/ phase' \in {"cmploged", "again"} => setup.cmplog # NoTarget,
           map_size' \in Nat, shm_size' \in Nat, env' \in Nat \cup {Unset},
           no_autodict' \in BOOLEAN,
           fsrv' \in [Servers -> [map_size : Nat, use_shmem_fuzz : BOOLEAN, up : BOOLEAN]],
           fsrv'["main"].use_shmem_fuzz = fsrv["main"].use_shmem_fuzz,
           fsrv'["main"].up => fsrv["main"].up,
           SizesFit', MainUp', DictOnce'
    PROVE  IInv'
<1>1. /\ current' = f /\ apc' = "hello" /\ opts' = {}
      /\ spc' = [servers EXCEPT ![f] = "start"]
      /\ ctl' = [ctl EXCEPT ![f] = <<>>] /\ st' = [st EXCEPT ![f] = <<>>]
      /\ UNCHANGED <<setup, deaths, loaded, shmem>>
  BY DEF Start
<1>2. phase # "fatal" /\ phase' # "fatal" /\ phase' # "init"
  BY DEF MainPhases
<1>3. /\ \A g \in Servers : ~Busy(g) /\ Settled(g)
      /\ Undisturbed => \A g \in Servers : spc[g] # "dead"
  BY <1>2, Idle
<1>4. /\ DOMAIN st' = Servers /\ DOMAIN ctl' = Servers
      /\ st'[f] = <<>> /\ ctl'[f] = <<>> /\ spc'[f] = "start"
      /\ \A g \in Servers \ {f} : st'[g] = st[g] /\ ctl'[g] = ctl[g] /\ spc'[g] \in {spc[g], "off"}
  BY <1>1 DEF IInv
<1>5. Len(st'[f]) <= 5 /\ Len(ctl'[f]) <= 1
  <2>1. Len(st'[f]) = 0 /\ Len(ctl'[f]) = 0
    BY <1>4
  <2> QED
    BY <2>1
<1>6. TypeOK'
  <2>1. \A g \in Servers : Len(st'[g]) <= 5 /\ Len(ctl'[g]) <= 1
    BY <1>4, <1>5 DEF IInv, TypeOK
  <2>2. spc' \in [Servers -> {"off", "start", "reply", "options", "map_size", "dict", "end",
                              "loop", "dead"}]
    BY <1>1, <1>4 DEF IInv, TypeOK
  <2> QED
    BY <1>1, <2>1, <2>2 DEF IInv, TypeOK, MainPhases
<1>7. Conversation'
  <2>1. ConversationWith(f)'
    BY <1>1, <1>4 DEF ConversationWith, Busy, Greeting
  <2>2. ASSUME NEW g \in Servers, g # f
        PROVE  ConversationWith(g)'
    <3>1. Settled(g)'
      BY <1>1, <1>3, <1>4, <2>2 DEF Settled, Alive, Target
    <3> QED
      BY <1>1, <2>2, <3>1 DEF ConversationWith, Busy
  <2> QED
    BY <2>1, <2>2 DEF Conversation
<1>8. Calm'
  <2>1. Undisturbed' => \A g \in Servers : CalmDeath(g)'
    <3>0. Undisturbed' <=> Undisturbed
      BY <1>1 DEF Undisturbed
    <3>1. ASSUME NEW g \in Servers, Undisturbed'
          PROVE  spc'[g] # "dead"
      <4>1. CASE g = f
        BY <1>4, <4>1
      <4>2. CASE g # f
        BY <1>3, <1>4, <3>0, <3>1, <4>2
      <4> QED
        BY <4>1, <4>2
    <3> QED
      BY <3>1 DEF CalmDeath
  <2>2. Alive("cmplog")' \/ Busy("cmplog")' \/ phase' \in {"cmploged", "again"} =>
          setup'.cmplog # NoTarget
    BY <1>1, <1>2, <1>4 DEF IInv, Calm, Alive, Busy, Servers
  <2> QED
    BY <1>2, <2>1, <2>2 DEF Calm
<1>9. ShmemKnown'
  <2>1. \A g \in Servers : Alive(g)' /\ spc'[g] # "start" => shmem'[g] = Target(g)'.shmem
    BY <1>1, <1>2, <1>4 DEF IInv, ShmemKnown, Alive, Target
  <2> QED
    BY <1>1, <1>2, <2>1 DEF IInv, ShmemKnown, Undisturbed
<1> QED
  BY <1>2, <1>4, <1>6, <1>7, <1>8, <1>9 DEF IInv

\* Nothing is started.
LEMMA PhaseKeeps ==
    ASSUME IInv, phase \in MainPhases, apc = "none", phase' \in MainPhases \ {"init"},
           phase' \in {"cmploged", "again"} => setup.cmplog # NoTarget,
           UNCHANGED <<setup, deaths, current, apc, opts, map_size, shm_size, env, no_autodict,
                       fsrv, loaded, spc, shmem, ctl, st>>,
           SizesFit', MainUp', DictOnce'
    PROVE  IInv'
<1>1. phase # "fatal" /\ phase' # "fatal" /\ phase' # "init"
  BY DEF MainPhases
<1>2. TypeOK' /\ DOMAIN st' = Servers /\ DOMAIN ctl' = Servers
  BY DEF IInv, TypeOK, MainPhases
<1>3. Conversation'
  <2>1. \A g \in Servers : ~Busy(g) /\ Settled(g)
    BY <1>1, Idle
  <2>2. \A g \in Servers : ~Busy(g)' /\ Settled(g)'
    BY <2>1 DEF Busy, Settled, Alive, Target
  <2> QED
    BY <2>2 DEF Conversation, ConversationWith
<1>4. Calm'
  BY <1>1 DEF IInv, Calm, CalmDeath, Undisturbed, Alive, Busy
<1>5. ShmemKnown'
  BY <1>1 DEF IInv, ShmemKnown, Undisturbed, Alive, Target, Busy
<1> QED
  BY <1>1, <1>2, <1>3, <1>4, <1>5 DEF IInv

LEMMA StartLateKeeps == ASSUME IInv, StartLate PROVE IInv'
<1>1. /\ phase = "late" /\ apc = "none" /\ phase' = "fuzz"
      /\ UNCHANGED <<map_size, shm_size, env, no_autodict, fsrv>>
  BY DEF StartLate
<1>2. phase \in MainPhases /\ phase' \in MainPhases \ {"init"} /\ phase # "fatal"
  BY <1>1 DEF MainPhases
<1>3. CASE /\ fsrv["main"].up
           /\ UNCHANGED <<setup, deaths, current, apc, opts, loaded, spc, shmem, ctl, st>>
  <2>1. SizesFit'
    BY <1>1, <1>2, <1>3 DEF IInv, SizesFit, Spacious, Undisturbed, Probes, Compiled, Alive,
       Target, Busy, Round
  <2>2. MainUp' /\ DictOnce'
    BY <1>1, <1>2, <1>3 DEF IInv, MainUp, DictOnce, HasPassedDict, Wanted, Undisturbed, Busy,
       Probes, Compiled
  <2> QED
    BY <1>1, <1>2, <1>3, <2>1, <2>2, PhaseKeeps
<1>4. CASE ~fsrv["main"].up /\ Start("main", spc)
  <2>1. /\ current' = "main" /\ apc' = "hello" /\ UNCHANGED <<setup, deaths, loaded>>
        /\ \A g \in Servers : g # "main" => spc'[g] = spc[g]
    BY <1>4 DEF Start, IInv, TypeOK
  <2>2. SizesFit'
    BY <1>1, <1>2, <2>1 DEF IInv, SizesFit, Spacious, Undisturbed, Probes, Compiled, Alive,
       Target, Busy, Round
  <2>3. MainUp' /\ DictOnce'
    BY <1>1, <1>2, <1>4, <2>1 DEF IInv, MainUp, DictOnce, HasPassedDict, Wanted, Undisturbed,
       Busy, Probes, Compiled
  <2>4. "main" \in Servers /\ spc \in [Servers -> ServerPcs]
    BY DEF IInv, TypeOK, Servers, ServerPcs
  <2> QED
    BY <1>1, <1>2, <1>4, <2>2, <2>3, <2>4, StartKeeps DEF IInv, TypeOK
<1> QED
  BY <1>3, <1>4 DEF StartLate

LEMMA RestartCmplogKeeps == ASSUME IInv, RestartCmplog PROVE IInv'
<1>1. /\ phase = "again" /\ apc = "none" /\ phase' = "late" /\ Start("cmplog", spc)
      /\ UNCHANGED <<map_size, shm_size, env, no_autodict, fsrv>>
  BY DEF RestartCmplog
<1>2. phase \in MainPhases /\ phase' \in MainPhases \ {"init"} /\ phase # "fatal"
  BY <1>1 DEF MainPhases
<1>3. /\ current' = "cmplog" /\ apc' = "hello" /\ UNCHANGED <<setup, deaths, loaded>>
      /\ \A g \in Servers : g # "cmplog" => spc'[g] = spc[g]
  BY <1>1 DEF Start, IInv, TypeOK
<1>4. SizesFit'
  BY <1>1, <1>2, <1>3 DEF IInv, SizesFit, Spacious, Undisturbed, Probes, Compiled, Alive,
     Target, Busy, Round
<1>5. MainUp' /\ DictOnce'
  BY <1>1, <1>2, <1>3 DEF IInv, MainUp, DictOnce, HasPassedDict, Wanted, Undisturbed,
     Busy, Probes, Compiled
<1>6. "cmplog" \in Servers /\ spc \in [Servers -> ServerPcs]
  BY DEF IInv, TypeOK, Servers, ServerPcs
<1>7. setup.cmplog # NoTarget
  BY <1>1, <1>2 DEF IInv, Calm
<1> QED
  BY <1>1, <1>2, <1>4, <1>5, <1>6, <1>7, StartKeeps DEF IInv, TypeOK

LEMMA ProbeKeeps == ASSUME IInv, Probe PROVE IInv'
<1>1. phase = "init" /\ apc = "none" /\ UNCHANGED <<map_size, shm_size, no_autodict>>
  BY DEF Probe
<1>2. phase \in MainPhases /\ phase # "fatal"
  BY <1>1 DEF MainPhases
<1>3. /\ setup \in Setups /\ map_size \in Nat /\ MAP_SIZE \in Nat /\ DEFAULT_SHMEM_SIZE \in Nat
      /\ MAP_SIZE <= DEFAULT_SHMEM_SIZE /\ MAP_SIZE > 0
      /\ fsrv["main"].map_size = map_size
      /\ \A g \in Servers : ~Alive(g)
  BY <1>1, <1>2, Idle DEF IInv, SizesFit, Calm, Alive
<1>4. CASE ~Probes
  <2>1. phase' = "cmplog" /\ UNCHANGED <<setup, deaths, current, apc, opts, env, fsrv, loaded,
                                         spc, shmem, ctl, st>>
    BY <1>4 DEF Probe
  <2>3. SizesFit'
    BY <1>1, <1>2, <1>3, <1>4, <2>1 DEF IInv, SizesFit, Spacious, Undisturbed, Probes,
       Compiled, Alive, Target, Busy, Round
  <2>4. MainUp' /\ DictOnce'
    BY <1>1, <1>2, <1>4, <2>1 DEF IInv, MainUp, DictOnce, HasPassedDict, Wanted, Undisturbed,
       Busy, Probes, Compiled
  <2> QED
    BY <1>1, <1>2, <2>1, <2>3, <2>4, PhaseKeeps DEF MainPhases
<1>5. CASE Probes
  <2>1. /\ phase' = "probed" /\ Start("main", spc)
        /\ \/ /\ map_size <= DEFAULT_SHMEM_SIZE
              /\ fsrv' = [fsrv EXCEPT !["main"].map_size = DEFAULT_SHMEM_SIZE]
              /\ env' = DEFAULT_SHMEM_SIZE
           \/ map_size > DEFAULT_SHMEM_SIZE /\ UNCHANGED <<fsrv, env>>
    BY <1>3, <1>5 DEF Probe
  <2>2. /\ current' = "main" /\ apc' = "hello" /\ UNCHANGED <<setup, deaths, loaded>>
        /\ \A g \in Servers : g # "main" => spc'[g] = spc[g]
    BY <2>1 DEF Start, IInv, TypeOK
  <2>3. /\ fsrv' \in [Servers -> [map_size : Nat, use_shmem_fuzz : BOOLEAN, up : BOOLEAN]]
        /\ env' \in Nat \cup {Unset}
        /\ fsrv'["main"].use_shmem_fuzz = fsrv["main"].use_shmem_fuzz
        /\ fsrv'["main"].up = fsrv["main"].up /\ fsrv'["cmplog"] = fsrv["cmplog"]
        /\ fsrv'["main"].map_size >= DEFAULT_SHMEM_SIZE
    BY <1>3, <2>1 DEF IInv, TypeOK, Servers
  <2>4. SizesFit'
    BY <1>1, <1>2, <1>3, <1>5, <2>1, <2>2, <2>3 DEF IInv, SizesFit, Spacious, Undisturbed, Probes,
       Compiled, Alive, Target, Busy, Round, Servers
  <2>5. MainUp' /\ DictOnce'
    BY <1>1, <1>2, <1>5, <2>1, <2>2, <2>3 DEF IInv, MainUp, DictOnce, HasPassedDict, Wanted,
       Undisturbed, Busy, Probes, Compiled
  <2>6. "main" \in Servers /\ spc \in [Servers -> ServerPcs]
    BY DEF IInv, TypeOK, Servers, ServerPcs
  <2> QED
    BY <1>1, <1>2, <2>1, <2>3, <2>4, <2>5, <2>6, StartKeeps DEF IInv, TypeOK, MainPhases
<1> QED
  BY <1>4, <1>5

LEMMA DownFields ==
    ASSUME NEW r \in [map_size : Nat, use_shmem_fuzz : BOOLEAN, up : BOOLEAN], NEW n \in Nat,
           NEW d, d = [r EXCEPT !.up = FALSE, !.map_size = n]
    PROVE  /\ d \in [map_size : Nat, use_shmem_fuzz : BOOLEAN, up : BOOLEAN]
           /\ d.map_size = n /\ d.use_shmem_fuzz = r.use_shmem_fuzz /\ d.up = FALSE
OBVIOUS

\* New maps, with one server or both killed and main started again.
LEMMA EnlargeKeeps ==
    ASSUME IInv, phase \in {"probed", "cmploged"}, apc = "none",
           phase' = IF phase = "probed" THEN "cmplog" ELSE "again",
           NEW servers \in {{"main"}, Servers}, NEW sizes \in [Servers -> Nat], NEW size \in Nat,
           phase = "probed" => servers = {"main"} /\ size = fsrv["main"].map_size,
           phase = "cmploged" => servers = Servers /\ size = fsrv["cmplog"].map_size,
           \A f \in servers : sizes[f] = fsrv[f].map_size,
           map_size < size,
           Enlarge(servers, sizes, size)
    PROVE  IInv'
<1>1. /\ fsrv' = Down(servers, sizes) /\ map_size' = size /\ shm_size' = size
      /\ no_autodict' = TRUE /\ Start("main", Killed(servers)) /\ env' = env
  BY DEF Enlarge, SharedMap, NoAutodictOnRestart
<1>2. phase \in MainPhases /\ phase' \in MainPhases \ {"init"} /\ phase # "fatal" /\ phase # "init"
  BY DEF MainPhases
<1>3. /\ \A g \in Servers : ~Busy(g) /\ Settled(g)
      /\ map_size \in Nat /\ MAP_SIZE \in Nat
      /\ \A g \in Servers : fsrv[g].map_size \in Nat
  BY <1>2, Idle
<1>4. "main" \in Servers /\ "cmplog" \in Servers /\ "main" \in servers
      /\ Killed(servers) \in [Servers -> ServerPcs]
      /\ \A g \in Servers : Killed(servers)[g] \in {spc[g], "off"}
  BY DEF IInv, TypeOK, Servers, ServerPcs, Killed
<1>5. /\ current' = "main" /\ apc' = "hello" /\ UNCHANGED <<setup, deaths, loaded>>
      /\ \A g \in Servers : g # "main" => spc'[g] \in {spc[g], "off"}
  BY <1>1, <1>4 DEF Start
<1>6. /\ fsrv' \in [Servers -> [map_size : Nat, use_shmem_fuzz : BOOLEAN, up : BOOLEAN]]
      /\ fsrv'["main"].use_shmem_fuzz = fsrv["main"].use_shmem_fuzz
      /\ fsrv'["main"].up = FALSE
      /\ \A g \in Servers : fsrv'[g].map_size = fsrv[g].map_size
  <2>1. fsrv \in [Servers -> [map_size : Nat, use_shmem_fuzz : BOOLEAN, up : BOOLEAN]]
    BY DEF IInv, TypeOK
  <2>2. ASSUME NEW g \in Servers
        PROVE  /\ fsrv'[g] \in [map_size : Nat, use_shmem_fuzz : BOOLEAN, up : BOOLEAN]
               /\ fsrv'[g].map_size = fsrv[g].map_size
               /\ fsrv'[g].use_shmem_fuzz = fsrv[g].use_shmem_fuzz
               /\ g \in servers => fsrv'[g].up = FALSE
    <3>1. CASE g \in servers
      <4>1. fsrv'[g] = [fsrv[g] EXCEPT !.up = FALSE, !.map_size = sizes[g]]
        BY <1>1, <3>1 DEF Down
      <4>2. sizes[g] = fsrv[g].map_size /\ sizes[g] \in Nat
        BY <3>1
      <4> DEFINE e == fsrv[g]
                 d == fsrv'[g]
                 n == sizes[g]
      <4>3. e \in [map_size : Nat, use_shmem_fuzz : BOOLEAN, up : BOOLEAN]
        BY <2>1
      <4>4. n \in Nat /\ n = e.map_size /\ d = [e EXCEPT !.up = FALSE, !.map_size = n]
        BY <4>1, <4>2
      <4> HIDE DEF e, d, n
      <4>5. /\ d \in [map_size : Nat, use_shmem_fuzz : BOOLEAN, up : BOOLEAN]
            /\ d.map_size = n /\ d.use_shmem_fuzz = e.use_shmem_fuzz /\ d.up = FALSE
        BY <4>3, <4>4, DownFields
      <4> QED
        BY <4>4, <4>5 DEF e, d
    <3>2. CASE g \notin servers
      <4>1. fsrv'[g] = fsrv[g]
        BY <1>1, <3>2 DEF Down
      <4> QED
        BY <2>1, <3>2, <4>1
    <3> QED
      BY <3>1, <3>2
  <2>3. fsrv' = [g \in Servers |-> fsrv'[g]]
    BY <1>1 DEF Down
  <2> QED
    BY <1>4, <2>2, <2>3
<1>7. SizesFit'
  BY <1>1, <1>2, <1>3, <1>4, <1>5, <1>6 DEF IInv, SizesFit, Spacious, Undisturbed, Probes, Compiled,
     Alive, Target, Busy, Round
<1>8. MainUp'
  BY <1>1, <1>2, <1>5, <1>6 DEF MainUp, Busy
<1>9. DictOnce'
  <2>1. Undisturbed /\ Wanted => loaded = 1
    <3>1. Undisturbed => Probes
      BY <1>2, <1>3 DEF IInv, SizesFit
    <3>2. Probes => fsrv["main"].up
      BY <1>2, <1>3, <1>4 DEF IInv, MainUp
    <3> QED
      BY <1>2, <3>1, <3>2 DEF IInv, DictOnce, HasPassedDict
  <2> QED
    BY <1>1, <1>2, <1>5, <2>1 DEF IInv, DictOnce, HasPassedDict, Wanted, Undisturbed
<1>10. phase' \in {"cmploged", "again"} => setup.cmplog # NoTarget
  BY <1>2 DEF IInv, Calm
<1> QED
  BY <1>1, <1>2, <1>4, <1>6, <1>7, <1>8, <1>9, <1>10, StartKeeps DEF IInv, TypeOK

LEMMA RestartKeeps == ASSUME IInv, Restart PROVE IInv'
<1> DEFINE size == fsrv["main"].map_size
           sizes == [f \in Servers |-> size]
<1>1. phase = "probed" /\ apc = "none" /\ phase' = "cmplog"
  BY DEF Restart
<1>2. phase \in MainPhases /\ phase' \in MainPhases \ {"init"} /\ phase # "fatal"
  BY <1>1 DEF MainPhases
<1>3. size \in Nat /\ sizes \in [Servers -> Nat] /\ sizes["main"] = size /\ map_size \in Nat
  BY DEF IInv, TypeOK, Servers
<1>4. CASE map_size < size
  <2>1. Enlarge({"main"}, sizes, size)
    BY <1>4 DEF Restart
  <2> QED
    BY <1>1, <1>3, <1>4, <2>1, EnlargeKeeps
<1>5. CASE ~(map_size < size)
  <2>1. UNCHANGED <<setup, deaths, current, apc, opts, map_size, shm_size, env, no_autodict,
                    fsrv, loaded, spc, shmem, ctl, st>>
    BY <1>5 DEF Restart
  <2>2. SizesFit'
    BY <1>1, <1>2, <1>3, <1>5, <2>1 DEF IInv, SizesFit, Spacious, Undisturbed, Probes, Compiled,
       Alive, Target, Busy, Round
  <2>3. MainUp' /\ DictOnce'
    BY <1>1, <1>2, <2>1 DEF IInv, MainUp, DictOnce, HasPassedDict, Wanted, Undisturbed,
       Busy, Probes, Compiled
  <2> QED
    BY <1>1, <1>2, <2>1, <2>2, <2>3, PhaseKeeps
<1> QED
  BY <1>4, <1>5

LEMMA RestartBothKeeps == ASSUME IInv, RestartBoth PROVE IInv'
<1> DEFINE size == fsrv["cmplog"].map_size
           sizes == [f \in Servers |-> fsrv[f].map_size]
<1>1. phase = "cmploged" /\ apc = "none"
  BY DEF RestartBoth
<1>2. phase \in MainPhases /\ phase # "fatal"
  BY <1>1 DEF MainPhases
<1>3. size \in Nat /\ sizes \in [Servers -> Nat] /\ map_size \in Nat
      /\ \A f \in Servers : sizes[f] = fsrv[f].map_size
  BY DEF IInv, TypeOK, Servers
<1>4. CASE map_size < size
  <2>1. Enlarge(Servers, sizes, size) /\ phase' = "again"
    BY <1>4 DEF RestartBoth
  <2> QED
    BY <1>1, <1>3, <1>4, <2>1, EnlargeKeeps
<1>5. CASE ~(map_size < size)
  <2>1. phase' = "late"
        /\ UNCHANGED <<setup, deaths, current, apc, opts, map_size, shm_size, env, no_autodict,
                       fsrv, loaded, spc, shmem, ctl, st>>
    BY <1>5 DEF RestartBoth
  <2>2. SizesFit'
    BY <1>1, <1>2, <1>3, <1>5, <2>1 DEF IInv, SizesFit, Spacious, Undisturbed, Probes, Compiled,
       Alive, Target, Busy, Round
  <2>3. MainUp' /\ DictOnce'
    BY <1>1, <1>2, <2>1 DEF IInv, MainUp, DictOnce, HasPassedDict, Wanted, Undisturbed,
       Busy, Probes, Compiled
  <2> QED
    BY <1>1, <1>2, <2>1, <2>2, <2>3, PhaseKeeps DEF MainPhases
<1> QED
  BY <1>4, <1>5

LEMMA StartCmplogKeeps == ASSUME IInv, StartCmplog PROVE IInv'
<1> DEFINE dup == fsrv["main"].map_size
           raise == Probes /\ (map_size <= DEFAULT_SHMEM_SIZE \/ dup < map_size)
           size == IF raise THEN Max2(map_size, DEFAULT_SHMEM_SIZE) ELSE dup
<1>1. phase = "cmplog" /\ apc = "none" /\ UNCHANGED <<map_size, shm_size, no_autodict>>
  BY DEF StartCmplog
<1>2. phase \in MainPhases /\ phase # "fatal" /\ phase # "init"
  BY <1>1 DEF MainPhases
<1>3. /\ \A g \in Servers : ~Busy(g) /\ Settled(g)
      /\ map_size \in Nat /\ MAP_SIZE \in Nat /\ DEFAULT_SHMEM_SIZE \in Nat
      /\ MAP_SIZE <= DEFAULT_SHMEM_SIZE /\ MAP_SIZE > 0
      /\ \A g \in Servers : fsrv[g].map_size \in Nat
  BY <1>1, <1>2, Idle
<1>4. CASE setup.cmplog = NoTarget
  <2>1. phase' = "late"
        /\ UNCHANGED <<setup, deaths, current, apc, opts, env, fsrv, loaded, spc, shmem, ctl, st>>
    BY <1>4 DEF StartCmplog
  <2>2. SizesFit'
    BY <1>1, <1>2, <1>3, <1>4, <2>1 DEF IInv, SizesFit, Spacious, Undisturbed, Probes, Compiled,
       Alive, Target, Busy, Round
  <2>3. MainUp' /\ DictOnce'
    BY <1>1, <1>2, <2>1 DEF IInv, MainUp, DictOnce, HasPassedDict, Wanted, Undisturbed,
       Busy, Probes, Compiled
  <2> QED
    BY <1>1, <1>2, <2>1, <2>2, <2>3, PhaseKeeps DEF MainPhases
<1>5. CASE setup.cmplog # NoTarget
  <2>1. /\ phase' = "cmploged" /\ fsrv' = [fsrv EXCEPT !["cmplog"].map_size = size]
        /\ env' = (IF raise THEN size ELSE env) /\ Start("cmplog", spc)
    BY <1>5 DEF StartCmplog
  <2>2. /\ size \in Nat
        /\ Undisturbed => size > 0
        /\ Undisturbed /\ ~Probes => size <= map_size
    <3>1. Undisturbed => dup > 0 /\ dup <= map_size
      BY <1>1, <1>2 DEF IInv, SizesFit, Servers
    <3> QED
      BY <1>3, <3>1 DEF Max2, Servers
  <2> HIDE DEF size, raise
  <2>3. /\ fsrv' \in [Servers -> [map_size : Nat, use_shmem_fuzz : BOOLEAN, up : BOOLEAN]]
        /\ env' \in Nat \cup {Unset}
        /\ fsrv'["main"] = fsrv["main"] /\ fsrv'["cmplog"].map_size = size
    BY <2>1, <2>2 DEF IInv, TypeOK, Servers
  <2>4. /\ current' = "cmplog" /\ apc' = "hello" /\ UNCHANGED <<setup, deaths, loaded>>
        /\ \A g \in Servers : g # "cmplog" => spc'[g] = spc[g]
    BY <2>1 DEF Start, IInv, TypeOK
  <2>5. SizesFit'
    BY <1>1, <1>2, <1>3, <2>1, <2>2, <2>3, <2>4 DEF IInv, SizesFit, Spacious, Undisturbed, Probes,
       Compiled, Alive, Target, Busy, Round, Servers
  <2>6. MainUp' /\ DictOnce'
    BY <1>1, <1>2, <2>1, <2>3, <2>4 DEF IInv, MainUp, DictOnce, HasPassedDict, Wanted, Undisturbed,
       Busy, Probes, Compiled
  <2>7. "cmplog" \in Servers /\ spc \in [Servers -> ServerPcs]
    BY DEF IInv, TypeOK, Servers, ServerPcs
  <2> QED
    BY <1>1, <1>2, <1>5, <2>1, <2>3, <2>5, <2>6, <2>7, StartKeeps DEF IInv, TypeOK, MainPhases
<1> QED
  BY <1>4, <1>5

----------------------------------------------------------------------------
(***************************************************************************)
(* The theorems.                                                           *)
(***************************************************************************)

LEMMA InitIInv == Init => IInv
<1> SUFFICES ASSUME Init PROVE IInv
  OBVIOUS
<1>1. setup \in Setups /\ setup.main \in Targets /\ setup.deaths \in Nat
      /\ setup.env \in (Nat \ {0}) \cup {Unset} /\ setup.no_autodict \in BOOLEAN
      /\ setup.skip_bin_check \in BOOLEAN
  BY SetupsAssumption DEF Init
<1>2. /\ MAP_SIZE \in Nat /\ MAP_SIZE > 0 /\ DEFAULT_SHMEM_SIZE \in Nat
      /\ MAP_SIZE <= DEFAULT_SHMEM_SIZE /\ Unset \notin Nat
  BY HandshakeAssumption
<1>3. setup.env # Unset => setup.env \in Nat /\ setup.env > 0 /\ Round(setup.env) \in Nat
                           /\ setup.env <= Round(setup.env)
  BY <1>1, RoundUp
<1>4. /\ get_map_size \in Nat /\ get_map_size > 0
      /\ Spacious => MAP_SIZE <= get_map_size
  BY <1>2, <1>3 DEF get_map_size, Spacious
<1>5. /\ map_size \in Nat /\ map_size > 0
      /\ Spacious => MAP_SIZE <= map_size
      /\ ~Compiled => map_size = MAP_SIZE
  BY <1>2, <1>4 DEF Init
<1>6. TypeOK
  <2>1. \A f \in Servers : Len(st[f]) = 0 /\ Len(ctl[f]) = 0
    BY DEF Init
  <2>2. \A f \in Servers : Len(st[f]) <= 5 /\ Len(ctl[f]) <= 1
    BY <2>1
  <2>3. deaths \in 0 .. setup.deaths /\ env \in Nat \cup {Unset}
    BY <1>1 DEF Init
  <2> QED
    BY <1>1, <1>5, <2>2, <2>3 DEF Init, TypeOK, Servers
<1>7. Conversation /\ Calm
  <2>1. \A f \in Servers : ~Busy(f) /\ ~Alive(f) /\ spc[f] = "off"
    BY DEF Init, Busy, Alive
  <2>2. Conversation
    BY <2>1 DEF Conversation, ConversationWith, Settled
  <2> QED
    BY <2>1, <2>2 DEF Init, Calm, CalmDeath, Servers
<1>8. SizesFit
  <2>1. ~Probes /\ setup.main.kind # "new" => MAP_SIZE <= map_size
    BY <1>1, <1>2, <1>5, SetupsAssumption DEF Probes, Compiled, Spacious, Targets, Kinds
  <2> QED
    BY <1>2, <1>5, <2>1 DEF Init, SizesFit, Alive, Servers
<1>9. ShmemKnown /\ MainUp /\ DictOnce
  BY <1>1 DEF Init, ShmemKnown, MainUp, DictOnce, HasPassedDict, Alive, Busy, Wanted, Servers
<1> QED
  BY <1>6, <1>7, <1>8, <1>9 DEF IInv, Init

LEMMA NextIInv == IInv /\ [Next]_vars => IInv'
<1> SUFFICES ASSUME IInv, [Next]_vars PROVE IInv'
  OBVIOUS
<1>1. CASE MainStep
  BY <1>1, ProbeKeeps, RestartKeeps, StartCmplogKeeps, RestartBothKeeps, RestartCmplogKeeps,
     StartLateKeeps DEF MainStep
<1>2. CASE ReadStep \/ HelloTimeout
  BY <1>2, ReadHelloKeeps, ReadOptionsKeeps, ReadMapSizeKeeps, ReadDictKeeps, ReadEndKeeps,
     HelloTimeoutKeeps DEF ReadStep
<1>3. ASSUME NEW f \in Servers, ServerStep(f) \/ Die(f)
      PROVE  IInv'
  BY <1>3, HelloKeeps, GetReplyKeeps, SendKeeps, DieKeeps DEF ServerStep
<1>4. CASE UNCHANGED vars
  <2>1. UNCHANGED <<setup, deaths, phase, current, apc, opts, map_size, shm_size, env,
                    no_autodict, fsrv, loaded, spc, shmem, ctl, st>>
    BY <1>4 DEF vars, clientVars
  <2>2. TypeOK'
    BY <2>1 DEF IInv, TypeOK
  <2>3. Conversation => Conversation'
    BY <2>1 DEF Conversation, ConversationWith, Settled, Greeting, Exchanging, ReadAt, Busy,
       Alive, Target
  <2>4. (Calm => Calm') /\ (ShmemKnown => ShmemKnown')
    BY <2>1 DEF Calm, CalmDeath, Busy, Alive, Undisturbed, ShmemKnown, Target
  <2>5. SizesFit => SizesFit'
    BY <2>1 DEF SizesFit, Spacious, Undisturbed, Probes, Compiled, Alive, Target, Busy, Round
  <2>6. (MainUp => MainUp') /\ (DictOnce => DictOnce')
    BY <2>1 DEF MainUp, DictOnce, HasPassedDict, Wanted, Undisturbed, Busy, Probes, Compiled
  <2> QED
    BY <2>1, <2>2, <2>3, <2>4, <2>5, <2>6 DEF IInv
<1> QED
  BY <1>1, <1>2, <1>3, <1>4 DEF Next

LEMMA Invariant == Spec => []IInv
BY InitIInv, NextIInv, PTL DEF Spec

\* For all setups, sizes and deaths: the variables of afl_fsrv_start and main keep
\* their types, no pipe holds more than a script's words, and the dictionary of
\* the target is loaded at most once, whatever main restarts.
THEOREM TypeCorrect == Spec => []TypeOK
BY Invariant, PTL DEF IInv

LEMMA IInvAgrees == IInv => BothSidesAgree
<1> SUFFICES ASSUME IInv PROVE BothSidesAgree
  OBVIOUS
<1>1. ASSUME NEW f \in Servers, Serving(f)
      PROVE  /\ ctl[f] = <<>> /\ st[f] = <<>>
             /\ Undisturbed \/ Spacious =>
                  /\ Target(f).map_size <= shm_size
                  /\ fsrv[f].map_size <= shm_size /\ fsrv[f].map_size <= map_size
                  /\ Target(f).map_size <= fsrv[f].map_size
             /\ Undisturbed => shmem[f] = fsrv["main"].use_shmem_fuzz
  <2>1. phase = "fuzz" /\ apc = "none" /\ fsrv[f].up /\ spc[f] = "loop" /\ Alive(f)
    BY <1>1 DEF Serving, Alive
  <2>2. /\ setup \in Setups /\ setup.main \in Targets
        /\ \A g \in Servers : ~Busy(g) /\ Settled(g)
        /\ map_size \in Nat /\ MAP_SIZE \in Nat
        /\ \A g \in Servers : fsrv[g].map_size \in Nat
    BY <2>1, Idle
  <2>3. Target(f) \in Targets /\ (f = "cmplog" => setup.cmplog # NoTarget)
    BY <2>1, ActiveTarget
  <2>4. ctl[f] = <<>> /\ st[f] = <<>> /\ (f = "cmplog" => Target(f).kind = "new")
    BY <2>1, <2>2 DEF Settled
  <2>5. Undisturbed \/ Spacious => fsrv[f].map_size <= map_size /\ shm_size = map_size
    BY <2>1, <2>3 DEF IInv, SizesFit, Servers
  <2>6. Target(f).map_size <= fsrv[f].map_size
    <3>1. CASE Target(f).kind = "new"
      <4>1. fsrv[f].map_size = Round(Target(f).map_size)
        BY <2>1, <2>2, <3>1 DEF IInv, SizesFit
      <4> QED
        BY <2>3, <4>1, RoundUp DEF Targets
    <3>2. CASE Target(f).kind # "new"
      <4>1. f = "main" /\ Target(f) = setup.main
        BY <2>4, <3>2 DEF Servers, Target
      <4>2. Target(f).map_size = MAP_SIZE
        BY <2>2, <3>2, <4>1, SetupsAssumption
      <4>3. MAP_SIZE <= fsrv["main"].map_size
        BY <2>1, <3>2, <4>1 DEF IInv, SizesFit
      <4> QED
        BY <4>1, <4>2, <4>3
    <3> QED
      BY <3>1, <3>2
  <2>7. Undisturbed => shmem[f] = fsrv["main"].use_shmem_fuzz
    <3>1. shmem[f] = Target(f).shmem
      BY <2>1 DEF IInv, ShmemKnown
    <3>2. Target(f).shmem = setup.main.shmem
      BY <2>2, <2>3, SetupsAssumption DEF Servers, Target
    <3>3. fsrv["main"].up
      BY <2>1, <2>2 DEF IInv, MainUp, Servers
    <3>4. Undisturbed => fsrv["main"].use_shmem_fuzz = setup.main.shmem
      BY <2>1, <3>3 DEF IInv, ShmemKnown
    <3> QED
      BY <3>1, <3>2, <3>4
  <2>8. Target(f).map_size \in Nat
    BY <2>3 DEF Targets
  <2> QED
    BY <2>2, <2>4, <2>5, <2>6, <2>7, <2>8
<1>2. ASSUME Serving("main"), Undisturbed
      PROVE  loaded = 1 <=> setup.main.kind = "new" /\ setup.main.dict /\ ~setup.no_autodict
  <2>1. phase # "fatal" /\ fsrv["main"].up
    BY <1>2 DEF Serving
  <2> QED
    BY <1>2, <2>1 DEF IInv, DictOnce, HasPassedDict, Wanted
<1> QED
  BY <1>1, <1>2 DEF BothSidesAgree

\* For all setups, sizes and deaths: when afl-fuzz starts to fuzz, it and each
\* server that is alive mean the same by the pipes, by the shared map and its
\* size, by the place of the test case and by the dictionary, within the limits
\* that BothSidesAgree states for deaths on the way.
THEOREM Agreement == Spec => []BothSidesAgree
BY Invariant, IInvAgrees, PTL

=============================================================================

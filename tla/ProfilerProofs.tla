---------------------------- MODULE ProfilerProofs ----------------------------
EXTENDS Profiler, SequenceTheorems, FiniteSetTheorems, WellFoundedInduction, TLAPS

(***************************************************************************)
(* Proofs about Profiler, for all scenarios, arguments, configurations,    *)
(* debug information and calls of the child.                               *)
(*                                                                         *)
(* The inductive invariant is IInv.  ChildInv says what the kernel knows   *)
(* of the child at each stage, AwaitInv what await_executable() has seen   *)
(* of the calls of that child, ImageInv which image it executes and KillInv*)
(* that a child with traps in it has the option to die with its tracer.    *)
(* ReadersInv says that the readers are what the constructors make of the  *)
(* machine, the masks and the configuration; that they have the events     *)
(* called for is proved of the folds that add them.                        *)
(* ArgsInv and ConfigInv keep what the command line and the configuration  *)
(* were accepted for: TodoInv, the place in the loops over groups, sections*)
(* and instances, and TableInv, the tables that these loops fill, rest on  *)
(* it.  ResultsInv says that the tracers' results are of traps of the      *)
(* tables.  LocatedInv says where the start traps are: at the symbol that  *)
(* fits a function's name, or at the first line and column from a position *)
(* on, which takes that load_lines() sorts.                                *)
(*                                                                         *)
(* OutputInv, on top of it, follows what is read from the traps to the     *)
(* output: whose devices an entry has, which samples an execution has, and *)
(* of what the output is made.                                             *)
(***************************************************************************)

(* Stages of the program: before the child exists.                         *)
Started == {"arguments", "objects", "config", "fork"}

(* The child runs or is stopped on the way to its image.                   *)
Followed == {"readers", "await", "awaitoptions", "awaitsyscall", "awaitwait", "awaitcont", "run"}

(* The child is stopped in its image, and no trap is in it.                *)
Ready == {"idle", "registers", "options"}

(* Traps are being inserted, or the target is traced.                      *)
Inserting == {"insert", "instances"}

(* The profiler is done, with or without an error.                         *)
Ended == {"leave", "done"}

(* What the kernel knows of the child fits where the profiler is: it waits *)
(* for the child only while that one runs or has a stop to report, and     *)
(* asks for a stopped child only what a stopped child answers.             *)
ChildInv ==
    /\ child = [st |-> child.st, event |-> child.event, image |-> child.image, script |-> child.script,
                call |-> child.call, trap |-> child.trap, syscalls |-> child.syscalls,
                exitkill |-> child.exitkill]
    /\ child.trap \in BOOLEAN /\ child.syscalls \in BOOLEAN /\ child.exitkill \in BOOLEAN
    /\ child.st = "running" => child.event = "none"
    /\ child.st = "stopped" /\ Reported => stage \in {"readers", "await", "awaitwait", "run"} \cup Ended
    /\ child.st = "dead" /\ IsStop(child.event) => stage \in Ended
    /\ child.st = "none" <=> stage \in Started \/ (stage \in Ended /\ child.st = "none")
    /\ child.st = "detached" => stage \in Ended
    /\ stage \in {"readers", "await", "awaitwait", "run"} => child.st = "running" \/ Reported
    /\ child.st = "running" => stage \in {"readers", "await", "awaitwait", "run"} \cup Ended
    /\ IsSequence(child.script) /\ ToSet(child.script) \subseteq ToSet(scenario.script)
    /\ child.call # Nothing => child.call \in ToSet(scenario.script) /\ ~child.trap
    /\ ~child.syscalls /\ child.st \in {"running", "stopped"} => child.call = Nothing /\ child.event # "syscall"

(* Traps are only in a child that has the option to die with its tracer,   *)
(* and that does not run on while it is traced.                            *)
KillInv ==
    /\ stage \in Inserting => child.exitkill
    /\ table.armed # {} => child.exitkill /\ child.st # "running"

(* The child has not exited and was not let go.                            *)
Alive == child.st \in {"running", "stopped"}

(* The child executes the file the traps are computed for.                 *)
OnTarget == child.image = args.target

(* The child as fork() left it, before its first call.                     *)
Untouched ==
    child = [NoChild EXCEPT !.st = "running", !.image = "profiler", !.script = scenario.script]

(* The child is in the target, at its first stop after exec.               *)
Executing == OnTarget /\ (child.st = "stopped" \/ child.trap)

(* await_executable(): entry and matched tell whether the next stop is a   *)
(* call or its return, and whether the call was the one waited for.        *)
AwaitInv ==
    /\ stage \in Started \cup {"readers", "await", "awaitoptions"} =>
           entry /\ ~matched /\ ~child.syscalls
    /\ stage \in {"awaitsyscall", "awaitwait"} /\ Alive =>
         /\ entry <=> (IF child.event = "syscall" THEN child.call # Nothing ELSE child.call = Nothing)
         /\ matched =>
              /\ ~entry
              /\ \/ child.event = "none" /\ Matches(child.call)
                 \/ child.event = "syscall" /\ (CommandBehaves => OnTarget /\ child.trap)
    /\ stage = "awaitcont" /\ Alive => child.call = Nothing

(* Which image the child executes at each stage, if the command executes   *)
(* the target as its arguments say.                                        *)
ImageInv ==
    /\ stage = "awaitcont" /\ CommandBehaves => OnTarget /\ (Alive => child.trap)
    /\ stage \in {"readers", "run"} /\ Alive /\ CommandBehaves /\ Args!same_target(args) =>
           Untouched \/ Executing
    /\ stage = "run" /\ Alive /\ CommandBehaves /\ ~Args!same_target(args) => Executing
    /\ stage \in Ready \cup Inserting /\ CommandBehaves => OnTarget
    /\ table.armed # {} /\ CommandBehaves => OnTarget

(* The arguments are those of the command line, which has a command.       *)
ArgsInv ==
    stage \notin {"arguments"} \cup Ended =>
        args = Args!Arguments(scenario.argv) /\ scenario.argv.command # <<>>

(* What the configuration's checks leave: groups and sections with labels  *)
(* of their own, no group without a section.                               *)
ConfigGood ==
    /\ IsSequence(config.groups)
    /\ \A g \in DOMAIN config.groups : IsSequence(Sections(g)) /\ Sections(g) # <<>>
    /\ \A g, h \in DOMAIN config.groups : config.groups[g].label = config.groups[h].label => g = h
    /\ \A g \in DOMAIN config.groups : \A s, t \in DOMAIN Sections(g) :
          Sections(g)[s].label = Sections(g)[t].label => s = t

(* The configuration is checked before it is used, and nothing is inserted *)
(* before that.                                                            *)
ConfigInv ==
    /\ stage \notin {"arguments", "objects", "config"} \cup Ended => ConfigGood
    /\ stage \in Started \cup Followed \cup Ready => table = EmptyTable /\ todo = AtSection(1, 1)
    /\ table # EmptyTable => ConfigGood

(* The cursor of the loops of run() is at a section of the configuration   *)
(* until they end.                                                         *)
TodoInv ==
    /\ todo = [group |-> todo.group, section |-> todo.section, instances |-> todo.instances,
               inserted |-> todo.inserted]
    /\ todo.group \in Nat \ {0} /\ todo.section \in Nat \ {0} /\ todo.inserted \in BOOLEAN
    /\ stage \in Inserting /\ ~AllInserted => todo.group \in DOMAIN config.groups
       /\ todo.section \in DOMAIN Sections(todo.group)
    /\ stage = "instances" => ~AllInserted
    /\ stage = "collect" => AllInserted

(* Groups of output are sequences, of entries with sequences of results.   *)
IsOutput(groups) ==
    /\ IsSequence(groups)
    /\ \A g \in DOMAIN groups :
          /\ groups[g] = [label |-> groups[g].label, extra |-> groups[g].extra, sections |-> groups[g].sections]
          /\ IsSequence(groups[g].sections)
          /\ \A s \in DOMAIN groups[g].sections :
                LET e == groups[g].sections[s] IN
                /\ e = [label |-> e.label, extra |-> e.extra, devices |-> e.devices,
                        executions |-> e.executions]
                /\ IsSequence(e.executions)

(* The tables of traps are functions, and the output has its shape.        *)
IsTable(t) ==
    /\ t = [error |-> t.error, armed |-> t.armed, starts |-> t.starts, ends |-> t.ends,
            groups |-> t.groups, places |-> t.places]
    /\ t.starts = [a \in DOMAIN t.starts |-> t.starts[a]]
    /\ t.ends = [a \in DOMAIN t.ends |-> t.ends[a]]
    /\ t.places = [a \in DOMAIN t.places |-> t.places[a]]
    /\ IsOutput(t.groups)

(* Every start trap has a place for its results, every end trap its start, *)
(* and the code holds exactly the traps of the two tables.                 *)
Balanced(t) ==
    /\ DOMAIN t.places = DOMAIN t.starts
    /\ \A e \in DOMAIN t.ends : t.ends[e] \in DOMAIN t.starts
    /\ t.armed = DOMAIN t.starts \cup DOMAIN t.ends

(* A start trap is of a section of the configuration.                      *)
OfConfig(trap) ==
    \E g \in DOMAIN config.groups : \E s \in DOMAIN Sections(g) :
        trap.group = config.groups[g] /\ trap.section = Sections(g)[s]

(* Every place is the output entry with the labels of its trap, and holds  *)
(* results of that place only.                                             *)
Placed(t) ==
    /\ DOMAIN t.places \subseteq DOMAIN t.starts
    /\ \A a \in DOMAIN t.places : \E g \in DOMAIN t.groups : \E s \in DOMAIN t.groups[g].sections :
          /\ t.places[a] = <<g, s>>
          /\ t.groups[g].label = t.starts[a].group.label
          /\ t.groups[g].sections[s].label = t.starts[a].section.label
    /\ \A g \in DOMAIN t.groups : \A s \in DOMAIN t.groups[g].sections :
          LET executions == t.groups[g].sections[s].executions IN
          \A i \in DOMAIN executions :
              executions[i].range \in DOMAIN t.places /\ t.places[executions[i].range] = <<g, s>>

(* Every start trap in the table is of the configuration.                  *)
Configured(t) == \A a \in DOMAIN t.starts : OfConfig(t.starts[a])

(* What holds of the tables at every stage.                                *)
GoodTable(t) == IsTable(t) /\ Placed(t) /\ Configured(t)

(* A section has a start trap.                                             *)
HasStart(t, section) == \E a \in DOMAIN t.starts : t.starts[a].section = section

(* Every section before the cursor has a start trap.                       *)
SectionsDone(t, next) ==
    \A g \in DOMAIN config.groups : \A s \in DOMAIN Sections(g) :
        g < next.group \/ (g = next.group /\ s < next.section) => HasStart(t, Sections(g)[s])

(* The tables are good, and as complete as the loops have come.            *)
TableInv ==
    /\ GoodTable(table)
    /\ stage \in Inserting \cup {"collect"} => table.error = Fine /\ Balanced(table) /\ SectionsDone(table, todo)
    /\ stage = "instances" /\ todo.inserted => HasStart(table, Sections(todo.group)[todo.section])

(* Results are of traps that are in the table.                             *)
ResultsInv ==
    /\ IsSequence(results)
    /\ \A i \in DOMAIN results : results[i].start \in DOMAIN table.starts

(* Lines in their order.                                                   *)
Sorted(lines) ==
    \A i, j \in DOMAIN lines : i < j => LineBefore(lines[i], lines[j]) \/ lines[i] = lines[j]

(* The debug information of the target as it was loaded: sequences, and of *)
(* each unit the lines in their order.                                     *)
Loaded(oi) ==
    /\ {"base", "units", "symbols", "words"} \subseteq DOMAIN oi
    /\ DOMAIN oi.symbols \subseteq Nat /\ DOMAIN oi.units \subseteq Nat
    /\ \A u \in ToSet(oi.units) : u.lines \in Seq(Line) /\ Sorted(u.lines)

(* A start trap is where its section's bounds say.                         *)
Located(a, trap) == Unambiguous(a, trap) /\ StartsAsAsked(a, trap)

(* Every start trap is.                                                    *)
WellLocated(t) == \A a \in DOMAIN t.starts : Located(a, t.starts[a])

(* The objects are loaded before there are traps, every trap is where its  *)
(* bounds say, and the instances are those of a function.                  *)
LocatedInv ==
    /\ stage \notin {"arguments", "objects"} \cup Ended => Loaded(objects)
    /\ WellLocated(table)
    /\ stage = "instances" => Trap.section.bounds.kind = "function"

(* The readers are those of the machine, the masks and the configuration,  *)
(* made without an error.                                                  *)
ReadersInv ==
    /\ stage \in Started \cup {"readers"} => readers = Nothing
    /\ readers # Nothing =>
          readers = ReadersOf(scenario.machine, args, config) /\ readers.error = Fine

(* The inductive invariant.                                                *)
IInv ==
    /\ TypeOK /\ ChildInv /\ KillInv /\ AwaitInv /\ ImageInv /\ ArgsInv /\ ConfigInv
    /\ TodoInv /\ TableInv /\ ResultsInv /\ LocatedInv /\ ReadersInv

(* A nonempty set of naturals has a least element: what induction over the *)
(* naturals is for in this module.                                         *)
LEMMA LeastOf ==
  ASSUME NEW S, S \subseteq Nat, S # {}
  PROVE  \E i \in S : \A j \in S : i <= j
<1>1. IsWellFoundedOn(OpToRel(<, Nat), Nat)
  BY NatLessThanWellFounded
<1>2. PICK i \in S : \A j \in S : ~(<<j, i>> \in OpToRel(<, Nat))
  BY <1>1, WFMin
<1>3. \A j \in S : ~(j < i)
  BY <1>2 DEF OpToRel
<1> QED BY <1>3

(* Min is the least element.                                               *)
LEMMA MinOf ==
  ASSUME NEW S, S \subseteq Nat, S # {}
  PROVE  Min(S) \in S /\ \A j \in S : Min(S) <= j
<1>1. \E i \in S : \A j \in S : i <= j
  BY LeastOf
<1> QED BY <1>1 DEF Min

(* A line's number in its file, its column and its address decide.         *)
LexBefore(l, m) ==
    \/ l[1] < m[1]
    \/ l[1] = m[1] /\ l[2] < m[2]
    \/ l[1] = m[1] /\ l[2] = m[2] /\ l[3] < m[3]
    \/ l[1] = m[1] /\ l[2] = m[2] /\ l[3] = m[3] /\ l[4] < m[4]

(* The parts of a line.                                                    *)
LEMMA LineTuple ==
  ASSUME NEW l \in Line
  PROVE  l[1] \in Nat /\ l[2] \in Nat /\ l[3] \in Nat /\ l[4] \in Nat /\ l = <<l[1], l[2], l[3], l[4]>>
BY DEF Line

(* LineBefore is that order.                                               *)
LEMMA LineBeforeLex ==
  ASSUME NEW l \in Line, NEW m \in Line
  PROVE  LineBefore(l, m) <=> LexBefore(l, m)
<1> DEFINE differ == {k \in 1..4 : l[k] # m[k]}
           first == CHOOSE k \in differ : \A j \in differ : k <= j
<1>1. LineBefore(l, m) <=> differ # {} /\ l[first] < m[first]
  BY DEF LineBefore
<1>2. /\ l[1] \in Nat /\ l[2] \in Nat /\ l[3] \in Nat /\ l[4] \in Nat
      /\ m[1] \in Nat /\ m[2] \in Nat /\ m[3] \in Nat /\ m[4] \in Nat
  BY LineTuple
<1>3. ASSUME differ # {}
      PROVE  first \in differ /\ \A j \in differ : first <= j
  <2>1. differ \subseteq Nat
    OBVIOUS
  <2> HIDE DEF differ
  <2>2. \E i \in differ : \A j \in differ : i <= j
    BY <1>3, <2>1, LeastOf
  <2> QED BY <2>2
<1>4. first \in differ => first \in {1, 2, 3, 4}
  OBVIOUS
<1> HIDE DEF first
<1>5. CASE differ = {}
  BY <1>1, <1>2, <1>5 DEF LexBefore
<1>6. CASE differ # {}
  <2>1. /\ first \in {1, 2, 3, 4} /\ l[first] # m[first]
        /\ \A k \in {1, 2, 3, 4} : l[k] # m[k] => first <= k
    BY <1>3, <1>4, <1>6
  <2>2. LineBefore(l, m) <=> l[first] < m[first]
    BY <1>1, <1>6
  <2> HIDE DEF differ
  <2> QED BY <1>2, <2>1, <2>2 DEF LexBefore
<1> QED BY <1>5, <1>6

(* The order of lines is total and transitive.                             *)
LEMMA LineOrder ==
  ASSUME NEW l \in Line, NEW m \in Line, NEW n \in Line
  PROVE  /\ ~LineBefore(l, l)
         /\ l = m \/ LineBefore(l, m) \/ LineBefore(m, l)
         /\ LineBefore(l, m) /\ LineBefore(m, n) => LineBefore(l, n)
<1>1. /\ LineBefore(l, l) <=> LexBefore(l, l)
      /\ LineBefore(l, m) <=> LexBefore(l, m)
      /\ LineBefore(m, l) <=> LexBefore(m, l)
      /\ LineBefore(m, n) <=> LexBefore(m, n)
      /\ LineBefore(l, n) <=> LexBefore(l, n)
  BY LineBeforeLex
<1>2. /\ l[1] \in Nat /\ l[2] \in Nat /\ l[3] \in Nat /\ l[4] \in Nat /\ l = <<l[1], l[2], l[3], l[4]>>
      /\ m[1] \in Nat /\ m[2] \in Nat /\ m[3] \in Nat /\ m[4] \in Nat /\ m = <<m[1], m[2], m[3], m[4]>>
      /\ n[1] \in Nat /\ n[2] \in Nat /\ n[3] \in Nat /\ n[4] \in Nat
  BY LineTuple
<1>3. ~LexBefore(l, l)
  BY <1>2 DEF LexBefore
<1>4. l = m \/ LexBefore(l, m) \/ LexBefore(m, l)
  <2>1. CASE l[1] = m[1] /\ l[2] = m[2] /\ l[3] = m[3] /\ l[4] = m[4]
    BY <1>2, <2>1
  <2>2. CASE ~(l[1] = m[1] /\ l[2] = m[2] /\ l[3] = m[3] /\ l[4] = m[4])
    BY <1>2, <2>2 DEF LexBefore
  <2> QED BY <2>1, <2>2
<1>5. LexBefore(l, m) /\ LexBefore(m, n) => LexBefore(l, n)
  BY <1>2 DEF LexBefore
<1> QED BY <1>1, <1>3, <1>4, <1>5

(* load_lines() has the lines it is given, in their order.                 *)
LEMMA LinesSorted ==
  ASSUME NEW lines \in Seq(Line)
  PROVE  /\ load_lines(lines) \in Seq(Line) /\ Len(load_lines(lines)) = Len(lines)
         /\ ToSet(load_lines(lines)) = ToSet(lines)
         /\ Sorted(load_lines(lines))
<1> DEFINE n == Len(lines)
           precedes(j, i) == LineBefore(lines[j], lines[i]) \/ (lines[j] = lines[i] /\ j < i)
           before(i) == {j \in 1..n : precedes(j, i)}
           rank == [i \in 1..n |-> Cardinality(before(i)) + 1]
           sorted == [k \in 1..n |-> lines[CHOOSE i \in 1..n : Cardinality(before(i)) = k - 1]]
<1>1. n \in Nat /\ DOMAIN lines = 1..n /\ \A i \in 1..n : lines[i] \in Line
  BY LenProperties
<1>2. load_lines(lines) = sorted
  BY <1>1 DEF load_lines
<1>3. ASSUME NEW i \in 1..n, NEW j \in 1..n, NEW k \in 1..n
      PROVE  /\ ~precedes(i, i)
             /\ i = j \/ precedes(i, j) \/ precedes(j, i)
             /\ precedes(i, j) /\ precedes(j, k) => precedes(i, k)
  <2>1. /\ ~LineBefore(lines[i], lines[i])
        /\ lines[i] = lines[j] \/ LineBefore(lines[i], lines[j]) \/ LineBefore(lines[j], lines[i])
        /\ LineBefore(lines[i], lines[j]) /\ LineBefore(lines[j], lines[k]) => LineBefore(lines[i], lines[k])
    BY <1>1, LineOrder
  <2>2. i \in Nat /\ j \in Nat /\ k \in Nat
    BY <1>1
  <2>3. ~precedes(i, i)
    BY <2>1, <2>2
  <2>4. i = j \/ precedes(i, j) \/ precedes(j, i)
    BY <2>1, <2>2
  <2>5. precedes(i, j) /\ precedes(j, k) => precedes(i, k)
    BY <2>1, <2>2
  <2> QED BY <2>3, <2>4, <2>5
<1>4. IsFiniteSet(1..n) /\ Cardinality(1..n) = n
  <2>1. IsFiniteSet(1..n) /\ Cardinality(1..n) = IF 1 > n THEN 0 ELSE n - 1 + 1
    <3> HIDE DEF n
    <3> QED BY <1>1, FS_Interval
  <2>2. 1 > n => n = 0
    BY <1>1
  <2> QED BY <1>1, <2>1, <2>2
<1> HIDE DEF precedes
<1>5. ASSUME NEW i \in 1..n
      PROVE  IsFiniteSet(before(i)) /\ Cardinality(before(i)) \in Nat /\ Cardinality(before(i)) < n
  <2>1. before(i) \in SUBSET (1..n) /\ before(i) # 1..n
    BY <1>3
  <2> HIDE DEF before
  <2>2. IsFiniteSet(before(i)) /\ Cardinality(before(i)) <= n /\ Cardinality(before(i)) # n
    BY <1>4, <2>1, FS_Subset
  <2>3. Cardinality(before(i)) \in Nat
    BY <2>2, FS_CardinalityType
  <2> QED BY <1>1, <2>2, <2>3
<1>6. ASSUME NEW i \in 1..n, NEW j \in 1..n, precedes(i, j)
      PROVE  Cardinality(before(i)) < Cardinality(before(j))
  <2>1. before(i) \in SUBSET before(j)
    BY <1>3, <1>6
  <2>2. before(i) # before(j)
    BY <1>3, <1>6
  <2>3. IsFiniteSet(before(j)) /\ Cardinality(before(j)) \in Nat /\ Cardinality(before(i)) \in Nat
    BY <1>5
  <2> HIDE DEF before
  <2>4. Cardinality(before(i)) <= Cardinality(before(j)) /\ Cardinality(before(i)) # Cardinality(before(j))
    BY <2>1, <2>2, <2>3, FS_Subset
  <2> QED BY <2>3, <2>4
<1>7. \A k \in 1..n : \E i \in 1..n : Cardinality(before(i)) = k - 1
  <2>1. rank \in [1..n -> 1..n]
    <3>1. ASSUME NEW i \in 1..n
          PROVE  Cardinality(before(i)) + 1 \in 1..n
      <4> HIDE DEF before
      <4> QED BY <1>1, <1>5
    <3> QED BY <3>1
  <2>2. ASSUME NEW i \in 1..n, NEW j \in 1..n, rank[i] = rank[j]
        PROVE  i = j
    <3> HIDE DEF before
    <3>1. Cardinality(before(i)) = Cardinality(before(j)) /\ Cardinality(before(i)) \in Nat
      BY <1>5, <2>2
    <3> QED BY <1>3, <1>6, <3>1
  <2>3. rank \in Injection(1..n, 1..n)
    <3> HIDE DEF rank
    <3> QED BY <2>1, <2>2 DEF Injection, IsInjective
  <2>4. rank \in Surjection(1..n, 1..n)
    <3> HIDE DEF rank
    <3> QED BY <1>4, <2>3, FS_Injection
  <2>5. \A k \in 1..n : \E i \in 1..n : rank[i] = k
    <3> HIDE DEF rank
    <3> QED BY <2>4 DEF Surjection
  <2>6. \A i \in 1..n : rank[i] = Cardinality(before(i)) + 1 /\ Cardinality(before(i)) \in Nat
    BY <1>5
  <2> HIDE DEF rank, before
  <2> SUFFICES ASSUME NEW k \in 1..n PROVE \E i \in 1..n : Cardinality(before(i)) = k - 1
    OBVIOUS
  <2>7. PICK i \in 1..n : rank[i] = k
    BY <2>5
  <2>8. Cardinality(before(i)) + 1 = k /\ Cardinality(before(i)) \in Nat
    BY <2>6, <2>7
  <2> QED BY <2>8
<1> DEFINE at(k) == CHOOSE i \in 1..n : Cardinality(before(i)) = k - 1
<1> HIDE DEF before
<1>8. \A k \in 1..n : at(k) \in 1..n /\ Cardinality(before(at(k))) = k - 1
  BY <1>7
<1>9. sorted = [k \in 1..n |-> lines[at(k)]]
  OBVIOUS
<1> HIDE DEF at, sorted
<1>10. /\ sorted \in Seq(Line) /\ Len(sorted) = n /\ DOMAIN sorted = 1..n
       /\ \A k \in 1..n : sorted[k] = lines[at(k)]
  <2>1. sorted \in [1..n -> Line]
    BY <1>1, <1>8, <1>9
  <2>2. sorted \in Seq(Line)
    BY <1>1, <2>1, SeqDef
  <2> QED BY <1>1, <1>9, <2>1, <2>2, LenProperties
<1>11. ToSet(sorted) = ToSet(lines)
  <2>1. ASSUME NEW i \in 1..n
        PROVE  \E k \in 1..n : at(k) = i
    <3>1. PICK k \in 1..n : Cardinality(before(i)) = k - 1
      <4>1. Cardinality(before(i)) + 1 \in 1..n /\ Cardinality(before(i)) \in Nat
        BY <1>1, <1>5
      <4> QED BY <4>1
    <3>2. at(k) \in 1..n /\ Cardinality(before(at(k))) = Cardinality(before(i))
      BY <1>8, <3>1
    <3>3. Cardinality(before(i)) \in Nat
      BY <1>5
    <3>4. at(k) = i
      BY <1>3, <1>6, <3>2, <3>3
    <3> QED BY <3>4
  <2> QED BY <1>1, <1>8, <1>10, <2>1 DEF ToSet
<1>12. Sorted(sorted)
  <2> SUFFICES ASSUME NEW i \in 1..n, NEW j \in 1..n, i < j
               PROVE  LineBefore(sorted[i], sorted[j]) \/ sorted[i] = sorted[j]
    BY <1>10 DEF Sorted
  <2>1. at(i) \in 1..n /\ at(j) \in 1..n /\ Cardinality(before(at(i))) < Cardinality(before(at(j)))
    BY <1>1, <1>8
  <2>2. ~precedes(at(j), at(i)) /\ at(i) # at(j)
    <3>1. Cardinality(before(at(i))) \in Nat /\ Cardinality(before(at(j))) \in Nat
      BY <1>5, <2>1
    <3>2. precedes(at(j), at(i)) => Cardinality(before(at(j))) < Cardinality(before(at(i)))
      BY <1>6, <2>1
    <3> QED BY <2>1, <3>1, <3>2
  <2>3. precedes(at(i), at(j))
    BY <1>3, <2>1, <2>2
  <2> QED BY <1>10, <2>3 DEF precedes
<1> QED BY <1>2, <1>10, <1>11, <1>12

(* A unit that is found is one of those there are, and of the path.        *)
LEMMA UnitFound ==
  ASSUME NEW oi, DOMAIN oi.units \subseteq Nat, NEW path, UnitOfPath(oi, path).error = Fine
  PROVE  /\ UnitOfPath(oi, path).value \in ToSet(oi.units)
         /\ is_sub_path(path, UnitOfPath(oi, path).value.path)
<1> DEFINE matching == {i \in DOMAIN oi.units : is_sub_path(path, oi.units[i].path)}
<1>1. matching # {}
  BY DEF UnitOfPath, Missing, Fine
<1>2. UnitOfPath(oi, path) = Missing("cu_ambiguous") \/ UnitOfPath(oi, path) = Found(oi.units[Min(matching)])
  BY <1>1 DEF UnitOfPath
<1>3. UnitOfPath(oi, path).value = oi.units[Min(matching)]
  BY <1>2 DEF Missing, Found, Fine
<1>4. matching \subseteq Nat
  OBVIOUS
<1>5. Min(matching) \in matching
  <2> HIDE DEF matching
  <2> QED BY <1>1, <1>4, MinOf
<1> QED BY <1>3, <1>5 DEF ToSet

(* The line that is found is the first of the file from the number on.     *)
LEMMA LineFound ==
  ASSUME NEW unit, unit.lines \in Seq(Line), Sorted(unit.lines), NEW file, NEW lineno,
         FindLines(unit, file, lineno).error = Fine
  PROVE  LET l == lowest_address_line(FindLines(unit, file, lineno).value)
         IN  /\ l \in ToSet(unit.lines) /\ l[1] = file /\ l[2] >= lineno
             /\ \A m \in ToSet(unit.lines) :
                   m[1] = file /\ m[2] >= lineno => l[2] < m[2] \/ (l[2] = m[2] /\ l[3] <= m[3])
<1> DEFINE lines == unit.lines
           from(l) == l[1] = file /\ l[2] >= lineno
           I == {j \in 1..Len(lines) : from(lines[j])}
           i == SelectInSeq(lines, LAMBDA l : l[1] = file /\ l[2] >= lineno)
           same(l) == l[1] = file /\ l[2] = lines[i][2]
           J == {j \in i..Len(lines) : ~same(lines[j])}
           end == SelectInSubSeq(lines, i, Len(lines), LAMBDA l : ~same(l))
           last == IF end = 0 THEN Len(lines) ELSE end - 1
<1>1. Len(lines) \in Nat /\ DOMAIN lines = 1..Len(lines) /\ \A j \in 1..Len(lines) : lines[j] \in Line
  BY LenProperties
<1>2. FindLines(unit, file, lineno) =
          IF i # 0 THEN Found(SubSeq(lines, i, last))
          ELSE Missing(IF \E l \in ToSet(lines) : l[1] = file THEN "line_not_found" ELSE "file_not_found")
  BY DEF FindLines
<1>3. i = IF I # {} THEN Min(I) ELSE 0
  BY DEF SelectInSeq
<1>4. end = IF J # {} THEN Min(J) ELSE 0
  BY DEF SelectInSubSeq
<1>5. I \subseteq Nat \ {0} /\ I \subseteq Nat
  BY <1>1
<1> HIDE DEF i, end
<1>6. i # 0
  BY <1>2 DEF Missing, Fine
<1>7. i \in I /\ \A j \in I : i <= j
  <2> HIDE DEF I
  <2> QED BY <1>3, <1>5, <1>6, MinOf
<1>8. i \in 1..Len(lines) /\ same(lines[i]) /\ \A j \in 1..Len(lines) : from(lines[j]) => i <= j
  BY <1>7
<1>9. last \in i..Len(lines)
  <2>1. J \subseteq Nat /\ i \notin J
    BY <1>1, <1>8
  <2>2. CASE J = {}
    BY <1>1, <1>4, <1>8, <2>2
  <2>3. CASE J # {}
    <3>1. Min(J) \in J
      <4> HIDE DEF J
      <4> QED BY <2>1, <2>3, MinOf
    <3>2. Min(J) # i /\ Min(J) \in i..Len(lines)
      BY <2>1, <3>1
    <3> QED BY <1>1, <1>4, <1>8, <2>3, <3>2
  <2> QED BY <2>2, <2>3
<1> DEFINE l == lowest_address_line(FindLines(unit, file, lineno).value)
<1>10. l = lines[i]
  <2>1. FindLines(unit, file, lineno).value = SubSeq(lines, i, last)
    <3> HIDE DEF last, lines
    <3>1. FindLines(unit, file, lineno) = Found(SubSeq(lines, i, last))
      BY <1>2, <1>6
    <3>2. \A x : Found(x).value = x
      BY DEF Found
    <3>3. Found(SubSeq(lines, i, last)).value = SubSeq(lines, i, last)
      BY <3>2
    <3> QED BY <3>1, <3>3, Zenon
  <2>2. SubSeq(lines, i, last)[1] = lines[i]
    <3> HIDE DEF last, same
    <3>1. i \in 1..Len(lines) + 1 /\ last \in (i - 1)..Len(lines)
      BY <1>1, <1>8, <1>9
    <3>2. Len(SubSeq(lines, i, last)) = last - i + 1
          /\ \A k \in 1..(last - i + 1) : SubSeq(lines, i, last)[k] = lines[i + k - 1]
      BY <3>1, SubSeqProperties
    <3>3. 1 \in 1..(last - i + 1) /\ i + 1 - 1 = i
      BY <1>1, <1>8, <1>9
    <3> QED BY <3>2, <3>3
  <2> QED BY <2>1, <2>2 DEF lowest_address_line
<1>11. ASSUME NEW j \in 1..Len(lines), from(lines[j])
       PROVE  l[2] < lines[j][2] \/ (l[2] = lines[j][2] /\ l[3] <= lines[j][3])
  <2>1. i <= j
    BY <1>8, <1>11
  <2>2. i = j \/ LineBefore(lines[i], lines[j]) \/ lines[i] = lines[j]
    BY <1>1, <1>8, <2>1 DEF Sorted
  <2>3. /\ lines[i] \in Line /\ lines[j] \in Line
        /\ LineBefore(lines[i], lines[j]) <=> LexBefore(lines[i], lines[j])
    BY <1>1, <1>8, LineBeforeLex
  <2>4. /\ l[1] \in Nat /\ l[2] \in Nat /\ l[3] \in Nat /\ l[4] \in Nat
    BY <1>10, <2>3, LineTuple
  <2>5. lines[j][2] \in Nat /\ lines[j][3] \in Nat
    BY <2>3, LineTuple
  <2>7. l[1] = lines[j][1]
    BY <1>7, <1>10, <1>11
  <2> HIDE DEF l
  <2>6. l = lines[j] \/ LexBefore(l, lines[j])
    BY <1>10, <2>2, <2>3
  <2> HIDE DEF lines
  <2> QED BY <2>4, <2>5, <2>6, <2>7 DEF LexBefore
<1>12. l \in ToSet(lines) /\ from(l)
  BY <1>1, <1>7, <1>8, <1>10 DEF ToSet
<1> HIDE DEF l, lines
<1>13. \A m \in ToSet(lines) : \E j \in 1..Len(lines) : m = lines[j]
  BY <1>1 DEF ToSet
<1>14. \A m \in ToSet(lines) :
          m[1] = file /\ m[2] >= lineno => l[2] < m[2] \/ (l[2] = m[2] /\ l[3] <= m[3])
  BY <1>11, <1>13
<1> QED BY <1>12, <1>14 DEF l, lines

(* The symbols with a prefix.                                              *)
Matching(oi, name) == {s \in ToSet(oi.symbols) : IsPrefix(name, s.name)}

(* The symbol that is found fits the name better than any other.           *)
LEMMA SymbolFound ==
  ASSUME NEW oi, DOMAIN oi.symbols \subseteq Nat, NEW name, FindSymbol(oi, name).error = Fine
  PROVE  LET symbol == FindSymbol(oi, name).value
         IN  /\ symbol \in Matching(oi, name)
             /\ \A s \in Matching(oi, name) \ {symbol} : Fit(symbol, name) < Fit(s, name)
<1> DEFINE symbols == oi.symbols
           I == WithPrefix(symbols, name)
           exact == ExactSymbol(symbols, I, name)
           E == {i \in I : ~symbols[i].demangles \/ symbols[i].name = name}
           plain == {i \in I : ~symbols[i].suffix}
           symbol == FindSymbol(oi, name).value
<1>1. I \subseteq Nat /\ E \subseteq Nat /\ plain \subseteq Nat
  BY DEF WithPrefix
<1>2. /\ Fine # "demangle" /\ Fine # "no_matches" /\ Fine # "symbol_ambiguous_suffix" /\ Fine # "symbol_ambiguous"
      /\ Fine # "symbol_not_found" /\ Fine # "symbol_ambiguous_weak" /\ Fine # "symbol_ambiguous_static"
      /\ \A e : Missing(e).error = e
      /\ \A x : Found(x).error = Fine /\ Found(x).value = x
  BY DEF Fine, Missing, Found
<1>3. /\ ~\E s \in ToSet(symbols) : ~s.demangles
      /\ I # {}
      /\ \/ I = {Min(I)} /\ symbol = symbols[Min(I)]
         \/ I # {Min(I)} /\ exact.error # "symbol_not_found" /\ exact.error = Fine /\ symbol = exact.value
         \/ /\ I # {Min(I)} /\ exact.error = "symbol_not_found"
            /\ plain # {} /\ plain = {Min(plain)} /\ symbol = symbols[Min(plain)]
  <2> HIDE DEF I, exact, plain, Missing, Found
  <2>1. FindSymbol(oi, name) =
            IF \E s \in ToSet(symbols) : ~s.demangles THEN Missing("demangle")
            ELSE IF I = {} THEN Missing("no_matches")
            ELSE IF I = {Min(I)} THEN Found(symbols[Min(I)])
            ELSE IF exact.error # "symbol_not_found" THEN exact
            ELSE IF plain = {} THEN Missing("symbol_ambiguous_suffix")
            ELSE IF plain # {Min(plain)} THEN Missing("symbol_ambiguous")
            ELSE Found(symbols[Min(plain)])
    BY DEF FindSymbol, I, exact, plain
  <2> HIDE DEF symbols
  <2> QED BY <1>2, <2>1
<1>4. \A i \in I : symbols[i].demangles
  BY <1>3 DEF WithPrefix, ToSet
<1>5. \A s : s \in Matching(oi, name) <=> \E i \in I : s = symbols[i]
  BY DEF Matching, WithPrefix, ToSet
<1>6. /\ exact.error = "symbol_not_found" <=> E = {}
      /\ exact.error = Fine => E = {Min(E)} /\ exact.value = symbols[Min(E)]
  <2> HIDE DEF I, E, Missing, Found
  <2>1. exact =
            IF E = {} THEN Missing("symbol_not_found")
            ELSE IF ~symbols[Min(E)].demangles THEN Missing("demangle")
            ELSE IF E = {Min(E)} THEN Found(symbols[Min(E)])
            ELSE IF \E i \in E : symbols[i].binding = "weak" THEN Missing("symbol_ambiguous_weak")
            ELSE IF \E i \in E : symbols[i].binding = "local" THEN Missing("symbol_ambiguous_static")
            ELSE Missing("symbol_ambiguous")
    BY DEF ExactSymbol, E
  <2> HIDE DEF exact
  <2> QED BY <1>2, <2>1
<1> HIDE DEF exact, symbol, symbols
<1>7. CASE I = {Min(I)} /\ symbol = symbols[Min(I)]
  BY <1>5, <1>7 DEF symbol
<1>8. CASE E = {Min(E)} /\ symbol = symbols[Min(E)]
  <2>1. Min(E) \in I /\ symbol.name = name
    BY <1>4, <1>8
  <2>2. \A i \in I : symbols[i] # symbol => symbols[i].name # name
    BY <1>8
  <2> HIDE DEF I, E
  <2>3. symbol \in Matching(oi, name)
    BY <1>5, <1>8, <2>1
  <2>4. \A s \in Matching(oi, name) \ {symbol} : Fit(symbol, name) < Fit(s, name)
    BY <1>5, <2>1, <2>2 DEF Fit
  <2> QED BY <2>3, <2>4 DEF symbol
<1>9. CASE E = {} /\ plain = {Min(plain)} /\ symbol = symbols[Min(plain)]
  <2>1. Min(plain) \in I /\ ~symbol.suffix
    BY <1>9
  <2>2. \A i \in I : symbols[i].name # name /\ (symbols[i] # symbol => symbols[i].suffix)
    BY <1>9
  <2> HIDE DEF I, E, plain
  <2>3. symbol \in Matching(oi, name)
    BY <1>5, <1>9, <2>1
  <2>4. \A s \in Matching(oi, name) \ {symbol} : Fit(symbol, name) < Fit(s, name)
    BY <1>5, <1>9, <2>1, <2>2 DEF Fit
  <2> QED BY <2>3, <2>4 DEF symbol
<1> QED BY <1>3, <1>6, <1>7, <1>8, <1>9

(* A function that is found by its symbol has one that fits best.          *)
LEMMA FunctionSymbol ==
  ASSUME NEW oi, DOMAIN oi.symbols \subseteq Nat, NEW name, FindFunction(oi, name).error = Fine,
         FindFunction(oi, name).value.symbol # None
  PROVE  LET symbol == FindFunction(oi, name).value.symbol
         IN  /\ symbol \in Matching(oi, name)
             /\ \A s \in Matching(oi, name) \ {symbol} : Fit(symbol, name) < Fit(s, name)
<1>1. \A f, s : Pair(f, s).error = Fine => Pair(f, s).value.symbol = s
  BY DEF Pair, Found
<1>2. FindSymbol(oi, name).error = Fine /\ FindFunction(oi, name).value.symbol = FindSymbol(oi, name).value
  <2> DEFINE symbol == FindSymbol(oi, name)
             i == SelectInSeq(oi.units, LAMBDA u : FunctionOfName(u, name).error # "function_not_found")
             byname == Pair(FunctionOfName(oi.units[i], name), None)
             bysymbol == Pair(FunctionOfSymbol(oi, symbol.value), symbol.value)
  <2>1. FindFunction(oi, name) =
            IF symbol.error = Fine THEN bysymbol
            ELSE IF symbol.error \notin NotFoundErrors THEN symbol
            ELSE IF i = 0 THEN Missing("function_not_found") ELSE byname
    BY DEF FindFunction
  <2>2. Missing("function_not_found").error # Fine
    BY DEF Missing, Fine
  <2>3. byname.error = Fine => byname.value.symbol = None
    BY <1>1
  <2>4. bysymbol.error = Fine => bysymbol.value.symbol = symbol.value
    BY <1>1
  <2> HIDE DEF symbol, i, byname, bysymbol
  <2>5. symbol.error = Fine /\ FindFunction(oi, name) = bysymbol
    BY <2>1, <2>2, <2>3
  <2> QED BY <2>4, <2>5 DEF symbol
<1> QED BY <1>2, SymbolFound

(* The types hold initially.                                               *)
LEMMA TypeInit == Init => TypeOK
<1> SUFFICES ASSUME Init PROVE TypeOK
  OBVIOUS
<1>1. Len(results) <= MaxExecutions /\ error = Fine /\ stage = "arguments"
  BY ProfilerAssumption DEF Init
<1> QED BY <1>1 DEF TypeOK, Init, Stages, NoChild

(* Parsed arguments are not the absence of arguments.                      *)
LEMMA ArgsType == \A argv : Args!Arguments(argv) # Nothing
<1> SUFFICES ASSUME NEW argv, Args!Arguments(argv) = Nothing PROVE FALSE
  OBVIOUS
<1>1. "idle" \in DOMAIN Args!Arguments(argv)
  BY DEF Args!Arguments
<1>2. "idle" \notin DOMAIN Nothing
  BY DEF Nothing
<1> QED BY <1>1, <1>2

(* A loaded configuration is not the absence of one.                       *)
LEMMA ConfigType == \A doc, c : Cfg!ConfigValue(doc, c) # Nothing
<1> SUFFICES ASSUME NEW doc, NEW c, Cfg!ConfigValue(doc, c) = Nothing PROVE FALSE
  OBVIOUS
<1>1. "groups" \in DOMAIN Cfg!ConfigValue(doc, c)
  BY DEF Cfg!ConfigValue
<1>2. "groups" \notin DOMAIN Nothing
  BY DEF Nothing
<1> QED BY <1>1, <1>2

(* The child's steps keep the types.                                       *)
LEMMA ChildStep ==
  ASSUME TypeOK, ChildInv, Child \/ ChildKilled
  PROVE  TypeOK'
<1>1. UNCHANGED <<static, stage, error, loaded, await, made>>
  BY DEF Child, ChildKilled
<1>2. /\ child'.st \in {"running", "stopped", "dead"}
      /\ child'.event \in {"none", "trap", "signal", "syscall", "exited", "signaled"}
  <2>1. CASE ChildEnters
    BY <2>1 DEF ChildEnters, Stopped, ChildInv, TypeOK
  <2>2. CASE ChildReturns
    BY <2>2 DEF ChildReturns, Executed, ChildInv, TypeOK
  <2>3. CASE ChildCalls
    BY <2>3 DEF ChildCalls, Executed, ChildInv, TypeOK
  <2>4. CASE ChildTraps
    BY <2>4 DEF ChildTraps, Stopped, ChildInv, TypeOK
  <2>5. CASE ChildReceives
    BY <2>5 DEF ChildReceives, Stopped, ChildInv, TypeOK
  <2>6. CASE ChildExits
    BY <2>6 DEF ChildExits, ChildInv, TypeOK
  <2>7. CASE ChildKilled
    BY <2>7 DEF ChildKilled, ChildInv, TypeOK
  <2> QED BY <2>1, <2>2, <2>3, <2>4, <2>5, <2>6, <2>7 DEF Child
<1> QED BY <1>1, <1>2 DEF TypeOK, static, loaded, await, made

(* The wait for the first stop: on to the next stage, or an error.         *)
LEMMA FirstWaitStep ==
  ASSUME NEW from, NEW to, FirstWait(from, to)
  PROVE  /\ stage = from /\ Reported /\ Wait /\ UNCHANGED static
         /\ \/ IsStop(child.event) /\ Goto(from, to) /\ UNCHANGED <<loaded, await, made>>
            \/ \E e : Fail(e)
<1>1. CASE child.event = "exited"
  BY <1>1 DEF FirstWait
<1>2. CASE child.event # "exited" /\ IsStop(child.event)
  BY <1>2 DEF FirstWait
<1>3. CASE child.event # "exited" /\ ~IsStop(child.event)
  BY <1>3 DEF FirstWait
<1> QED BY <1>1, <1>2, <1>3

(* What await_executable() does with a stop at a system call.              *)
LEMMA AwaitCallStep ==
  ASSUME AwaitCall
  PROVE  /\ stage = "awaitwait" /\ child.event = "syscall" /\ Wait /\ UNCHANGED static
         /\ \/ \E e : Fail(e)
            \/ /\ entry' = ~entry
               /\ matched' = (matched \/ (entry /\ Matches(child.call)))
               /\ Goto("awaitwait", IF matched THEN "awaitcont" ELSE "awaitsyscall")
               /\ UNCHANGED <<loaded, made>>
<1>1. CASE ~matched /\ entry /\ get_string(child.call) # Fine
  BY <1>1 DEF AwaitCall
<1>2. CASE ~(~matched /\ entry /\ get_string(child.call) # Fine)
  BY <1>2 DEF AwaitCall
<1> QED BY <1>1, <1>2

(* The profiler's steps keep the types.                                    *)
LEMMA TypeStep ==
  ASSUME TypeOK, ChildInv, ResultsInv, Main
  PROVE  TypeOK'
<1> USE DEF Fine
<1>1. CASE ParseArguments
  BY <1>1, ArgsType DEF ParseArguments, Fail, Goto, TypeOK, Stages, await, made, loaded, static, await
<1>2. CASE LoadObjects
  BY <1>2 DEF LoadObjects, Fail, Goto, TypeOK, Stages, made, loaded, static, await
<1>3. CASE LoadConfig
  BY <1>3, ConfigType DEF LoadConfig, Fail, Goto, TypeOK, Stages, made, loaded, static, await
<1>4. CASE Fork
  BY <1>4 DEF Fork, Fail, Goto, TypeOK, Stages, made, loaded, static, await, NoChild
<1>5. CASE CreateReaders
  BY <1>5 DEF CreateReaders, Fail, Goto, TypeOK, Stages, made, loaded, static, await
<1>6. CASE AwaitFirst \/ RunWait
  <2>1. PICK from \in {"await", "run"}, to \in {"awaitoptions", "idle", "registers"} : FirstWait(from, to)
    BY <1>6 DEF AwaitFirst, RunWait
  <2>2. stage = from /\ Reported /\ Wait
    BY <2>1, FirstWaitStep
  <2>3. stage' \in Stages /\ (stage' \in {"leave"} \/ (UNCHANGED error
          /\ stage' \in {"awaitoptions", "idle", "registers"}))
    BY <2>1, FirstWaitStep, <2>2 DEF Fail, Goto, Stages
  <2>4. UNCHANGED <<static, loaded, await, idle, todo, table, results, printed>>
    BY <2>1, FirstWaitStep DEF Fail, made
  <2> QED BY <2>2, <2>3, <2>4 DEF TypeOK, Wait, Reported, NoChild, ChildInv, loaded, static, await, Stages
<1>7. CASE AwaitOptions \/ AwaitResume \/ AwaitContinue \/ Registers \/ SetOptions
  BY <1>7 DEF AwaitOptions, AwaitResume, AwaitContinue, Registers, SetOptions, Request, ChildInv, Fail, Goto,
       TypeOK, Stages, made, loaded, static, await
<1>8. CASE AwaitCall
  <2>1. stage = "awaitwait" /\ child.event = "syscall" /\ Wait /\ UNCHANGED static
    BY <1>8, AwaitCallStep
  <2>2. entry' \in BOOLEAN /\ matched' \in BOOLEAN
    <3>1. (\E e : Fail(e)) => UNCHANGED await
      BY DEF Fail
    <3> QED BY <1>8, <3>1, AwaitCallStep, Zenon DEF TypeOK, await
  <2>3. UNCHANGED <<loaded, idle, todo, table, results, printed>>
    BY <1>8, AwaitCallStep DEF Fail, made
  <2>4. stage' = "leave" \/ (UNCHANGED error /\ stage' \in {"awaitcont", "awaitsyscall"})
    BY <1>8, AwaitCallStep DEF Fail, Goto
  <2> QED BY <2>1, <2>2, <2>3, <2>4 DEF TypeOK, Wait, NoChild, ChildInv, loaded, static, Stages
<1>9. CASE AwaitOther
  BY <1>9 DEF AwaitOther, Wait, Reported, NoChild, ChildInv, Fail, Goto, TypeOK, Stages, made, loaded, static, await
<1>10. CASE ObtainIdle
  BY <1>10 DEF ObtainIdle, Fail, Goto, TypeOK, Stages, made, loaded, static, await
<1>11. CASE InsertSection \/ InsertFunction \/ InsertInlined \/ FunctionInserted
  BY <1>11 DEF InsertSection, InsertFunction, InsertInlined, FunctionInserted, Inserted, Fail, TypeOK, Stages,
       made, loaded, static, await
<1>12. CASE TraceEnds
  <2>1. Len(results') <= MaxExecutions
    BY <1>12, ProfilerAssumption DEF TraceEnds
  <2> QED BY <1>12, <2>1 DEF TraceEnds, Fail, Goto, TypeOK, Stages, made, loaded, static, await, ChildInv
<1>13. CASE TraceFails
  BY <1>13 DEF TraceFails, Fail, Goto, TypeOK, Stages, made, loaded, static, await, ChildInv
<1>14. CASE Collect
  <2>1. Len(results') <= MaxExecutions
    <3>1. Len(Tail(results)) = Len(results) - 1 /\ Len(results) \in Nat
      BY <1>14 DEF ResultsInv, IsSequence, Collect
    <3> QED BY <3>1, <1>14, ProfilerAssumption DEF Collect, TypeOK
  <2> QED BY <1>14, <2>1 DEF Collect, TypeOK, Stages, made, loaded, static, await
<1>15. CASE WriteResults
  BY <1>15 DEF WriteResults, Goto, TypeOK, Stages, made, loaded, static, await
<1>16. CASE Leave
  BY <1>16 DEF Leave, ChildInv, Goto, TypeOK, Stages, made, loaded, static, await
<1> QED BY <1>1, <1>2, <1>3, <1>4, <1>5, <1>6, <1>7, <1>8, <1>9, <1>10, <1>11, <1>12, <1>13, <1>14, <1>15,
      <1>16 DEF Main

(* What is assumed of the scenarios, of the one at hand.                   *)
LEMMA ScenarioFacts ==
  ASSUME scenario \in Scenarios
  PROVE  /\ IsSequence(scenario.doc.groups) /\ IsSequence(scenario.script)
         /\ \A g \in ToSet(scenario.doc.groups) : IsSequence(g.sections)
         /\ \A c \in ToSet(scenario.script) : c.kind \in {"exec", "badexec", "other", "signal"}
         /\ scenario.script # <<>> /\ scenario.argv.command # <<>> =>
                LET first == Head(scenario.script) IN
                first.kind = "signal" \/ (first.kind = "exec" /\ first.file = scenario.argv.command[1])
BY ProfilerAssumption

(* A sequence over any set is a sequence.                                  *)
LEMMA SequenceOf ==
  ASSUME NEW S, NEW s \in Seq(S)
  PROVE  IsSequence(s) /\ ToSet(s) \subseteq S
<1>1. /\ Len(s) \in Nat /\ DOMAIN s = 1..Len(s) /\ s \in [1..Len(s) -> S]
  BY LenProperties
<1>2. s \in [1..Len(s) -> ToSet(s)]
  BY <1>1 DEF ToSet
<1>3. s \in Seq(ToSet(s))
  BY <1>1, <1>2, SeqDef
<1> QED BY <1>1, <1>3 DEF IsSequence, ToSet

(* The rest of a sequence is one, of the same elements.                    *)
LEMMA SequenceTail ==
  ASSUME NEW s, IsSequence(s), s # <<>>
  PROVE  /\ IsSequence(Tail(s)) /\ ToSet(Tail(s)) \subseteq ToSet(s)
         /\ Head(s) \in ToSet(s)
<1>1. s \in Seq(ToSet(s))
  BY DEF IsSequence
<1>2. Tail(s) \in Seq(ToSet(s)) /\ Head(s) \in ToSet(s)
  BY <1>1, HeadTailProperties
<1> QED BY <1>2, SequenceOf

(* The child's steps keep ChildInv.                                        *)
LEMMA ChildChildStep ==
  ASSUME ChildInv, TypeOK, Child \/ ChildKilled
  PROVE  ChildInv'
<1>1. UNCHANGED <<static, stage, error, loaded, await, made>>
  BY DEF Child, ChildKilled
<1> USE DEF ChildInv, TypeOK, Reported, static, IsStop
<1>2. CASE ChildEnters
  BY <1>1, <1>2, SequenceTail DEF ChildEnters, Stopped
<1>3. CASE ChildReturns
  BY <1>1, <1>3 DEF ChildReturns, Executed
<1>4. CASE ChildCalls
  BY <1>1, <1>4, SequenceTail DEF ChildCalls, Executed
<1>5. CASE ChildTraps
  BY <1>1, <1>5 DEF ChildTraps, Stopped
<1>6. CASE ChildReceives
  BY <1>1, <1>6, SequenceTail DEF ChildReceives, Stopped
<1>7. CASE ChildExits
  BY <1>1, <1>7 DEF ChildExits
<1>8. CASE ChildKilled
  BY <1>1, <1>8 DEF ChildKilled
<1> QED BY <1>2, <1>3, <1>4, <1>5, <1>6, <1>7, <1>8 DEF Child

(* The profiler's steps keep ChildInv.                                     *)
LEMMA ChildMainStep ==
  ASSUME ChildInv, AwaitInv, TypeOK, scenario \in Scenarios, Main
  PROVE  ChildInv'
<1> USE DEF Started, Ended, static, loaded, await, made, Goto, Fail, ChildInv, IsStop
<1>1. CASE ParseArguments \/ LoadObjects \/ LoadConfig
  BY <1>1 DEF ParseArguments, LoadObjects, LoadConfig, Reported
<1>2. CASE Fork
  <2>1. IsSequence(scenario.script) /\ ToSet(scenario.script) \subseteq ToSet(scenario.script)
    BY ProfilerAssumption
  <2> QED BY <1>2, <2>1 DEF Fork, NoChild, Reported
<1>3. CASE CreateReaders
  BY <1>3 DEF CreateReaders, Reported
<1>4. CASE AwaitFirst \/ RunWait
  <2>1. PICK from \in {"await", "run"}, to \in {"awaitoptions", "idle", "registers"} : FirstWait(from, to)
    BY <1>4 DEF AwaitFirst, RunWait
  <2>2. stage = from /\ Reported /\ Wait /\ UNCHANGED static /\ stage' \in {"leave", "awaitoptions", "idle",
          "registers"}
    BY <2>1, FirstWaitStep
  <2> QED BY <2>2 DEF Wait, Reported
<1>5. CASE AwaitOptions \/ AwaitResume \/ AwaitContinue \/ Registers \/ SetOptions
  BY <1>5 DEF AwaitOptions, AwaitResume, AwaitContinue, Registers, SetOptions, Request, Reported, AwaitInv, Alive
<1>6. CASE AwaitCall
  <2>1. stage = "awaitwait" /\ child.event = "syscall" /\ Wait /\ UNCHANGED static
          /\ stage' \in {"leave", "awaitcont", "awaitsyscall"}
    BY <1>6, AwaitCallStep
  <2> QED BY <2>1 DEF Wait, Reported
<1>7. CASE AwaitOther
  BY <1>7 DEF AwaitOther, Wait, Reported
<1>8. CASE ObtainIdle
  BY <1>8 DEF ObtainIdle, Reported
<1>9. CASE InsertSection \/ InsertFunction \/ InsertInlined \/ FunctionInserted
  BY <1>9 DEF InsertSection, InsertFunction, InsertInlined, FunctionInserted, Inserted, Reported
<1>10. CASE TraceEnds
  BY <1>10 DEF TraceEnds, Reported
<1>11. CASE TraceFails
  BY <1>11 DEF TraceFails, Reported
<1>12. CASE Collect \/ WriteResults
  BY <1>12 DEF Collect, WriteResults, Reported
<1>13. CASE Leave
  BY <1>13 DEF Leave, Reported
<1> QED BY <1>1, <1>2, <1>3, <1>4, <1>5, <1>6, <1>7, <1>8, <1>9, <1>10, <1>11, <1>12, <1>13 DEF Main

(* The calls of a script are calls, and those of a command that behaves    *)
(* work when they match.                                                   *)
LEMMA ScriptCalls ==
  ASSUME scenario \in Scenarios, NEW c \in ToSet(scenario.script)
  PROVE  c # Nothing /\ (CommandBehaves /\ Matches(c) => c.works)
<1>1. c.kind \in {"exec", "badexec", "other", "signal"}
  BY ScenarioFacts
<1>2. c # Nothing
  BY <1>1 DEF Nothing
<1>3. CommandBehaves /\ Matches(c) => c.works
  BY DEF CommandBehaves, Matches, ToSet
<1> QED BY <1>2, <1>3

(* The child's steps keep AwaitInv.                                        *)
LEMMA AwaitChildStep ==
  ASSUME AwaitInv, ChildInv, TypeOK, scenario \in Scenarios, Child \/ ChildKilled
  PROVE  AwaitInv'
<1>1. UNCHANGED <<static, stage, error, loaded, await, made>>
  BY DEF Child, ChildKilled
<1>2. /\ CommandBehaves' = CommandBehaves /\ args' = args
      /\ stage' = stage /\ entry' = entry /\ matched' = matched
  BY <1>1 DEF CommandBehaves, static, loaded, await
<1>3. CASE ChildEnters
  <2>1. Head(child.script) \in ToSet(scenario.script)
    BY <1>3, SequenceTail DEF ChildEnters, ChildInv
  <2>2. Head(child.script) # Nothing
    BY <2>1, ScriptCalls
  <2>3. /\ child'.st = "stopped" /\ child'.event = "syscall" /\ child'.call # Nothing
        /\ child.call = Nothing /\ child.st = "running" /\ child.event = "none" /\ child'.syscalls = child.syscalls
    BY <1>3, <2>2 DEF ChildEnters, Stopped, ChildInv
  <2>4. ~Matches(child.call)
    BY <2>3 DEF Matches, Nothing
  <2> QED BY <1>2, <2>3, <2>4 DEF AwaitInv, Alive, ChildInv, Started, Ended
<1>4. CASE ChildReturns
  <2>1. child.call \in ToSet(scenario.script) /\ ~child.trap
    BY <1>4 DEF ChildReturns, ChildInv
  <2>2. CommandBehaves /\ Matches(child.call) => child'.image = args.target /\ child'.trap
    BY <1>4, <2>1, ScriptCalls DEF ChildReturns, Executed, ChildInv, Matches
  <2>3. /\ child'.st = "stopped" /\ child'.event = "syscall" /\ child'.call = Nothing
        /\ child.call # Nothing /\ child.st = "running" /\ child.event = "none"
        /\ child'.syscalls = child.syscalls
    BY <1>4 DEF ChildReturns, Executed, ChildInv
  <2> QED BY <1>2, <2>2, <2>3 DEF AwaitInv, Alive, OnTarget, ChildInv, Started, Ended
<1>5. CASE ChildCalls
  <2>1. child.call = Nothing /\ child'.call = Nothing /\ child'.st = "running" /\ child.st = "running"
          /\ child.event = "none" /\ child'.event = "none" /\ child'.syscalls = child.syscalls
    BY <1>5 DEF ChildCalls, Executed, ChildInv
  <2>2. ~Matches(child.call)
    BY <2>1 DEF Matches, Nothing
  <2> QED BY <1>2, <2>1, <2>2 DEF AwaitInv, Alive, Started
<1>6. CASE ChildTraps \/ ChildReceives
  <2>1. child.call = Nothing /\ child'.call = Nothing /\ child.st = "running" /\ child.event = "none"
          /\ child'.event \in {"trap", "signal"} /\ child'.syscalls = child.syscalls
    BY <1>6 DEF ChildTraps, ChildReceives, Stopped, ChildInv
  <2>2. ~Matches(child.call)
    BY <2>1 DEF Matches, Nothing
  <2> QED BY <1>2, <2>1, <2>2 DEF AwaitInv, Alive, Started
<1>7. CASE ChildExits \/ ChildKilled
  <2>1. child'.st = "dead" /\ child'.syscalls = child.syscalls
    BY <1>7 DEF ChildExits, ChildKilled, ChildInv
  <2> QED BY <1>2, <2>1 DEF AwaitInv, Alive, Started
<1> QED BY <1>3, <1>4, <1>5, <1>6, <1>7 DEF Child

(* The profiler's steps keep AwaitInv.                                     *)
LEMMA AwaitMainStep ==
  ASSUME AwaitInv, ChildInv, TypeOK, scenario \in Scenarios, Main
  PROVE  AwaitInv'
<1> USE DEF Started, Ended, static, loaded, await, made, Goto, Fail, Alive
<1>1. CASE ParseArguments \/ LoadObjects \/ LoadConfig
  BY <1>1 DEF ParseArguments, LoadObjects, LoadConfig, AwaitInv
<1>2. CASE Fork \/ CreateReaders
  BY <1>2 DEF Fork, NoChild, CreateReaders, AwaitInv
<1>3. CASE AwaitFirst
  <2>1. FirstWait("await", "awaitoptions")
    BY <1>3 DEF AwaitFirst
  <2>2. stage = "await" /\ Wait /\ stage' \in {"leave", "awaitoptions"} /\ UNCHANGED <<entry, matched>>
    BY <2>1, FirstWaitStep
  <2>3. child'.syscalls = child.syscalls
    BY <2>2 DEF Wait, ChildInv
  <2> QED BY <2>2, <2>3 DEF AwaitInv
<1>4. CASE AwaitOptions
  <2>1. child'.syscalls = child.syscalls /\ child'.call = child.call /\ child'.event = child.event
          /\ child'.st = child.st /\ UNCHANGED <<entry, matched>>
    BY <1>4 DEF AwaitOptions, Request, ChildInv
  <2>2. stage = "awaitoptions" /\ stage' \in {"leave", "awaitsyscall"}
    BY <1>4 DEF AwaitOptions, Request
  <2> QED BY <2>1, <2>2 DEF AwaitInv, ChildInv
<1>5. CASE AwaitResume
  <2>1. stage = "awaitsyscall" /\ stage' \in {"leave", "awaitwait"} /\ UNCHANGED <<entry, matched, args, scenario>>
    BY <1>5 DEF AwaitResume, Request
  <2>2. stage' # "leave" => child'.st = "running" /\ child.st = "stopped" /\ child'.event = child.event
          /\ child'.call = child.call /\ child'.image = child.image /\ child'.trap = child.trap
    BY <1>5 DEF AwaitResume, Request, ChildInv
  <2> QED BY <2>1, <2>2 DEF AwaitInv, CommandBehaves, OnTarget, Matches
<1>6. CASE AwaitCall
  <2>1. stage = "awaitwait" /\ child.event = "syscall" /\ Wait /\ UNCHANGED scenario
    BY <1>6, AwaitCallStep
  <2>2. /\ child'.st = child.st /\ child'.event = "none" /\ child'.call = child.call
           /\ child'.image = child.image /\ child'.trap = child.trap /\ child.st # "running"
    BY <2>1 DEF Wait, ChildInv
  <2>3. CASE stage' = "leave"
    BY <2>3 DEF AwaitInv
  <2>4. CASE matched /\ stage' = "awaitcont"
    BY <2>1, <2>2, <2>4 DEF AwaitInv, TypeOK
  <2>5. CASE ~matched /\ stage' = "awaitsyscall" /\ entry' = ~entry
               /\ matched' = (entry /\ Matches(child.call)) /\ args' = args
    BY <2>1, <2>2, <2>5 DEF AwaitInv, Matches, TypeOK
  <2> QED BY <1>6, AwaitCallStep, <2>3, <2>4, <2>5
<1>7. CASE AwaitOther
  <2>1. stage = "awaitwait" /\ child.event \notin {"syscall", "none"} /\ Wait
          /\ UNCHANGED <<scenario, entry, matched, args>> /\ stage' \in {"leave", "awaitsyscall"}
    BY <1>7 DEF AwaitOther, Reported
  <2>2. /\ child'.st = child.st /\ child'.event = "none" /\ child'.call = child.call
    BY <2>1 DEF Wait, ChildInv
  <2> QED BY <2>1, <2>2 DEF AwaitInv
<1>8. CASE AwaitContinue \/ Registers \/ SetOptions
  BY <1>8 DEF AwaitContinue, Registers, SetOptions, Request, AwaitInv
<1>9. CASE RunWait
  <2>1. stage = "run" /\ stage' \in {"leave", "idle", "registers"}
    BY <1>9, FirstWaitStep DEF RunWait
  <2> QED BY <2>1 DEF AwaitInv
<1>10. CASE ObtainIdle
  BY <1>10 DEF ObtainIdle, AwaitInv
<1>11. CASE InsertSection \/ InsertFunction \/ InsertInlined \/ FunctionInserted
  BY <1>11 DEF InsertSection, InsertFunction, InsertInlined, FunctionInserted, Inserted, AwaitInv
<1>12. CASE TraceEnds \/ TraceFails
  BY <1>12 DEF TraceEnds, TraceFails, AwaitInv
<1>13. CASE Collect \/ WriteResults \/ Leave
  BY <1>13 DEF Collect, WriteResults, Leave, AwaitInv
<1> QED BY <1>1, <1>2, <1>3, <1>4, <1>5, <1>6, <1>7, <1>8, <1>9, <1>10, <1>11, <1>12, <1>13 DEF Main

(* Without a first error there is none.                                    *)
LEMMA FirstErrorFine ==
  ASSUME NEW errors, DOMAIN errors \subseteq Nat, FirstError(errors) = Fine
  PROVE  \A i \in DOMAIN errors : errors[i] = Fine
<1> DEFINE bad == {i \in DOMAIN errors : errors[i] # Fine}
<1> SUFFICES ASSUME bad # {} PROVE FALSE
  OBVIOUS
<1>1. \E i \in bad : \A j \in bad : i <= j
  BY LeastOf
<1>2. errors[CHOOSE i \in bad : \A j \in bad : i <= j] # Fine
  BY <1>1
<1> QED BY <1>2 DEF FirstError

(* Arguments that are accepted name a command.                             *)
LEMMA ArgumentsChecked ==
  ASSUME NEW argv, NEW openable, Args!ArgumentsError(argv, openable) = Fine
  PROVE  argv.command # <<>>
<1> DEFINE errors(b) == <<b.error,
                 Args!Check(argv.command = <<>>, "missing_target"),
                 Args!Check(b.quiet /\ b.log # Args!EmptyText, "quiet_and_log"),
                 Args!Check(~Args!Opens(b.output, openable), "output_file"),
                 Args!Check(~Args!Opens(b.config, openable), "config_file"),
                 Args!Check(~Args!Opens(b.dump, openable), "dump_file"),
                 Args!Check(b.exec # Args!EmptyText /\ b.exec \notin Args!ToSet(argv.command), "invalid_exec")>>
<1>1. PICK a : Args!ArgumentsError(argv, openable) = Args!FirstError(errors(a))
  BY DEF Args!ArgumentsError
<1>2. FirstError(errors(a)) = Fine
  BY <1>1 DEF Args!FirstError, FirstError, Args!Fine, Fine
<1>3. 2 \in DOMAIN errors(a) /\ DOMAIN errors(a) \subseteq Nat
  OBVIOUS
<1>4. errors(a)[2] = Fine
  BY <1>2, <1>3, FirstErrorFine
<1> QED BY <1>4 DEF Args!Check, Fine

(* The steps from stage to stage, errors aside.                            *)
Flow ==
    {<<"arguments", "objects">>, <<"objects", "config">>, <<"config", "fork">>, <<"fork", "readers">>,
     <<"readers", "run">>, <<"readers", "await">>, <<"await", "awaitoptions">>,
     <<"awaitoptions", "awaitsyscall">>, <<"awaitsyscall", "awaitwait">>, <<"awaitwait", "awaitsyscall">>,
     <<"awaitwait", "awaitcont">>, <<"awaitcont", "run">>, <<"run", "idle">>, <<"run", "registers">>,
     <<"idle", "registers">>, <<"registers", "options">>, <<"options", "insert">>, <<"insert", "insert">>,
     <<"insert", "instances">>, <<"instances", "instances">>, <<"instances", "insert">>,
     <<"insert", "collect">>, <<"collect", "collect">>, <<"leave", "done">>}

(* The profiler goes from stage to stage, and each stage loads or makes    *)
(* what is its own.                                                        *)
LEMMA MainFlow ==
  ASSUME Main
  PROVE  /\ stage' = "leave" \/ <<stage, stage'>> \in Flow
         /\ UNCHANGED static
         /\ stage = "arguments" \/ UNCHANGED args
         /\ stage = "objects" \/ UNCHANGED objects
         /\ stage = "config" \/ UNCHANGED config
         /\ stage = "readers" \/ UNCHANGED readers
         /\ stage \in Inserting \/ UNCHANGED todo
         /\ stage \in Inserting \cup {"collect"} \/ UNCHANGED <<table, results>>
         /\ stage = "idle" \/ UNCHANGED idle
         /\ stage = "collect" \/ UNCHANGED printed
<1> USE DEF Flow, Inserting, static, loaded, await, made, Goto, Fail
<1>1. CASE ParseArguments \/ LoadObjects \/ LoadConfig \/ Fork \/ CreateReaders
  BY <1>1 DEF ParseArguments, LoadObjects, LoadConfig, Fork, CreateReaders
<1>2. CASE AwaitFirst \/ RunWait
  <2>1. CASE AwaitFirst
    BY <2>1, FirstWaitStep DEF AwaitFirst
  <2>2. CASE RunWait
    BY <2>2, FirstWaitStep DEF RunWait
  <2> QED BY <1>2, <2>1, <2>2
<1>3. CASE AwaitOptions \/ AwaitResume \/ AwaitContinue \/ Registers \/ SetOptions
  BY <1>3 DEF AwaitOptions, AwaitResume, AwaitContinue, Registers, SetOptions, Request
<1>4. CASE AwaitCall \/ AwaitOther
  <2>1. CASE AwaitCall
    BY <2>1, AwaitCallStep
  <2>2. CASE AwaitOther
    BY <2>2 DEF AwaitOther
  <2> QED BY <1>4, <2>1, <2>2
<1>5. CASE ObtainIdle
  BY <1>5 DEF ObtainIdle
<1>6. CASE InsertSection \/ InsertFunction \/ InsertInlined \/ FunctionInserted
  BY <1>6 DEF InsertSection, InsertFunction, InsertInlined, FunctionInserted, Inserted
<1>7. CASE TraceEnds \/ TraceFails
  BY <1>7 DEF TraceEnds, TraceFails
<1>8. CASE Collect \/ WriteResults \/ Leave
  BY <1>8 DEF Collect, WriteResults, Leave
<1> QED BY <1>1, <1>2, <1>3, <1>4, <1>5, <1>6, <1>7, <1>8 DEF Main

(* A step that is not the profiler's changes the child alone.              *)
LEMMA OtherSteps ==
  ASSUME [Next]_vars, ~Main
  PROVE  /\ UNCHANGED <<static, stage, error, loaded, await, made>>
         /\ Child \/ ChildKilled \/ UNCHANGED child
BY DEF Next, Child, ChildKilled, Finished, vars, static, loaded, await, made

(* Every step keeps ArgsInv.                                               *)
LEMMA ArgsStep ==
  ASSUME ArgsInv, [Next]_vars
  PROVE  ArgsInv'
<1>1. CASE ParseArguments
  BY <1>1, ArgumentsChecked DEF ParseArguments, ArgsInv, Ended, Goto, Fail, static
<1>2. CASE Main /\ ~ParseArguments
  <2>1. stage # "arguments"
    BY <1>2, MainFlow DEF Main, LoadObjects, LoadConfig, Fork, CreateReaders, AwaitFirst, FirstWait, AwaitOptions,
       AwaitResume, AwaitCall, AwaitOther, AwaitContinue, RunWait, ObtainIdle, Registers, SetOptions, InsertSection,
       InsertFunction, InsertInlined, FunctionInserted, TraceEnds, TraceFails, Collect, WriteResults, Leave,
       Request, Goto
  <2> QED BY <1>2, <2>1, MainFlow DEF ArgsInv, Ended, Flow, static
<1>3. CASE ~Main
  BY <1>3, OtherSteps DEF ArgsInv, static, loaded
<1> QED BY <1>1, <1>2, <1>3

(* The target does not change once the arguments are parsed.               *)
LEMMA TargetStep ==
  ASSUME [Next]_vars, stage # "arguments"
  PROVE  /\ args' = args /\ CommandBehaves' = CommandBehaves
         /\ Args!same_target(args)' = Args!same_target(args)
<1>1. args' = args /\ scenario' = scenario
  BY MainFlow, OtherSteps DEF static, loaded
<1> QED BY <1>1 DEF CommandBehaves

(* Traps are put in the code by insertion only.                            *)
LEMMA ArmedStep ==
  ASSUME TableInv, [Next]_vars, stage \notin Inserting
  PROVE  table'.armed = table.armed
<1>1. CASE Collect
  BY <1>1 DEF Collect, TableInv, GoodTable, IsTable
<1>2. CASE Main /\ stage # "collect"
  BY <1>2, MainFlow
<1>3. CASE Main /\ stage = "collect" /\ ~Collect
  <2>1. WriteResults
    BY <1>3 DEF Main, ParseArguments, LoadObjects, LoadConfig, Fork, CreateReaders, AwaitFirst, FirstWait,
         AwaitOptions,
       AwaitResume, AwaitCall, AwaitOther, AwaitContinue, RunWait, ObtainIdle, Registers, SetOptions, InsertSection,
       InsertFunction, InsertInlined, FunctionInserted, TraceEnds, TraceFails, Leave,
       Request, Goto
  <2> QED BY <2>1 DEF WriteResults
<1>4. CASE ~Main
  BY <1>4, OtherSteps DEF made
<1> QED BY <1>1, <1>2, <1>3, <1>4

(* Every step keeps KillInv.                                               *)
LEMMA KillStep ==
  ASSUME KillInv, TypeOK, ChildInv, TableInv, ConfigInv, [Next]_vars
  PROVE  KillInv'
<1> USE DEF Inserting, static, loaded, await, made, Goto, Fail, ChildInv
<1>1. CASE ParseArguments \/ LoadObjects \/ LoadConfig \/ CreateReaders
  BY <1>1 DEF ParseArguments, LoadObjects, LoadConfig, CreateReaders, KillInv, Ended
<1>2. CASE Fork
  <2>1. table.armed = {}
    BY <1>2 DEF Fork, ConfigInv, EmptyTable, Started
  <2> QED BY <1>2, <2>1 DEF Fork, KillInv
<1>3. CASE AwaitFirst \/ RunWait
  <2>1. PICK from \in {"await", "run"}, to \in {"awaitoptions", "idle", "registers"} : FirstWait(from, to)
    BY <1>3 DEF AwaitFirst, RunWait
  <2>2. Wait /\ UNCHANGED table /\ stage' \in {"leave", "awaitoptions", "idle", "registers"} /\ stage = from
    BY <2>1, FirstWaitStep
  <2> QED BY <2>2 DEF Wait, KillInv, Ended
<1>4. CASE AwaitOptions \/ AwaitResume \/ AwaitContinue \/ Registers \/ SetOptions
  <2>1. table.armed = {}
    BY <1>4 DEF AwaitOptions, AwaitResume, AwaitContinue, Registers, SetOptions, Request, ConfigInv, EmptyTable,
       Followed, Ready
  <2> QED BY <1>4, <2>1 DEF AwaitOptions, AwaitResume, AwaitContinue, Registers, SetOptions, Request, KillInv, Ended
<1>5. CASE AwaitCall
  <2>1. stage = "awaitwait" /\ Wait /\ UNCHANGED table /\ stage' \in {"leave", "awaitcont", "awaitsyscall"}
    BY <1>5, AwaitCallStep
  <2> QED BY <2>1 DEF Wait, KillInv, Ended
<1>6. CASE AwaitOther \/ ObtainIdle
  BY <1>6 DEF AwaitOther, Wait, ObtainIdle, KillInv, Ended
<1>7. CASE InsertSection \/ InsertFunction \/ InsertInlined \/ FunctionInserted
  BY <1>7 DEF InsertSection, InsertFunction, InsertInlined, FunctionInserted, Inserted, KillInv, Ended
<1>8. CASE TraceEnds
  BY <1>8 DEF TraceEnds, KillInv
<1>9. CASE TraceFails
  BY <1>9 DEF TraceFails, KillInv, Ended
<1>10. CASE Collect \/ WriteResults
  <2>1. table'.armed = table.armed /\ child' = child /\ stage = "collect"
    BY <1>10, ArmedStep DEF Collect, WriteResults, Next, Main
  <2> QED BY <1>10, <2>1 DEF Collect, WriteResults, KillInv, Ended
<1>11. CASE Leave
  BY <1>11 DEF Leave, KillInv
<1>12. CASE ~Main
  <2>1. /\ child'.exitkill = child.exitkill /\ (child'.st = "detached" => child.st = "detached")
        /\ child'.st = "running" => child.st = "running"
    BY <1>12, OtherSteps DEF Child, ChildEnters, ChildReturns, ChildCalls, ChildTraps, ChildReceives, ChildExits,
       ChildKilled, Executed, Stopped
  <2> QED BY <1>12, <2>1, OtherSteps DEF KillInv
<1> QED BY <1>1, <1>2, <1>3, <1>4, <1>5, <1>6, <1>7, <1>8, <1>9, <1>10, <1>11, <1>12 DEF Main

(* A child at its target's first stop does not go on by itself.            *)
LEMMA ExecutingStep ==
  ASSUME ChildInv, Child \/ ChildKilled, args' = args, Alive, Executing
  PROVE  Executing' \/ ~Alive'
BY DEF Child, ChildEnters, ChildReturns, ChildCalls, ChildTraps, ChildReceives, ChildExits,
   ChildKilled, Stopped, Executing, OnTarget, Alive, ChildInv

(* The first call of a child that does not ask for system call stops       *)
(* executes the target.                                                    *)
LEMMA UntouchedStep ==
  ASSUME ArgsInv, ChildInv, scenario \in Scenarios, Child \/ ChildKilled, args' = args, Untouched,
         CommandBehaves, Args!same_target(args), stage \in {"readers", "run"}
  PROVE  Executing' \/ ~Alive'
<1>0. /\ child.script = scenario.script /\ child.call = Nothing
      /\ ~child.trap /\ ~child.syscalls
  BY DEF Untouched, NoChild
<1>1. CASE ChildCalls
  <2>1. scenario.script # <<>> /\ Head(scenario.script).kind # "signal"
    BY <1>0, <1>1 DEF ChildCalls
  <2>2. scenario.argv.command # <<>> /\ args = Args!Arguments(scenario.argv)
    BY DEF ArgsInv, Ended
  <2>3. Head(scenario.script).kind = "exec" /\ Head(scenario.script).file = scenario.argv.command[1]
    BY <2>1, <2>2, ScenarioFacts
  <2>4. args.target = scenario.argv.command[1]
    BY <2>2 DEF Args!same_target, Args!Arguments
  <2>5. Head(scenario.script) \in ToSet(scenario.script)
    BY <2>1, SequenceTail, ScenarioFacts
  <2>6. Head(scenario.script).works
    BY <2>3, <2>4, <2>5, ScriptCalls DEF Matches
  <2> QED BY <1>0, <1>1, <2>3, <2>4, <2>6 DEF ChildCalls, Executed, Executing, OnTarget, Untouched, NoChild
<1>2. CASE ChildReceives
  <2>1. scenario.script # <<>> /\ Head(scenario.script).kind = "signal"
    BY <1>0, <1>2 DEF ChildReceives
  <2>2. Head(scenario.script) = scenario.script[1]
    BY <2>1, ScenarioFacts DEF IsSequence
  <2> QED BY <2>1, <2>2 DEF CommandBehaves
<1>3. CASE ChildExits \/ ChildKilled
  BY <1>3 DEF ChildExits, ChildKilled, Alive, ChildInv
<1>4. ~ChildEnters
  BY <1>0 DEF ChildEnters
<1>5. ~ChildReturns
  BY <1>0 DEF ChildReturns
<1>6. ~ChildTraps
  BY <1>0 DEF ChildTraps
<1> QED BY <1>1, <1>2, <1>3, <1>4, <1>5, <1>6 DEF Child

(* The child's steps keep ImageInv.                                        *)
LEMMA ImageChildStep ==
  ASSUME ImageInv, ArgsInv, ChildInv, KillInv, ConfigInv, scenario \in Scenarios, Child \/ ChildKilled
  PROVE  ImageInv'
<1>1. UNCHANGED <<static, stage, error, loaded, await, made>>
  BY DEF Child, ChildKilled
<1>2. stage' = stage /\ table' = table /\ args' = args /\ scenario' = scenario
  BY <1>1 DEF static, loaded, made
<1>3. CommandBehaves' = CommandBehaves /\ Args!same_target(args)' = Args!same_target(args)
  BY <1>2 DEF CommandBehaves
<1>4. CASE child.st # "running"
  <2>1. child'.image = child.image /\ ~Alive'
    BY <1>4 DEF Child, ChildEnters, ChildReturns, ChildCalls, ChildTraps, ChildReceives, ChildExits,
       ChildKilled, Alive, ChildInv
  <2> QED BY <1>2, <1>3, <2>1 DEF ImageInv, OnTarget
<1>5. CASE child.st = "running"
  <2>1. stage \in {"readers", "await", "awaitwait", "run"} \cup Ended /\ table.armed = {}
    BY <1>5 DEF ChildInv, KillInv
  <2>2. Alive
    BY <1>5 DEF Alive
  <2>3. CASE stage \in {"await", "awaitwait"} \cup Ended
    BY <1>2, <2>1, <2>3 DEF ImageInv, Ended, Ready, Inserting
  <2>4. CASE stage \in {"readers", "run"} /\ CommandBehaves /\ Args!same_target(args)
    BY <1>2, <1>3, <2>1, <2>2, <2>4, ExecutingStep, UntouchedStep DEF ImageInv, Ready, Inserting
  <2>5. CASE stage \in {"readers", "run"} /\ CommandBehaves /\ ~Args!same_target(args)
    BY <1>2, <1>3, <2>1, <2>2, <2>5, ExecutingStep DEF ImageInv, Ready, Inserting
  <2>6. CASE stage \in {"readers", "run"} /\ ~CommandBehaves
    BY <1>2, <1>3, <2>6 DEF ImageInv
  <2> QED BY <2>1, <2>3, <2>4, <2>5, <2>6
<1> QED BY <1>4, <1>5

(* The profiler's steps keep ImageInv.                                     *)
LEMMA ImageMainStep ==
  ASSUME ImageInv, AwaitInv, ArgsInv, ChildInv, ConfigInv, TableInv, TypeOK, scenario \in Scenarios, Main
  PROVE  ImageInv'
<1> USE DEF Started, Followed, Ready, Inserting, Ended, Flow
<1>1. CASE stage = "arguments"
  <2>1. table' = EmptyTable /\ stage' \in {"objects", "leave"}
    BY <1>1, MainFlow DEF ConfigInv
  <2> QED BY <2>1 DEF ImageInv, EmptyTable
<1>2. CASE stage # "arguments"
  <2>1. args' = args /\ CommandBehaves' = CommandBehaves /\ Args!same_target(args)' = Args!same_target(args)
    BY <1>2, TargetStep DEF Next
  <2> SUFFICES ASSUME CommandBehaves PROVE ImageInv'
    BY <2>1 DEF ImageInv
  <2>2. stage \in Started \cup Followed \cup Ready => table'.armed = {}
    BY MainFlow DEF ConfigInv, EmptyTable
  <2>3. CASE stage \in {"objects", "config"}
    BY <2>2, <2>3, MainFlow DEF ImageInv
  <2>4. CASE Fork
    <3>1. stage = "fork" /\ stage' \in {"leave", "readers"} /\ scenario' = scenario
      BY <2>4 DEF Fork, Goto, Fail, static
    <3>2. stage' = "readers" => child' = [NoChild EXCEPT !.st = "running", !.image = "profiler",
            !.script = scenario.script]
      BY <2>4 DEF Fork, Goto, Fail
    <3>3. stage' = "readers" => Untouched'
      BY <3>1, <3>2 DEF Untouched, NoChild
    <3> QED BY <2>1, <2>2, <3>1, <3>3 DEF ImageInv
  <2>5. CASE CreateReaders
    <3>1. child' = child /\ stage = "readers" /\ stage' \in {"leave", "run", "await"} /\ scenario' = scenario
      BY <2>5, MainFlow DEF CreateReaders, Goto, Fail, static
    <3>2. stage' = "run" => Args!same_target(args)
      BY <2>5 DEF CreateReaders, Goto, Fail
    <3> QED BY <2>1, <2>2, <3>1, <3>2 DEF ImageInv, Alive, Untouched, Executing, OnTarget
  <2>6. CASE stage \in {"await", "awaitoptions", "awaitsyscall"}
    BY <2>2, <2>6, MainFlow DEF ImageInv
  <2>7. CASE AwaitCall
    <3>1. stage = "awaitwait" /\ child.event = "syscall" /\ Wait
            /\ stage' \in {"leave", "awaitsyscall", "awaitcont"}
      BY <2>7, AwaitCallStep DEF Goto, Fail
    <3>2. child'.st = child.st /\ child'.image = child.image /\ child'.trap = child.trap
      BY <3>1 DEF Wait, ChildInv
    <3>3. stage' = "awaitcont" => matched
      BY <2>7, AwaitCallStep DEF Goto, Fail
    <3>4. Alive
      BY <3>1 DEF Alive, IsStop, ChildInv, TypeOK
    <3> QED BY <2>1, <2>2, <3>1, <3>2, <3>3, <3>4 DEF ImageInv, AwaitInv, OnTarget, Alive
  <2>8. CASE AwaitOther
    BY <2>1, <2>2, <2>8 DEF AwaitOther, Goto, Fail, ImageInv
  <2>9. CASE AwaitContinue
    <3>1. stage = "awaitcont" /\ stage' \in {"leave", "run"}
      BY <2>9 DEF AwaitContinue, Request, Goto, Fail
    <3>2. stage' = "run" => child.st = "stopped" /\ child'.image = child.image /\ child'.trap = child.trap
      BY <2>9 DEF AwaitContinue, Request, Goto, Fail, ChildInv
    <3> QED BY <2>1, <2>2, <3>1, <3>2 DEF ImageInv, OnTarget, Alive, Executing
  <2>10. CASE RunWait
    <3>1. stage = "run" /\ Reported /\ Wait /\ stage' \in {"leave", "idle", "registers"}
      BY <2>10, FirstWaitStep DEF RunWait, Goto, Fail
    <3>2. stage' # "leave" => IsStop(child.event)
      BY <2>10, FirstWaitStep DEF RunWait, Goto, Fail
    <3>3. IsStop(child.event) => child.st = "stopped"
      BY <3>1 DEF IsStop, ChildInv, TypeOK
    <3>4. child'.image = child.image
      BY <3>1 DEF Wait, ChildInv
    <3>5. stage' # "leave" => OnTarget
      BY <3>1, <3>2, <3>3 DEF ImageInv, Alive, Untouched, Executing, NoChild
    <3> QED BY <2>1, <2>2, <3>1, <3>4, <3>5 DEF ImageInv, OnTarget
  <2>11. CASE ObtainIdle \/ Registers \/ SetOptions
    <3>1. child'.image = child.image /\ stage \in Ready /\ stage' \in Ready \cup Inserting \cup {"leave"}
      BY <2>11 DEF ObtainIdle, Registers, SetOptions, Request, ChildInv, Goto, Fail
    <3> QED BY <2>1, <2>2, <3>1 DEF ImageInv, OnTarget
  <2>12. CASE stage \in Inserting
    <3>1. child'.image = child.image
      BY <2>12 DEF Main, ParseArguments, LoadObjects, LoadConfig, Fork, CreateReaders, AwaitFirst, FirstWait,
           AwaitOptions,
       AwaitResume, AwaitCall, AwaitOther, AwaitContinue, RunWait, ObtainIdle, Registers, SetOptions, InsertSection,
       InsertFunction, InsertInlined, FunctionInserted, Inserted, TraceEnds, TraceFails, Collect, WriteResults,
         Leave,
       Request, Goto, ChildInv
    <3> QED BY <2>1, <2>12, <3>1, MainFlow DEF ImageInv, OnTarget
  <2>13. CASE Collect \/ WriteResults \/ Leave
    <3>1. child'.image = child.image /\ stage \in {"collect", "leave"} /\ stage' \in {"collect", "leave", "done"}
      BY <2>13 DEF Collect, WriteResults, Leave, Goto, ChildInv
    <3>2. table'.armed = table.armed
      BY <3>1, ArmedStep DEF Next
    <3> QED BY <2>1, <3>1, <3>2 DEF ImageInv, OnTarget
  <2> QED BY <1>2, <2>3, <2>4, <2>5, <2>6, <2>7, <2>8, <2>9, <2>10, <2>11, <2>12, <2>13
       DEF Main, ParseArguments, LoadObjects, LoadConfig, AwaitFirst, FirstWait, AwaitOptions, AwaitResume,
             Request, Goto,
           InsertSection, InsertFunction, InsertInlined, FunctionInserted, TraceEnds, TraceFails
<1> QED BY <1>1, <1>2

(* The domain and the elements of a sequence.                              *)
LEMMA SequenceFacts ==
  ASSUME NEW s, IsSequence(s)
  PROVE  /\ Len(s) \in Nat /\ DOMAIN s = 1..Len(s) /\ s = [i \in DOMAIN s |-> s[i]]
         /\ s = <<>> <=> Len(s) = 0
         /\ \A i \in DOMAIN s : s[i] \in ToSet(s)
<1>1. s \in Seq(ToSet(s))
  BY DEF IsSequence
<1>2. Len(s) \in Nat /\ DOMAIN s = 1..Len(s) /\ s \in [1..Len(s) -> ToSet(s)]
  BY <1>1, LenProperties
<1>3. s = <<>> <=> Len(s) = 0
  BY <1>1, EmptySeq
<1> QED BY <1>2, <1>3

(* A function on the domain of a sequence is a sequence.                   *)
LEMMA SequenceLike ==
  ASSUME NEW s, IsSequence(s), NEW t, t = [i \in DOMAIN s |-> t[i]]
  PROVE  IsSequence(t) /\ (t = <<>> <=> s = <<>>)
<1>1. Len(s) \in Nat /\ DOMAIN s = 1..Len(s) /\ (s = <<>> <=> Len(s) = 0)
  BY SequenceFacts
<1>2. t \in [1..Len(s) -> ToSet(t)]
  BY <1>1 DEF ToSet
<1>3. t \in Seq(ToSet(t)) /\ DOMAIN t = DOMAIN s
  BY <1>1, <1>2, SeqDef
<1>4. IsSequence(t)
  BY <1>3 DEF IsSequence
<1>5. Len(t) = Len(s)
  BY <1>1, <1>3, <1>4, SequenceFacts
<1> QED BY <1>1, <1>4, <1>5, SequenceFacts

(* As FirstErrorFine, of the configuration's errors.                       *)
LEMMA ConfigErrors ==
  ASSUME NEW errors, DOMAIN errors \subseteq Nat, Cfg!FirstError(errors) = Fine
  PROVE  \A i \in DOMAIN errors : errors[i] = Fine
<1>1. FirstError(errors) = Fine
  BY DEF Cfg!FirstError, FirstError, Cfg!Fine, Fine
<1> QED BY <1>1, FirstErrorFine

(* Labels none of which is taken are different.                            *)
LEMMA LabelsDistinct ==
  ASSUME NEW s, IsSequence(s), \A i \in DOMAIN s : ~Cfg!LabelTaken(Cfg!LabelsOf(s), i)
  PROVE  \A i, j \in DOMAIN s : s[i].label = s[j].label => i = j
<1> SUFFICES ASSUME NEW i \in DOMAIN s, NEW j \in DOMAIN s, j < i, s[i].label = s[j].label PROVE FALSE
  BY SequenceFacts
<1>1. j \in 1..(i - 1)
  BY SequenceFacts
<1>2. Cfg!LabelsOf(s)[i] = s[i].label /\ Cfg!LabelsOf(s)[j] = s[j].label
  BY DEF Cfg!LabelsOf
<1> QED BY <1>1, <1>2 DEF Cfg!LabelTaken

(* A group without error has sections, with labels of their own.           *)
LEMMA GroupAccepted ==
  ASSUME NEW n, NEW c, IsSequence(n.sections), Cfg!GroupError(n, c) = Fine
  PROVE  /\ n.sections # <<>>
         /\ \A i, j \in DOMAIN n.sections : n.sections[i].label = n.sections[j].label => i = j
<1> DEFINE two(i) == <<Cfg!SectionError(n.sections[i], c),
                       Cfg!Check(Cfg!LabelTaken(Cfg!LabelsOf(n.sections), i), "sec_label_already_exists")>>
           sections == [i \in DOMAIN n.sections |-> Cfg!FirstError(two(i))]
           errors == <<Cfg!Check(n.label = Cfg!Empty, "group_invalid_label"),
                       Cfg!Check(n.extra = Cfg!Empty, "group_invalid_extra"),
                       Cfg!FirstError(sections), Cfg!Check(n.sections = <<>>, "group_empty")>>
<1>1. Cfg!FirstError(errors) = Fine
  BY DEF Cfg!GroupError
<1>2. errors[3] = Fine /\ errors[4] = Fine
  <2>1. DOMAIN errors \subseteq Nat /\ 3 \in DOMAIN errors /\ 4 \in DOMAIN errors
    OBVIOUS
  <2> HIDE DEF errors
  <2> QED BY <1>1, <2>1, ConfigErrors
<1>3. n.sections # <<>>
  BY <1>2 DEF Cfg!Check, Fine
<1>4. \A i \in DOMAIN n.sections : sections[i] = Fine
  <2>1. DOMAIN sections = DOMAIN n.sections /\ DOMAIN sections \subseteq Nat /\ Cfg!FirstError(sections) = Fine
    BY <1>2, SequenceFacts
  <2> HIDE DEF sections
  <2> QED BY <2>1, ConfigErrors
<1>5. ASSUME NEW i \in DOMAIN n.sections PROVE ~Cfg!LabelTaken(Cfg!LabelsOf(n.sections), i)
  <2>1. Cfg!FirstError(two(i)) = Fine
    BY <1>4
  <2>2. DOMAIN two(i) \subseteq Nat /\ 2 \in DOMAIN two(i)
    OBVIOUS
  <2>3. two(i)[2] = Fine
    <3> HIDE DEF two
    <3> QED BY <2>1, <2>2, ConfigErrors
  <2> QED BY <2>3 DEF Cfg!Check, Cfg!Fine, Fine
<1> QED BY <1>3, <1>5, LabelsDistinct

(* A configuration without error is a good one.                            *)
LEMMA ConfigAccepted ==
  ASSUME NEW doc, NEW c, IsSequence(doc.groups), \A g \in ToSet(doc.groups) : IsSequence(g.sections),
         Cfg!ConfigError(doc, c) = Fine, config' = Cfg!ConfigValue(doc, c)
  PROVE  ConfigGood'
<1> DEFINE two(i) == <<Cfg!GroupError(doc.groups[i], c),
                       Cfg!Check(Cfg!LabelTaken(Cfg!LabelsOf(doc.groups), i), "group_label_already_exists")>>
           groups == [i \in DOMAIN doc.groups |-> Cfg!FirstError(two(i))]
           errors == <<Cfg!ParseError(doc.status), Cfg!Check(~doc.hasConfig, "config_no_config"),
                       Cfg!ParamsError(doc.params), Cfg!FirstError(groups)>>
<1>1. Cfg!FirstError(errors) = Fine
  BY DEF Cfg!ConfigError
<1>2. errors[4] = Fine
  <2>1. DOMAIN errors \subseteq Nat /\ 4 \in DOMAIN errors
    OBVIOUS
  <2> HIDE DEF errors
  <2> QED BY <1>1, <2>1, ConfigErrors
<1>4. \A i \in DOMAIN doc.groups : groups[i] = Fine
  <2>1. DOMAIN groups = DOMAIN doc.groups /\ DOMAIN groups \subseteq Nat /\ Cfg!FirstError(groups) = Fine
    BY <1>2, SequenceFacts
  <2> HIDE DEF groups
  <2> QED BY <2>1, ConfigErrors
<1>5. ASSUME NEW i \in DOMAIN doc.groups
      PROVE  Cfg!GroupError(doc.groups[i], c) = Fine /\ ~Cfg!LabelTaken(Cfg!LabelsOf(doc.groups), i)
  <2>1. Cfg!FirstError(two(i)) = Fine
    BY <1>4
  <2>2. DOMAIN two(i) \subseteq Nat /\ 1 \in DOMAIN two(i) /\ 2 \in DOMAIN two(i)
    OBVIOUS
  <2>3. two(i)[1] = Fine /\ two(i)[2] = Fine
    <3> HIDE DEF two
    <3> QED BY <2>1, <2>2, ConfigErrors
  <2> QED BY <2>3 DEF Cfg!Check, Cfg!Fine, Fine
<1>6. /\ config'.groups = [i \in DOMAIN doc.groups |-> Cfg!GroupValue(doc.groups[i], c)]
      /\ DOMAIN config'.groups = DOMAIN doc.groups
  BY DEF Cfg!ConfigValue
<1>7. IsSequence(config'.groups)
  BY <1>6, SequenceLike
<1>8. ASSUME NEW g \in DOMAIN config'.groups
      PROVE  /\ config'.groups[g].label = doc.groups[g].label
             /\ IsSequence(Sections(g)') /\ Sections(g)' # <<>>
             /\ DOMAIN Sections(g)' = DOMAIN doc.groups[g].sections
             /\ \A s, t \in DOMAIN Sections(g)' : Sections(g)'[s].label = Sections(g)'[t].label => s = t
  <2>1. g \in DOMAIN doc.groups /\ config'.groups[g] = Cfg!GroupValue(doc.groups[g], c)
    BY <1>6
  <2>2. /\ config'.groups[g].label = doc.groups[g].label
        /\ Sections(g)' = [i \in DOMAIN doc.groups[g].sections |-> Cfg!SectionValue(doc.groups[g].sections[i], c)]
    BY <2>1 DEF Cfg!GroupValue, Sections
  <2>3. doc.groups[g] \in ToSet(doc.groups)
    BY <2>1, SequenceFacts
  <2>4. IsSequence(doc.groups[g].sections) /\ Cfg!GroupError(doc.groups[g], c) = Fine
    BY <1>5, <2>1, <2>3
  <2>5. \A s \in DOMAIN doc.groups[g].sections : Sections(g)'[s].label = doc.groups[g].sections[s].label
    BY <2>2 DEF Cfg!SectionValue
  <2>6. DOMAIN Sections(g)' = DOMAIN doc.groups[g].sections
    BY <2>2
  <2>7. Sections(g)' = [i \in DOMAIN doc.groups[g].sections |-> Sections(g)'[i]]
    BY <2>2
  <2>8. doc.groups[g].sections # <<>>
    BY <2>4, GroupAccepted
  <2>9. IsSequence(Sections(g)') /\ Sections(g)' # <<>>
    BY <2>4, <2>7, <2>8, SequenceLike
  <2>10. \A i, j \in DOMAIN doc.groups[g].sections :
            doc.groups[g].sections[i].label = doc.groups[g].sections[j].label => i = j
    BY <2>4, GroupAccepted
  <2>11. \A s, t \in DOMAIN Sections(g)' : Sections(g)'[s].label = Sections(g)'[t].label => s = t
    <3> SUFFICES ASSUME NEW s \in DOMAIN Sections(g)', NEW t \in DOMAIN Sections(g)',
                        Sections(g)'[s].label = Sections(g)'[t].label
                 PROVE  s = t
      OBVIOUS
    <3>1. s \in DOMAIN doc.groups[g].sections /\ t \in DOMAIN doc.groups[g].sections
      BY <2>6
    <3>2. doc.groups[g].sections[s].label = doc.groups[g].sections[t].label
      BY <2>5, <3>1
    <3> QED BY <2>10, <3>1, <3>2
  <2> QED BY <2>2, <2>6, <2>9, <2>11
<1>9. \A g, h \in DOMAIN config'.groups : config'.groups[g].label = config'.groups[h].label => g = h
  <2>1. \A g, h \in DOMAIN doc.groups : doc.groups[g].label = doc.groups[h].label => g = h
    <3>1. \A i \in DOMAIN doc.groups : ~Cfg!LabelTaken(Cfg!LabelsOf(doc.groups), i)
      BY <1>5
    <3> QED BY <3>1, LabelsDistinct
  <2> SUFFICES ASSUME NEW g \in DOMAIN config'.groups, NEW h \in DOMAIN config'.groups,
                      config'.groups[g].label = config'.groups[h].label
               PROVE  g = h
    OBVIOUS
  <2>2. config'.groups[g].label = doc.groups[g].label /\ config'.groups[h].label = doc.groups[h].label
    BY <1>8
  <2>3. g \in DOMAIN doc.groups /\ h \in DOMAIN doc.groups
    BY <1>6
  <2> QED BY <2>1, <2>2, <2>3
<1> QED BY <1>7, <1>8, <1>9 DEF ConfigGood

(* Every step keeps ConfigInv.                                             *)
LEMMA ConfigStep ==
  ASSUME ConfigInv, TodoInv, TypeOK, scenario \in Scenarios, [Next]_vars
  PROVE  ConfigInv'
<1> USE DEF Started, Followed, Ready, Inserting, Ended, Flow
<1>1. CASE LoadConfig
  <2>1. UNCHANGED <<table, todo>> /\ stage = "config"
    BY <1>1 DEF LoadConfig, Goto, Fail, made
  <2>2. stage' # "leave" => ConfigGood'
    BY <1>1, ConfigAccepted, ScenarioFacts DEF LoadConfig, Goto, Fail
  <2>3. stage' \in {"leave", "fork"}
    BY <1>1 DEF LoadConfig, Goto, Fail
  <2> QED BY <2>1, <2>2, <2>3 DEF ConfigInv
<1>2. CASE Main /\ ~LoadConfig
  <2>1. config' = config
    BY <1>2 DEF Main, ParseArguments, LoadObjects, Fork, CreateReaders, AwaitFirst, FirstWait, AwaitOptions,
       AwaitResume, AwaitCall, AwaitOther, AwaitContinue, RunWait, ObtainIdle, Registers, SetOptions, InsertSection,
       InsertFunction, InsertInlined, FunctionInserted, Inserted, TraceEnds, TraceFails, Collect, WriteResults,
         Leave,
       Request, Goto, Fail, loaded
  <2>2. ConfigGood' = ConfigGood
    BY <2>1 DEF ConfigGood, Sections
  <2>3. stage # "config"
    BY <1>2 DEF Main, ParseArguments, LoadObjects, Fork, CreateReaders, AwaitFirst, FirstWait, AwaitOptions,
       AwaitResume, AwaitCall, AwaitOther, AwaitContinue, RunWait, ObtainIdle, Registers, SetOptions, InsertSection,
       InsertFunction, InsertInlined, FunctionInserted, TraceEnds, TraceFails, Collect, WriteResults, Leave,
       Request, Goto
  <2> QED BY <1>2, <2>2, <2>3, MainFlow DEF ConfigInv
<1>3. CASE ~Main
  BY <1>3, OtherSteps DEF ConfigInv, ConfigGood, Sections, loaded, made
<1> QED BY <1>1, <1>2, <1>3

(* What a step of the profiler is during insertion.                        *)
LEMMA InsertionSteps ==
  ASSUME Main, stage \in Inserting, TypeOK
  PROVE  \/ TraceEnds \/ TraceFails
         \/ InsertSection \/ InsertFunction \/ InsertInlined \/ FunctionInserted
BY DEF Inserting, Main, ParseArguments, LoadObjects, LoadConfig, Fork, CreateReaders, AwaitFirst, FirstWait,
         AwaitOptions,
       AwaitResume, AwaitCall, AwaitOther, AwaitContinue, RunWait, ObtainIdle, Registers, SetOptions,
       Collect, WriteResults, Leave, Request, Goto

(* The loops begin at the first section of the first group.                *)
LEMMA FirstInDomain ==
  ASSUME NEW s, IsSequence(s)
  PROVE  \A i \in Nat \ {0} : i \in DOMAIN s <=> i <= Len(s)
BY SequenceFacts

(* The cursor goes to a section, or past the last group.                   *)
LEMMA NextInDomain ==
  ASSUME TodoInv, ConfigGood, stage \in Inserting, ~AllInserted
  PROVE  /\ NextSection = AtSection(NextSection.group, NextSection.section)
         /\ NextSection.group \in Nat \ {0} /\ NextSection.section \in Nat \ {0}
         /\ NextSection.group <= Len(config.groups) =>
               /\ NextSection.group \in DOMAIN config.groups
               /\ NextSection.section \in DOMAIN Sections(NextSection.group)
<1>0. todo.group \in DOMAIN config.groups /\ todo.section \in DOMAIN Sections(todo.group)
      /\ todo.group \in Nat \ {0} /\ todo.section \in Nat \ {0}
  BY DEF TodoInv
<1>1. IsSequence(config.groups)
  BY DEF ConfigGood
<1>2. CASE todo.section < Len(Sections(todo.group))
  <2>1. NextSection = AtSection(todo.group, todo.section + 1)
    BY <1>2 DEF NextSection
  <2>2. todo.section + 1 \in DOMAIN Sections(todo.group)
    BY <1>0, <1>2, FirstInDomain, SequenceFacts DEF ConfigGood
  <2> QED BY <2>1, <2>2, <1>0 DEF AtSection
<1>3. CASE ~(todo.section < Len(Sections(todo.group)))
  <2>1. NextSection = AtSection(todo.group + 1, 1)
    BY <1>3 DEF NextSection
  <2>2. todo.group + 1 <= Len(config.groups) => todo.group + 1 \in DOMAIN config.groups
    BY <1>0, <1>1, FirstInDomain
  <2>3. ASSUME todo.group + 1 \in DOMAIN config.groups
        PROVE  1 \in DOMAIN Sections(todo.group + 1)
    BY <2>3, SequenceFacts DEF ConfigGood
  <2> QED BY <2>1, <2>2, <2>3, <1>0 DEF AtSection
<1> QED BY <1>2, <1>3

(* Every step keeps TodoInv.                                               *)
LEMMA TodoStep ==
  ASSUME TodoInv, ConfigInv, TableInv, TypeOK, [Next]_vars
  PROVE  TodoInv'
<1> USE DEF Started, Followed, Ready, Inserting, Ended, Flow
<1>1. CASE Main /\ stage \notin Inserting
  <2>1. todo' = todo
    BY <1>1, MainFlow
  <2>2. CASE stage = "options"
    <3>1. todo = AtSection(1, 1) /\ config' = config /\ ConfigGood
      BY <1>1, <2>2, MainFlow DEF ConfigInv
    <3>2. IsSequence(config.groups) /\ \A g \in DOMAIN config.groups : IsSequence(Sections(g)) /\ Sections(g) # <<>>
      BY <3>1 DEF ConfigGood
    <3>3. ~(1 > Len(config.groups)) => 1 \in DOMAIN config.groups /\ 1 \in DOMAIN Sections(1)
      BY <3>2, SequenceFacts
    <3>4. stage' \in {"leave", "insert"}
      BY <1>1, <2>2, MainFlow
    <3>5. todo'.group = 1 /\ todo'.section = 1 /\ todo'.inserted \in BOOLEAN
      BY <2>1, <3>1 DEF AtSection
    <3>6. AllInserted' <=> 1 > Len(config.groups)
      BY <3>1, <3>5 DEF AllInserted
    <3>7. Sections(1)' = Sections(1)
      BY <3>1 DEF Sections
    <3> QED BY <2>1, <3>1, <3>3, <3>4, <3>5, <3>6, <3>7 DEF TodoInv
  <2>3. CASE stage = "collect"
    <3>1. config' = config /\ stage' \in {"collect", "leave"}
      BY <1>1, <2>3, MainFlow
    <3> QED BY <2>1, <2>3, <3>1 DEF TodoInv, AllInserted
  <2>4. CASE stage \notin {"options", "collect"}
    <3>1. stage' \notin Inserting \cup {"collect"}
      BY <1>1, <2>4, MainFlow
    <3> QED BY <2>1, <3>1 DEF TodoInv
  <2> QED BY <2>2, <2>3, <2>4
<1>2. CASE Main /\ stage \in Inserting
  <2>1. config' = config /\ ConfigGood
    BY <1>2, MainFlow DEF ConfigInv
  <2>2. CASE TraceEnds \/ TraceFails
    BY <2>1, <2>2 DEF TraceEnds, TraceFails, Goto, Fail, TodoInv, AllInserted
  <2>3. CASE stage' = "leave" /\ todo' = todo
    BY <2>3 DEF TodoInv
  <2>4. CASE ~AllInserted /\ todo' = NextSection /\ stage' \in {"insert", "leave"}
    <3>1. /\ todo'.group \in Nat \ {0} /\ todo'.section \in Nat \ {0}
             /\ todo' = AtSection(todo'.group, todo'.section)
          /\ todo'.group <= Len(config.groups) =>
               /\ todo'.group \in DOMAIN config.groups
               /\ todo'.section \in DOMAIN Sections(todo'.group)
      BY <1>2, <2>1, <2>4, NextInDomain
    <3>2. todo' = [group |-> todo'.group, section |-> todo'.section, instances |-> todo'.instances,
                   inserted |-> todo'.inserted] /\ todo'.inserted \in BOOLEAN
      <4>1. PICK g, s : todo' = AtSection(g, s)
        BY <3>1
      <4> QED BY <4>1 DEF AtSection
    <3>3. ~AllInserted' => todo'.group <= Len(config.groups)
      <4>1. Len(config.groups) \in Nat
        BY <2>1, SequenceFacts DEF ConfigGood
      <4>2. ~AllInserted' => ~(todo'.group > Len(config.groups))
        BY <2>1 DEF AllInserted
      <4> QED BY <3>1, <4>1, <4>2
    <3>5. Sections(todo.group)' = Sections(todo'.group)
      BY <2>1 DEF Sections
    <3>6. stage' # "instances" /\ stage' # "collect"
      BY <2>4
    <3>7. stage' \in Inserting /\ ~AllInserted' =>
             todo'.group \in DOMAIN config'.groups /\ todo'.section \in DOMAIN Sections(todo.group)'
      BY <2>1, <3>1, <3>3, <3>5
    <3> QED BY <3>1, <3>2, <3>6, <3>7 DEF TodoInv
  <2>5. CASE /\ ~AllInserted /\ stage' \in {"instances", "leave"} /\ todo'.inserted \in BOOLEAN
             /\ todo' = [todo EXCEPT !.instances = todo'.instances, !.inserted = todo'.inserted]
    <3>1. /\ todo'.group = todo.group /\ todo'.section = todo.section
          /\ todo' = [group |-> todo'.group, section |-> todo'.section, instances |-> todo'.instances,
                      inserted |-> todo'.inserted]
      <4>1. todo'.group = todo.group /\ todo'.section = todo.section
        BY <2>5 DEF TodoInv
      <4>2. todo' = [group |-> todo.group, section |-> todo.section, instances |-> todo'.instances,
                     inserted |-> todo'.inserted]
        BY <2>5 DEF TodoInv
      <4> QED BY <4>1, <4>2
    <3>2. AllInserted' = AllInserted /\ Sections(todo.group)' = Sections(todo.group)
      BY <2>1, <3>1 DEF AllInserted, Sections
    <3>3. stage' \in Inserting /\ ~AllInserted' =>
             todo'.group \in DOMAIN config'.groups /\ todo'.section \in DOMAIN Sections(todo.group)'
      BY <1>2, <2>1, <2>5, <3>1, <3>2 DEF TodoInv
    <3> QED BY <1>2, <2>5, <3>1, <3>2, <3>3 DEF TodoInv
  <2>6. CASE InsertSection
    <3>1. ~AllInserted /\ todo' = NextSection /\ stage' \in {"insert", "leave"}
      BY <2>6 DEF InsertSection, Inserted
    <3> QED BY <3>1, <2>4
  <2>7. CASE InsertFunction
    <3>1. ~AllInserted /\ ((stage' = "leave" /\ todo' = todo) \/
             (\E i, b : /\ todo' = [todo EXCEPT !.instances = i, !.inserted = b] /\ b \in BOOLEAN
                       /\ stage' \in {"instances", "leave"}))
      BY <2>7 DEF InsertFunction, Inserted, Fail
    <3>2. CASE stage' = "leave" /\ todo' = todo
      BY <2>3, <3>2
    <3>3. ASSUME NEW i, NEW b \in BOOLEAN, todo' = [todo EXCEPT !.instances = i, !.inserted = b]
          PROVE  todo' = [todo EXCEPT !.instances = todo'.instances, !.inserted = todo'.inserted]
                 /\ todo'.inserted \in BOOLEAN
      BY <3>3 DEF TodoInv
    <3> QED BY <3>1, <3>2, <3>3, <2>5
  <2>8. CASE InsertInlined
    <3>1. stage = "instances" /\ ~AllInserted /\ stage' \in {"instances", "leave"}
      BY <2>8 DEF InsertInlined, Inserted, TodoInv
    <3>2. todo' = [todo EXCEPT !.instances = Tail(todo.instances),
                               !.inserted = todo.inserted \/ CanProfile(Head(todo.instances))]
      BY <2>8 DEF InsertInlined, Inserted
    <3>3. todo' = [todo EXCEPT !.instances = todo'.instances, !.inserted = todo'.inserted]
          /\ todo'.inserted \in BOOLEAN
      BY <3>2 DEF TodoInv
    <3> QED BY <3>1, <3>3, <2>5
  <2>9. CASE FunctionInserted
    <3>1. ~AllInserted /\ ((stage' = "leave" /\ todo' = todo) \/ (todo' = NextSection
            /\ stage' \in {"insert", "leave"}))
      BY <2>9 DEF FunctionInserted, Inserted, Fail, TodoInv
    <3> QED BY <3>1, <2>3, <2>4
  <2> QED BY <1>2, <2>2, <2>6, <2>7, <2>8, <2>9, InsertionSteps
<1>3. CASE ~Main
  BY <1>3, OtherSteps DEF TodoInv, AllInserted, Sections, loaded, made
<1> QED BY <1>1, <1>2, <1>3

(* A longer sequence: its domain and its elements.                         *)
LEMMA AppendIsSequence ==
  ASSUME NEW s, IsSequence(s), NEW e
  PROVE  /\ IsSequence(Append(s, e)) /\ Len(Append(s, e)) = Len(s) + 1
         /\ \A i \in DOMAIN s : i \in DOMAIN Append(s, e) /\ Append(s, e)[i] = s[i]
         /\ Append(s, e)[Len(s) + 1] = e
         /\ DOMAIN Append(s, e) = DOMAIN s \cup {Len(s) + 1}
<1> DEFINE S == ToSet(s) \cup {e}
<1>1. Len(s) \in Nat /\ DOMAIN s = 1..Len(s) /\ s = [i \in DOMAIN s |-> s[i]]
        /\ \A i \in DOMAIN s : s[i] \in ToSet(s)
  BY SequenceFacts
<1>2. s \in [1..Len(s) -> S]
  BY <1>1
<1>3. s \in Seq(S)
  BY <1>1, <1>2, SeqDef
<1>4. e \in S
  OBVIOUS
<1>5. /\ Append(s, e) \in Seq(S) /\ Len(Append(s, e)) = Len(s) + 1
      /\ \A i \in 1..Len(s) : Append(s, e)[i] = s[i]
      /\ Append(s, e)[Len(s) + 1] = e
  <2> HIDE DEF S
  <2> QED BY <1>3, <1>4, AppendProperties
<1>6. IsSequence(Append(s, e))
  BY <1>5, SequenceOf
<1> QED BY <1>1, <1>5, <1>6, SequenceFacts

(* find_or_insert() finds an entry with the label, if there is one.        *)
LEMMA IndexOfLabel ==
  ASSUME NEW entries, IsSequence(entries), NEW label
  PROVE  \/ /\ IndexOf(entries, label) \in DOMAIN entries
            /\ entries[IndexOf(entries, label)].label = label
         \/ IndexOf(entries, label) = Len(entries) + 1
<1> DEFINE I == {i \in 1..Len(entries) : entries[i].label = label}
<1>1. Len(entries) \in Nat /\ DOMAIN entries = 1..Len(entries)
  BY SequenceFacts
<1>2. SelectInSeq(entries, LAMBDA e : e.label = label) = IF I # {} THEN Min(I) ELSE 0
  BY DEF SelectInSeq
<1>3. CASE I # {}
  <2>1. \E i \in I : \A j \in I : i <= j
    <3>1. I \subseteq Nat
      BY <1>1
    <3> HIDE DEF I
    <3> QED BY <1>3, <3>1, LeastOf
  <2>2. Min(I) \in I
    BY <2>1 DEF Min
  <2> QED BY <1>1, <1>2, <1>3, <2>2 DEF IndexOf
<1>4. CASE I = {}
  BY <1>2, <1>4 DEF IndexOf
<1> QED BY <1>3, <1>4

(* find_or_insert() keeps the entries there are, and afterwards has one    *)
(* with the label.                                                         *)
LEMMA WithEntryFacts ==
  ASSUME NEW entries, IsSequence(entries), NEW new
  PROVE  /\ IsSequence(WithEntry(entries, new))
         /\ IndexOf(entries, new.label) \in DOMAIN WithEntry(entries, new)
         /\ WithEntry(entries, new)[IndexOf(entries, new.label)].label = new.label
         /\ \A i \in DOMAIN entries : i \in DOMAIN WithEntry(entries, new)
            /\ WithEntry(entries, new)[i] = entries[i]
         /\ \A i \in DOMAIN WithEntry(entries, new) : i \in DOMAIN entries \/ WithEntry(entries, new)[i] = new
<1>1. Len(entries) \in Nat /\ DOMAIN entries = 1..Len(entries)
  BY SequenceFacts
<1>2. CASE IndexOf(entries, new.label) \in DOMAIN entries /\ entries[IndexOf(entries, new.label)].label = new.label
  <2>1. ~(IndexOf(entries, new.label) > Len(entries))
    BY <1>1, <1>2
  <2>2. WithEntry(entries, new) = entries
    BY <2>1, Zenon DEF WithEntry
  <2> QED BY <1>2, <2>2, Zenon
<1>3. CASE IndexOf(entries, new.label) = Len(entries) + 1
  <2>1. IndexOf(entries, new.label) > Len(entries)
    BY <1>1, <1>3
  <2>2. WithEntry(entries, new) = Append(entries, new)
    BY <2>1, Zenon DEF WithEntry
  <2>3. /\ IsSequence(Append(entries, new))
        /\ \A i \in DOMAIN entries : i \in DOMAIN Append(entries, new) /\ Append(entries, new)[i] = entries[i]
        /\ Append(entries, new)[Len(entries) + 1] = new
        /\ DOMAIN Append(entries, new) = DOMAIN entries \cup {Len(entries) + 1}
    BY AppendIsSequence
  <2>4. IndexOf(entries, new.label) \in DOMAIN Append(entries, new)
    BY <1>3, <2>3
  <2>5. Append(entries, new)[IndexOf(entries, new.label)].label = new.label
    BY <1>3, <2>3
  <2>6. \A i \in DOMAIN Append(entries, new) : i \in DOMAIN entries \/ Append(entries, new)[i] = new
    BY <2>3
  <2> QED BY <2>2, <2>3, <2>4, <2>5, <2>6, Zenon
<1>4. \/ /\ IndexOf(entries, new.label) \in DOMAIN entries
         /\ entries[IndexOf(entries, new.label)].label = new.label
      \/ IndexOf(entries, new.label) = Len(entries) + 1
  BY IndexOfLabel
<1> QED BY <1>2, <1>3, <1>4

(* A new group of the output.                                              *)
GroupEntry(group) == [label |-> group.label, extra |-> group.extra, sections |-> <<>>]

(* A new section of the output.                                            *)
SectionEntry(section, devices) ==
    [label |-> section.label, extra |-> section.extra, devices |-> devices, executions |-> <<>>]

(* The output with an entry for a group and a section.                     *)
GrownOutput(groups, group, section, devices) ==
    [WithEntry(groups, GroupEntry(group)) EXCEPT
        ![IndexOf(groups, group.label)].sections = WithEntry(@, SectionEntry(section, devices))]

(* Where that entry is.                                                    *)
PlaceIn(groups, group, section) ==
    LET g == IndexOf(groups, group.label) IN
    <<g, IndexOf(WithEntry(groups, GroupEntry(group))[g].sections, section.label)>>

(* The empty sequence is one.                                              *)
LEMMA EmptyIsSequence == IsSequence(<<>>)
BY EmptySeq DEF IsSequence

(* The groups of the grown output: the old ones in their places, and one   *)
(* for the group.                                                          *)
LEMMA GrownGroups ==
  ASSUME NEW groups, IsOutput(groups), NEW group
  PROVE  /\ IsOutput(WithEntry(groups, GroupEntry(group)))
         /\ IndexOf(groups, group.label) \in DOMAIN WithEntry(groups, GroupEntry(group))
         /\ WithEntry(groups, GroupEntry(group))[IndexOf(groups, group.label)].label = group.label
         /\ \A h \in DOMAIN groups : /\ h \in DOMAIN WithEntry(groups, GroupEntry(group))
                                     /\ WithEntry(groups, GroupEntry(group))[h] = groups[h]
         /\ \A h \in DOMAIN WithEntry(groups, GroupEntry(group)) :
               h \in DOMAIN groups \/ WithEntry(groups, GroupEntry(group))[h].sections = <<>>
<1> DEFINE new == GroupEntry(group)
           grown == WithEntry(groups, new)
           g == IndexOf(groups, group.label)
<1>1. new.label = group.label /\ new.sections = <<>> /\ new = [label |-> new.label, extra |-> new.extra,
        sections |-> new.sections]
  BY DEF GroupEntry
<1>2. IsSequence(groups)
  BY DEF IsOutput
<1>3. /\ IsSequence(grown) /\ g \in DOMAIN grown /\ grown[g].label = group.label
      /\ \A h \in DOMAIN groups : h \in DOMAIN grown /\ grown[h] = groups[h]
      /\ \A h \in DOMAIN grown : h \in DOMAIN groups \/ grown[h] = new
  <2>1. IndexOf(groups, new.label) = g
    BY <1>1
  <2> HIDE DEF new
  <2>2. /\ IsSequence(WithEntry(groups, new))
        /\ IndexOf(groups, new.label) \in DOMAIN WithEntry(groups, new)
        /\ WithEntry(groups, new)[IndexOf(groups, new.label)].label = new.label
        /\ \A h \in DOMAIN groups : h \in DOMAIN WithEntry(groups, new) /\ WithEntry(groups, new)[h] = groups[h]
        /\ \A h \in DOMAIN WithEntry(groups, new) : h \in DOMAIN groups \/ WithEntry(groups, new)[h] = new
    BY <1>2, WithEntryFacts
  <2> QED BY <1>1, <2>1, <2>2
<1>4. ASSUME NEW h \in DOMAIN grown
      PROVE  /\ grown[h] = [label |-> grown[h].label, extra |-> grown[h].extra, sections |-> grown[h].sections]
             /\ IsSequence(grown[h].sections)
             /\ \A s \in DOMAIN grown[h].sections :
                   LET e == grown[h].sections[s] IN
                   /\ e = [label |-> e.label, extra |-> e.extra, devices |-> e.devices,
                           executions |-> e.executions]
                   /\ IsSequence(e.executions)
  <2>1. CASE h \in DOMAIN groups
    BY <1>3, <2>1 DEF IsOutput
  <2>2. CASE grown[h] = new
    <3>1. grown[h].sections = <<>> /\ DOMAIN grown[h].sections = {}
      BY <1>1, <2>2
    <3>2. grown[h] = [label |-> grown[h].label, extra |-> grown[h].extra, sections |-> grown[h].sections]
      BY <1>1, <2>2
    <3> QED BY <3>1, <3>2, EmptyIsSequence
  <2> QED BY <1>3, <2>1, <2>2
<1>5. IsOutput(grown)
  BY <1>3, <1>4 DEF IsOutput
<1> QED BY <1>1, <1>3, <1>5

(* The sections of the grown output: the old ones in their places with     *)
(* their results, and one for the section.                                 *)
LEMMA GrownSections ==
  ASSUME NEW groups, IsOutput(groups), NEW group, NEW section, NEW devices
  PROVE  LET r == GrownOutput(groups, group, section, devices)
             p == PlaceIn(groups, group, section)
         IN  /\ IsOutput(r)
             /\ p = <<p[1], p[2]>> /\ p[1] \in DOMAIN r /\ p[2] \in DOMAIN r[p[1]].sections
             /\ r[p[1]].label = group.label /\ r[p[1]].sections[p[2]].label = section.label
             /\ \A h \in DOMAIN groups : /\ h \in DOMAIN r /\ r[h].label = groups[h].label
                                         /\ \A s \in DOMAIN groups[h].sections :
                                               /\ s \in DOMAIN r[h].sections
                                               /\ r[h].sections[s] = groups[h].sections[s]
             /\ \A h \in DOMAIN r : \A s \in DOMAIN r[h].sections :
                   \/ h \in DOMAIN groups /\ s \in DOMAIN groups[h].sections
                   \/ r[h].label = group.label /\ r[h].sections[s] = SectionEntry(section, devices)
<1> DEFINE grown == WithEntry(groups, GroupEntry(group))
           g == IndexOf(groups, group.label)
           old == grown[g].sections
           new == SectionEntry(section, devices)
           secs == WithEntry(old, new)
           i == IndexOf(old, section.label)
           r == GrownOutput(groups, group, section, devices)
<1>1. /\ IsOutput(grown) /\ g \in DOMAIN grown /\ grown[g].label = group.label
      /\ \A h \in DOMAIN groups : h \in DOMAIN grown /\ grown[h] = groups[h]
      /\ \A h \in DOMAIN grown : h \in DOMAIN groups \/ grown[h].sections = <<>>
  <2>1. IsOutput(grown)
    BY GrownGroups
  <2>2. g \in DOMAIN grown
    BY GrownGroups
  <2>3. grown[g].label = group.label
    BY GrownGroups
  <2>4. \A h \in DOMAIN groups : h \in DOMAIN grown /\ grown[h] = groups[h]
    BY GrownGroups
  <2>5. \A h \in DOMAIN grown : h \in DOMAIN groups \/ grown[h].sections = <<>>
    BY GrownGroups
  <2> QED BY <2>1, <2>2, <2>3, <2>4, <2>5
<1>2. new.label = section.label /\ new.executions = <<>> /\
      new = [label |-> new.label, extra |-> new.extra, devices |-> new.devices, executions |-> new.executions]
  BY DEF SectionEntry
<1>3. IsSequence(old) /\ IsSequence(grown)
  BY <1>1 DEF IsOutput
<1>4. /\ IsSequence(secs) /\ i \in DOMAIN secs /\ secs[i].label = section.label
      /\ \A s \in DOMAIN old : s \in DOMAIN secs /\ secs[s] = old[s]
      /\ \A s \in DOMAIN secs : s \in DOMAIN old \/ secs[s] = new
  <2>1. IndexOf(old, new.label) = i
    BY <1>2
  <2> HIDE DEF new, old
  <2>2. /\ IsSequence(WithEntry(old, new))
        /\ IndexOf(old, new.label) \in DOMAIN WithEntry(old, new)
        /\ WithEntry(old, new)[IndexOf(old, new.label)].label = new.label
        /\ \A h \in DOMAIN old : h \in DOMAIN WithEntry(old, new) /\ WithEntry(old, new)[h] = old[h]
        /\ \A h \in DOMAIN WithEntry(old, new) : h \in DOMAIN old \/ WithEntry(old, new)[h] = new
    BY <1>3, WithEntryFacts
  <2> QED BY <1>2, <2>1, <2>2
<1>5. r = [grown EXCEPT ![g].sections = secs]
  BY DEF GrownOutput
<1>6. grown[g] = [label |-> grown[g].label, extra |-> grown[g].extra, sections |-> grown[g].sections]
  BY <1>1 DEF IsOutput
<1>7. /\ DOMAIN r = DOMAIN grown
      /\ \A h \in DOMAIN grown : r[h] = IF h = g THEN [grown[g] EXCEPT !.sections = secs] ELSE grown[h]
  <2> HIDE DEF grown, secs, g
  <2> QED BY <1>5
<1>8. r[g] = [label |-> group.label, extra |-> grown[g].extra, sections |-> secs]
  <2>1. r[g] = [grown[g] EXCEPT !.sections = secs]
    BY <1>1, <1>7
  <2> HIDE DEF grown, secs, g, r
  <2> QED BY <1>1, <1>6, <2>1
<1>9. IsSequence(r)
  <2>1. r = [h \in DOMAIN grown |-> r[h]]
    <3> HIDE DEF grown, secs, g
    <3> QED BY <1>5
  <2> QED BY <2>1, <1>3, SequenceLike
<1>10. \A s \in DOMAIN secs :
          /\ secs[s] = [label |-> secs[s].label, extra |-> secs[s].extra, devices |-> secs[s].devices,
                        executions |-> secs[s].executions]
          /\ IsSequence(secs[s].executions)
  <2> SUFFICES ASSUME NEW s \in DOMAIN secs
               PROVE  /\ secs[s] = [label |-> secs[s].label, extra |-> secs[s].extra, devices |-> secs[s].devices,
                                    executions |-> secs[s].executions]
                      /\ IsSequence(secs[s].executions)
    OBVIOUS
  <2>1. CASE s \in DOMAIN old
    <3>1. secs[s] = old[s]
      BY <1>4, <2>1
    <3>2. /\ old[s] = [label |-> old[s].label, extra |-> old[s].extra, devices |-> old[s].devices,
                        executions |-> old[s].executions]
          /\ IsSequence(old[s].executions)
      BY <1>1, <2>1 DEF IsOutput
    <3> QED BY <3>1, <3>2
  <2>2. CASE secs[s] = new
    BY <1>2, <2>2, EmptyIsSequence
  <2> QED BY <1>4, <2>1, <2>2
<1>11. IsOutput(r)
  <2> SUFFICES ASSUME NEW h \in DOMAIN r
               PROVE  /\ r[h] = [label |-> r[h].label, extra |-> r[h].extra, sections |-> r[h].sections]
                      /\ IsSequence(r[h].sections)
                      /\ \A s \in DOMAIN r[h].sections :
                            LET e == r[h].sections[s] IN
                            /\ e = [label |-> e.label, extra |-> e.extra, devices |-> e.devices,
                                    executions |-> e.executions]
                            /\ IsSequence(e.executions)
    BY <1>9 DEF IsOutput
  <2>1. CASE h = g
    <3> HIDE DEF grown, secs, g, r
    <3> QED BY <1>4, <1>8, <1>10, <2>1
  <2>2. CASE h # g
    <3>1. r[h] = grown[h] /\ h \in DOMAIN grown
      BY <1>7, <2>2
    <3> HIDE DEF grown, secs, g, r
    <3> QED BY <1>1, <3>1 DEF IsOutput
  <2> QED BY <2>1, <2>2
<1>12. ASSUME NEW h \in DOMAIN groups
       PROVE  /\ h \in DOMAIN r /\ r[h].label = groups[h].label
              /\ \A s \in DOMAIN groups[h].sections :
                    s \in DOMAIN r[h].sections /\ r[h].sections[s] = groups[h].sections[s]
  <2>1. h \in DOMAIN r /\ h \in DOMAIN grown /\ grown[h] = groups[h]
    BY <1>1, <1>7
  <2>2. CASE h = g
    <3> HIDE DEF grown, secs, g, r
    <3> QED BY <1>1, <1>4, <1>8, <2>1, <2>2
  <2>3. CASE h # g
    BY <1>7, <2>1, <2>3
  <2> QED BY <2>2, <2>3
<1>13. ASSUME NEW h \in DOMAIN r, NEW s \in DOMAIN r[h].sections
       PROVE  \/ h \in DOMAIN groups /\ s \in DOMAIN groups[h].sections
              \/ r[h].label = group.label /\ r[h].sections[s] = new
  <2>1. h \in DOMAIN grown
    BY <1>7
  <2>2. CASE h = g
    <3>1. r[h].sections = secs /\ r[h].label = group.label
      <4> HIDE DEF grown, secs, g, r
      <4> QED BY <1>8, <2>2
    <3>2. CASE s \in DOMAIN old
      <4>1. old # <<>>
        BY <3>2
      <4>2. h \in DOMAIN groups /\ grown[h] = groups[h]
        BY <1>1, <2>1, <2>2, <4>1
      <4> QED BY <2>2, <3>2, <4>2
    <3>3. CASE secs[s] = new
      <4> HIDE DEF secs, r, new
      <4> QED BY <3>1, <3>3
    <3> QED BY <1>4, <3>1, <3>2, <3>3
  <2>3. CASE h # g
    <3>1. r[h] = grown[h]
      BY <1>7, <2>1, <2>3
    <3>2. grown[h].sections # <<>>
      BY <3>1
    <3> QED BY <1>1, <2>1, <3>1, <3>2
  <2> QED BY <2>2, <2>3
<1>14. PlaceIn(groups, group, section) = <<g, i>>
  BY DEF PlaceIn
<1>15. /\ g \in DOMAIN r /\ i \in DOMAIN r[g].sections
       /\ r[g].label = group.label /\ r[g].sections[i].label = section.label
  <2> HIDE DEF grown, secs, g, i, r
  <2> QED BY <1>1, <1>4, <1>7, <1>8
<1> DEFINE p == PlaceIn(groups, group, section)
<1>16. p = <<p[1], p[2]>> /\ p[1] = g /\ p[2] = i
  <2> HIDE DEF g, i
  <2> QED BY <1>14
<1> HIDE DEF grown, secs, g, i, r, p
<1>17. /\ p[1] \in DOMAIN r /\ p[2] \in DOMAIN r[p[1]].sections
       /\ r[p[1]].label = group.label /\ r[p[1]].sections[p[2]].label = section.label
  BY <1>15, <1>16
<1> HIDE DEF new
<1>18. \A h \in DOMAIN r : \A s \in DOMAIN r[h].sections :
          \/ h \in DOMAIN groups /\ s \in DOMAIN groups[h].sections
          \/ r[h].label = group.label /\ r[h].sections[s] = SectionEntry(section, devices)
  BY <1>13 DEF new
<1> USE DEF r, p
<1> QED BY <1>11, <1>12, <1>16, <1>17, <1>18, Zenon

(* Start traps that were in the table are in it unchanged.                 *)
Kept(t, r) == \A a \in DOMAIN t.starts : a \in DOMAIN r.starts /\ r.starts[a] = t.starts[a]

(* A table with a start trap more.                                         *)
StartAdded(t, r, a, trap) ==
    /\ IsTable(r) /\ r.groups = t.groups /\ r.places = t.places /\ r.ends = t.ends
    /\ r.error # Fine => r.starts = t.starts
    /\ r.error = Fine => /\ t.error = Fine /\ a \notin DOMAIN t.starts
                         /\ r.starts = With(t.starts, a, trap)
                         /\ r.armed = t.armed \cup {a}

(* A table with an end trap more.                                          *)
EndAdded(t, r, a, start) ==
    /\ IsTable(r) /\ r.groups = t.groups /\ r.places = t.places /\ r.starts = t.starts
    /\ r.error = Fine => /\ t.error = Fine
                         /\ r.ends = With(t.ends, a, start)
                         /\ r.armed = t.armed \cup {a}

(* A table with an output entry for one of its start traps.                *)
OutputAdded(t, r, a) ==
    /\ IsTable(r) /\ Placed(r) /\ r.starts = t.starts /\ r.ends = t.ends /\ r.armed = t.armed
    /\ r.error = Fine => t.error = Fine
    /\ t.error = Fine /\ a \notin DOMAIN t.places => r.error = Fine
    /\ t.error = Fine => DOMAIN r.places = DOMAIN t.places \cup {a}

(* Writing a trap: an error, or one more place armed.                      *)
LEMMA PokeStep ==
  ASSUME NEW t, IsTable(t), NEW o, NEW offset
  PROVE  /\ IsTable(Poke(t, o, offset))
         /\ Poke(t, o, offset).starts = t.starts /\ Poke(t, o, offset).ends = t.ends
         /\ Poke(t, o, offset).places = t.places /\ Poke(t, o, offset).groups = t.groups
         /\ Poke(t, o, offset).error = Fine => /\ t.error = Fine
                                               /\ Poke(t, o, offset).armed = t.armed \cup {o.base + offset}
<1>1. CASE offset < o.mapped
  BY <1>1 DEF Poke, IsTable
<1>2. CASE ~(offset < o.mapped)
  BY <1>2 DEF Poke, Fails, Fine, IsTable
<1> QED BY <1>1, <1>2

(* insert_trap() of a start trap.                                          *)
LEMMA StartStep ==
  ASSUME NEW t, IsTable(t), NEW o, NEW offset, NEW trap
  PROVE  StartAdded(t, InsertStart(t, o, offset, trap), o.base + offset, trap)
<1> DEFINE p == Poke(t, o, offset)
           a == o.base + offset
           r == InsertStart(t, o, offset, trap)
           w == With(t.starts, a, trap)
<1>1. /\ IsTable(p) /\ p.starts = t.starts /\ p.ends = t.ends /\ p.places = t.places /\ p.groups = t.groups
      /\ p.error = Fine => t.error = Fine /\ p.armed = t.armed \cup {a}
  BY PokeStep
<1>2. r = IF t.error # Fine THEN t
          ELSE IF p.error # Fine THEN p
          ELSE IF a \in DOMAIN t.starts THEN Fails(p, "trap_exists")
          ELSE [p EXCEPT !.starts = w]
  BY <1>1 DEF InsertStart
<1>3. w = [x \in DOMAIN w |-> w[x]]
  BY DEF With
<1> HIDE DEF p, a, r, w
<1> SUFFICES StartAdded(t, r, a, trap)
  BY DEF r, a
<1>4. CASE t.error # Fine \/ p.error # Fine
  BY <1>1, <1>2, <1>4 DEF StartAdded
<1>5. CASE t.error = Fine /\ p.error = Fine /\ a \in DOMAIN t.starts
  BY <1>1, <1>2, <1>5 DEF Fails, Fine, IsTable, StartAdded
<1>6. CASE t.error = Fine /\ p.error = Fine /\ a \notin DOMAIN t.starts
  BY <1>1, <1>2, <1>3, <1>6 DEF IsTable, w, StartAdded
<1> QED BY <1>4, <1>5, <1>6

(* insert_trap() of an end trap.                                           *)
LEMMA EndStep ==
  ASSUME NEW t, IsTable(t), NEW o, NEW offset, NEW start
  PROVE  EndAdded(t, InsertEnd(t, o, offset, start), o.base + offset, o.base + start)
<1> DEFINE p == Poke(t, o, offset)
           a == o.base + offset
           r == InsertEnd(t, o, offset, start)
           b == o.base + start
           w == With(t.ends, a, b)
<1>1. /\ IsTable(p) /\ p.starts = t.starts /\ p.ends = t.ends /\ p.places = t.places /\ p.groups = t.groups
      /\ p.error = Fine => t.error = Fine /\ p.armed = t.armed \cup {a}
  BY PokeStep
<1>2. r = IF t.error # Fine THEN t
          ELSE IF p.error # Fine THEN p
          ELSE IF a \in DOMAIN t.ends THEN Fails(p, "trap_exists")
          ELSE [p EXCEPT !.ends = w]
  BY <1>1 DEF InsertEnd
<1>3. w = [x \in DOMAIN w |-> w[x]]
  BY DEF With
<1> HIDE DEF p, a, b, r, w
<1> SUFFICES EndAdded(t, r, a, b)
  BY DEF r, a, b
<1>4. CASE t.error # Fine \/ p.error # Fine
  BY <1>1, <1>2, <1>4 DEF EndAdded
<1>5. CASE t.error = Fine /\ p.error = Fine /\ a \in DOMAIN t.ends
  BY <1>1, <1>2, <1>5 DEF Fails, Fine, IsTable, EndAdded
<1>6. CASE t.error = Fine /\ p.error = Fine /\ a \notin DOMAIN t.ends
  BY <1>1, <1>2, <1>3, <1>6 DEF IsTable, w, EndAdded
<1> QED BY <1>4, <1>5, <1>6

(* The output entry of a start trap.                                       *)
LEMMA OutputStep ==
  ASSUME NEW t, IsTable(t), Placed(t), NEW o, NEW offset, NEW group, NEW section, NEW devices,
         t.error = Fine => /\ o.base + offset \in DOMAIN t.starts
                           /\ t.starts[o.base + offset].group = group
                           /\ t.starts[o.base + offset].section = section
  PROVE  OutputAdded(t, InsertOutput(t, o, offset, group, section, devices), o.base + offset)
<1> DEFINE a == o.base + offset
           r == InsertOutput(t, o, offset, group, section, devices)
           grown == GrownOutput(t.groups, group, section, devices)
           p == PlaceIn(t.groups, group, section)
           w == IF a \in DOMAIN t.places THEN t.places ELSE With(t.places, a, p)
           e == Check(a \in DOMAIN t.places, "trap_exists")
<1>1. CASE t.error # Fine
  <2>1. r = t
    BY <1>1 DEF InsertOutput
  <2> QED BY <1>1, <2>1 DEF OutputAdded, Fine
<1>2. CASE t.error = Fine
  <2>1. r = [t EXCEPT !.groups = grown, !.places = w, !.error = e]
    BY <1>2 DEF InsertOutput, GrownOutput, PlaceIn, GroupEntry, SectionEntry
  <2>2. IsOutput(t.groups) /\ t.places = [x \in DOMAIN t.places |-> t.places[x]]
    BY DEF IsTable
  <2>3. /\ IsOutput(grown)
        /\ p = <<p[1], p[2]>> /\ p[1] \in DOMAIN grown /\ p[2] \in DOMAIN grown[p[1]].sections
        /\ grown[p[1]].label = group.label /\ grown[p[1]].sections[p[2]].label = section.label
        /\ \A h \in DOMAIN t.groups : /\ h \in DOMAIN grown /\ grown[h].label = t.groups[h].label
                                      /\ \A s \in DOMAIN t.groups[h].sections :
                                            /\ s \in DOMAIN grown[h].sections
                                            /\ grown[h].sections[s] = t.groups[h].sections[s]
        /\ \A h \in DOMAIN grown : \A s \in DOMAIN grown[h].sections :
              \/ h \in DOMAIN t.groups /\ s \in DOMAIN t.groups[h].sections
              \/ grown[h].label = group.label /\ grown[h].sections[s] = SectionEntry(section, devices)
    BY <2>2, GrownSections
  <2>13. SectionEntry(section, devices).executions = <<>>
    BY DEF SectionEntry
  <2>4. /\ w = [x \in DOMAIN w |-> w[x]] /\ DOMAIN w = DOMAIN t.places \cup {a}
        /\ \A x \in DOMAIN t.places : w[x] = t.places[x]
        /\ a \notin DOMAIN t.places => w[a] = p
    <3> HIDE DEF a, p
    <3>1. /\ With(t.places, a, p) = [x \in DOMAIN With(t.places, a, p) |-> With(t.places, a, p)[x]]
          /\ DOMAIN With(t.places, a, p) = DOMAIN t.places \cup {a} /\ With(t.places, a, p)[a] = p
          /\ \A x \in DOMAIN t.places : x # a => With(t.places, a, p)[x] = t.places[x]
      BY DEF With
    <3>2. CASE a \in DOMAIN t.places
      BY <2>2, <3>2
    <3>3. CASE a \notin DOMAIN t.places
      BY <3>1, <3>3
    <3> QED BY <3>2, <3>3
  <2>12. a \notin DOMAIN t.places => e = Fine
    BY DEF Check
  <2> SUFFICES OutputAdded(t, r, a)
    OBVIOUS
  <2> HIDE DEF a, r, grown, p, w, e
  <2>5. /\ r = [error |-> e, armed |-> t.armed, starts |-> t.starts, ends |-> t.ends, groups |-> grown,
           places |-> w]
    BY <2>1 DEF IsTable
  <2>6. IsTable(r)
    BY <2>3, <2>4, <2>5 DEF IsTable
  <2>7. a \in DOMAIN t.starts /\ t.starts[a].group = group /\ t.starts[a].section = section
    BY <1>2 DEF a
  <2>8. DOMAIN w \subseteq DOMAIN t.starts
    BY <2>4, <2>7 DEF Placed
  <2>9. ASSUME NEW x \in DOMAIN w
        PROVE  \E g \in DOMAIN grown : \E s \in DOMAIN grown[g].sections :
                  /\ w[x] = <<g, s>>
                  /\ grown[g].label = t.starts[x].group.label
                  /\ grown[g].sections[s].label = t.starts[x].section.label
    <3>1. CASE x \in DOMAIN t.places
      <4>0. PICK g \in DOMAIN t.groups : \E s \in DOMAIN t.groups[g].sections :
               /\ t.places[x] = <<g, s>>
               /\ t.groups[g].label = t.starts[x].group.label
               /\ t.groups[g].sections[s].label = t.starts[x].section.label
        BY <3>1 DEF Placed
      <4>1. PICK s \in DOMAIN t.groups[g].sections :
               /\ t.places[x] = <<g, s>>
               /\ t.groups[g].label = t.starts[x].group.label
               /\ t.groups[g].sections[s].label = t.starts[x].section.label
        BY <4>0
      <4>2. g \in DOMAIN grown /\ s \in DOMAIN grown[g].sections
        BY <2>3
      <4>3. /\ w[x] = <<g, s>>
            /\ grown[g].label = t.starts[x].group.label
            /\ grown[g].sections[s].label = t.starts[x].section.label
        BY <2>3, <2>4, <3>1, <4>1
      <4> QED BY <4>2, <4>3
    <3>2. CASE x \notin DOMAIN t.places
      <4>1. x = a /\ w[x] = p
        BY <2>4, <3>2
      <4> QED BY <2>3, <2>7, <4>1
    <3> QED BY <3>1, <3>2
  <2>10. ASSUME NEW g \in DOMAIN grown, NEW s \in DOMAIN grown[g].sections,
                NEW i \in DOMAIN grown[g].sections[s].executions
         PROVE  /\ grown[g].sections[s].executions[i].range \in DOMAIN w
                /\ w[grown[g].sections[s].executions[i].range] = <<g, s>>
    <3>1. grown[g].sections[s].executions # <<>>
      OBVIOUS
    <3>2. g \in DOMAIN t.groups /\ s \in DOMAIN t.groups[g].sections
      BY <2>3, <2>13, <3>1
    <3>3. grown[g].sections[s] = t.groups[g].sections[s]
      BY <2>3, <3>2
    <3>4. /\ t.groups[g].sections[s].executions[i].range \in DOMAIN t.places
          /\ t.places[t.groups[g].sections[s].executions[i].range] = <<g, s>>
      BY <3>2, <3>3 DEF Placed
    <3> QED BY <2>4, <3>3, <3>4
  <2>11. Placed(r)
    BY <2>5, <2>8, <2>9, <2>10 DEF Placed
  <2> QED BY <1>2, <2>4, <2>5, <2>6, <2>11, <2>12 DEF OutputAdded
<1> QED BY <1>1, <1>2

(* What inserting a section's traps does to the tables: it fails, or the   *)
(* section has a start trap and the tables stay balanced.                  *)
TrapAdded(t, r, section) ==
    GoodTable(r) /\ Kept(t, r) /\ (r.error = Fine => t.error = Fine /\ Balanced(r) /\ HasStart(r, section))

(* Places do not change with the end traps.                                *)
LEMMA PlacedSame ==
  ASSUME NEW t, Placed(t), NEW r, r.places = t.places, r.groups = t.groups, Kept(t, r)
  PROVE  Placed(r)
<1>1. DOMAIN r.places \subseteq DOMAIN r.starts
  BY DEF Placed, Kept
<1>2. ASSUME NEW x \in DOMAIN r.places
      PROVE  \E g \in DOMAIN r.groups : \E s \in DOMAIN r.groups[g].sections :
                /\ r.places[x] = <<g, s>>
                /\ r.groups[g].label = r.starts[x].group.label
                /\ r.groups[g].sections[s].label = r.starts[x].section.label
  <2>1. x \in DOMAIN t.places /\ r.starts[x] = t.starts[x]
    BY DEF Placed, Kept
  <2>2. PICK g \in DOMAIN t.groups : \E s \in DOMAIN t.groups[g].sections :
               /\ t.places[x] = <<g, s>>
               /\ t.groups[g].label = t.starts[x].group.label
               /\ t.groups[g].sections[s].label = t.starts[x].section.label
    BY <2>1 DEF Placed
  <2> QED BY <2>1, <2>2
<1>3. ASSUME NEW g \in DOMAIN r.groups, NEW s \in DOMAIN r.groups[g].sections,
             NEW i \in DOMAIN r.groups[g].sections[s].executions
      PROVE  /\ r.groups[g].sections[s].executions[i].range \in DOMAIN r.places
             /\ r.places[r.groups[g].sections[s].executions[i].range] = <<g, s>>
  <2>1. /\ g \in DOMAIN t.groups /\ s \in DOMAIN t.groups[g].sections
        /\ i \in DOMAIN t.groups[g].sections[s].executions
    OBVIOUS
  <2>2. /\ t.groups[g].sections[s].executions[i].range \in DOMAIN t.places
        /\ t.places[t.groups[g].sections[s].executions[i].range] = <<g, s>>
    BY <2>1 DEF Placed
  <2> QED BY <2>2
<1> QED BY <1>1, <1>2, <1>3 DEF Placed

(* Neither do good tables.                                                 *)
LEMMA GoodSame ==
  ASSUME NEW t, GoodTable(t), NEW r, IsTable(r), r.places = t.places, r.groups = t.groups, r.starts = t.starts
  PROVE  GoodTable(r) /\ Kept(t, r)
<1>1. Kept(t, r)
  BY DEF Kept
<1> QED BY <1>1, PlacedSame DEF GoodTable, Configured

(* A start trap of the configuration keeps the tables good.                *)
LEMMA StartGood ==
  ASSUME NEW t, GoodTable(t), NEW r, NEW a, NEW trap, OfConfig(trap), StartAdded(t, r, a, trap)
  PROVE  /\ GoodTable(r) /\ Kept(t, r)
         /\ r.error = Fine => a \in DOMAIN r.starts /\ r.starts[a] = trap
<1>1. CASE r.error # Fine
  BY <1>1, GoodSame DEF StartAdded
<1>2. CASE r.error = Fine
  <2>1. /\ r.starts = With(t.starts, a, trap) /\ a \notin DOMAIN t.starts
        /\ r.groups = t.groups /\ r.places = t.places /\ IsTable(r)
    BY <1>2 DEF StartAdded
  <2>2. /\ DOMAIN r.starts = DOMAIN t.starts \cup {a} /\ r.starts[a] = trap
        /\ \A x \in DOMAIN t.starts : r.starts[x] = t.starts[x]
    BY <2>1 DEF With
  <2>3. Configured(r)
    BY <2>2 DEF GoodTable, Configured
  <2>4. Placed(r)
    BY <2>1, <2>2, PlacedSame DEF GoodTable, Kept
  <2> QED BY <2>1, <2>2, <2>3, <2>4 DEF GoodTable, Kept
<1> QED BY <1>1, <1>2

(* So does its output entry.                                               *)
LEMMA OutputGood ==
  ASSUME NEW t, GoodTable(t), NEW r, NEW a, OutputAdded(t, r, a)
  PROVE  GoodTable(r) /\ Kept(t, r)
BY DEF OutputAdded, GoodTable, Kept, Configured

(* The traps of a function's entry.                                        *)
LEMMA CallStep ==
  ASSUME NEW t, GoodTable(t), t.error = Fine => Balanced(t), NEW o, NEW offset, NEW trap, OfConfig(trap)
  PROVE  TrapAdded(t, InsertCall(t, o, trap, offset), trap.section)
<1> DEFINE a == o.base + offset
           t1 == InsertStart(t, o, offset, trap)
           r == InsertOutput(t1, o, offset, trap.group, trap.section, trap.devices)
<1>1. StartAdded(t, t1, a, trap)
  BY StartStep DEF GoodTable
<1>2. InsertCall(t, o, trap, offset) = r
  BY DEF InsertCall
<1> HIDE DEF a, t1
<1>3. GoodTable(t1) /\ Kept(t, t1) /\ (t1.error = Fine => a \in DOMAIN t1.starts /\ t1.starts[a] = trap)
  BY <1>1, StartGood
<1>4. OutputAdded(t1, r, a)
  BY <1>3, OutputStep DEF GoodTable, a
<1> HIDE DEF r
<1>5. GoodTable(r) /\ Kept(t1, r)
  BY <1>3, <1>4, OutputGood
<1>6. Kept(t, r)
  BY <1>3, <1>5 DEF Kept
<1>7. ASSUME r.error = Fine
      PROVE  t.error = Fine /\ Balanced(r) /\ HasStart(r, trap.section)
  <2>1. t1.error = Fine /\ t.error = Fine /\ Balanced(t)
    BY <1>1, <1>4, <1>7 DEF StartAdded, OutputAdded
  <2>2. /\ r.starts = t1.starts /\ r.ends = t.ends /\ r.armed = t.armed \cup {a}
        /\ DOMAIN r.places = DOMAIN t.places \cup {a} /\ DOMAIN t1.starts = DOMAIN t.starts \cup {a}
    BY <1>1, <1>4, <2>1 DEF StartAdded, OutputAdded, With
  <2>3. Balanced(r)
    BY <2>1, <2>2 DEF Balanced
  <2> QED BY <1>3, <2>1, <2>2, <2>3 DEF HasStart
<1> QED BY <1>2, <1>5, <1>6, <1>7 DEF TrapAdded

(* The traps of a range.                                                   *)
LEMMA StartEndStep ==
  ASSUME NEW t, GoodTable(t), t.error = Fine => Balanced(t), NEW o, NEW start, NEW end, NEW trap, OfConfig(trap)
  PROVE  TrapAdded(t, InsertOutput(InsertEnd(InsertStart(t, o, start, trap), o, end, start),
                                   o, start, trap.group, trap.section, trap.devices), trap.section)
<1> DEFINE a == o.base + start
           b == o.base + end
           t1 == InsertStart(t, o, start, trap)
           t2 == InsertEnd(t1, o, end, start)
           r == InsertOutput(t2, o, start, trap.group, trap.section, trap.devices)
<1>1. StartAdded(t, t1, a, trap)
  BY StartStep DEF GoodTable
<1> SUFFICES TrapAdded(t, r, trap.section)
  OBVIOUS
<1> HIDE DEF a, b, t1
<1>2. GoodTable(t1) /\ Kept(t, t1) /\ (t1.error = Fine => a \in DOMAIN t1.starts /\ t1.starts[a] = trap)
  BY <1>1, StartGood
<1>3. EndAdded(t1, t2, b, a)
  BY <1>2, EndStep DEF GoodTable, a, b
<1> HIDE DEF t2
<1>4. GoodTable(t2) /\ Kept(t1, t2) /\ (t2.error = Fine => a \in DOMAIN t2.starts /\ t2.starts[a] = trap)
  BY <1>2, <1>3, GoodSame DEF EndAdded
<1>5. OutputAdded(t2, r, a)
  BY <1>4, OutputStep DEF GoodTable, a
<1> HIDE DEF r
<1>6. GoodTable(r) /\ Kept(t2, r)
  BY <1>4, <1>5, OutputGood
<1>7. Kept(t, r)
  BY <1>2, <1>4, <1>6 DEF Kept
<1>8. ASSUME r.error = Fine
      PROVE  t.error = Fine /\ Balanced(r) /\ HasStart(r, trap.section)
  <2>1. t2.error = Fine /\ t1.error = Fine /\ t.error = Fine /\ Balanced(t)
    BY <1>1, <1>3, <1>5, <1>8 DEF StartAdded, EndAdded, OutputAdded
  <2>2. /\ r.starts = t1.starts /\ r.ends = With(t.ends, b, a) /\ r.armed = t.armed \cup {a, b}
        /\ DOMAIN r.places = DOMAIN t.places \cup {a} /\ DOMAIN t1.starts = DOMAIN t.starts \cup {a}
    BY <1>1, <1>3, <1>5, <2>1 DEF StartAdded, EndAdded, OutputAdded, With
  <2>3. /\ DOMAIN r.ends = DOMAIN t.ends \cup {b}
        /\ \A x \in DOMAIN r.ends : r.ends[x] = a \/ (x \in DOMAIN t.ends /\ r.ends[x] = t.ends[x])
    BY <2>2 DEF With
  <2>4. Balanced(r)
    BY <2>1, <2>2, <2>3 DEF Balanced
  <2> QED BY <1>4, <1>5, <2>1, <2>4 DEF HasStart, OutputAdded
<1> QED BY <1>6, <1>7, <1>8 DEF TrapAdded

(* A table with an error is as good as before.                             *)
LEMMA FailsGood ==
  ASSUME NEW t, GoodTable(t), NEW e
  PROVE  GoodTable(Fails(t, e)) /\ Kept(t, Fails(t, e)) /\ Fails(t, e).error = e
<1> DEFINE r == Fails(t, e)
<1>1. /\ IsTable(r) /\ r.places = t.places /\ r.groups = t.groups /\ r.starts = t.starts /\ r.error = e
  BY DEF Fails, GoodTable, IsTable
<1> HIDE DEF r
<1>2. GoodTable(r) /\ Kept(t, r)
  BY <1>1, GoodSame
<1> QED BY <1>1, <1>2 DEF r

(* The traps of a section given by positions.                              *)
LEMMA BoundsStep ==
  ASSUME NEW t, GoodTable(t), t.error = Fine, Balanced(t), NEW o, NEW trap, OfConfig(trap)
  PROVE  TrapAdded(t, InsertBounds(t, o, trap), trap.section)
<1> DEFINE bounds == trap.section.bounds
           start == FoundLine(o, bounds.start)
           end == FoundLine(o, bounds.end)
           started == InsertStart(t, o, start.value[4], trap)
<1>1. TrapAdded(t, InsertRange(t, o, trap, bounds.start, bounds.end), trap.section)
  BY StartEndStep DEF InsertRange
<1>2. TrapAdded(t, InsertPositions(t, o, trap, bounds), trap.section)
  <2>1. StartAdded(t, started, o.base + start.value[4], trap)
    BY StartStep DEF GoodTable
  <2>2. GoodTable(started) /\ Kept(t, started)
    <3> HIDE DEF started, start
    <3> QED BY <2>1, StartGood
  <2>3. \A e : e # Fine => GoodTable(Fails(started, e)) /\ Kept(t, Fails(started, e))
          /\ Fails(started, e).error # Fine
    <3> HIDE DEF started
    <3> QED BY <2>2, FailsGood DEF Kept
  <2>4. \A e : e # Fine => GoodTable(Fails(t, e)) /\ Kept(t, Fails(t, e)) /\ Fails(t, e).error # Fine
    BY FailsGood
  <2>5. TrapAdded(t, InsertOutput(InsertEnd(started, o, end.value[4], start.value[4]),
                          o, start.value[4], trap.group, trap.section, trap.devices), trap.section)
    BY StartEndStep
  <2>6. InsertPositions(t, o, trap, bounds) =
           IF start.error # Fine THEN Fails(t, start.error)
           ELSE IF started.error # Fine THEN started
           ELSE IF end.error # Fine THEN Fails(started, end.error)
           ELSE InsertOutput(InsertEnd(started, o, end.value[4], start.value[4]),
                             o, start.value[4], trap.group, trap.section, trap.devices)
    BY DEF InsertPositions
  <2> HIDE DEF start, end, started, bounds
  <2> QED BY <2>2, <2>3, <2>4, <2>5, <2>6 DEF TrapAdded
<1> QED BY <1>1, <1>2 DEF InsertBounds

(* The traps of a section that is a function.                              *)
LEMMA CallsStep ==
  ASSUME NEW t, GoodTable(t), t.error = Fine, Balanced(t), NEW o, NEW trap, OfConfig(trap),
         trap = [group |-> trap.group, section |-> trap.section, devices |-> trap.devices, symbol |-> trap.symbol],
         NEW symbol
  PROVE  /\ symbol = None => InsertCalls(t, o, trap, symbol) = t
         /\ symbol # None => TrapAdded(t, InsertCalls(t, o, trap, symbol), trap.section)
<1>1. CASE symbol = None
  BY <1>1 DEF InsertCalls
<1>2. CASE symbol # None
  <2> DEFINE named == [trap EXCEPT !.symbol = symbol]
  <2>1. named.group = trap.group /\ named.section = trap.section
    OBVIOUS
  <2>2. InsertCalls(t, o, trap, symbol) = InsertCall(t, o, named, symbol.entrypoint)
    BY <1>2 DEF InsertCalls
  <2> HIDE DEF named
  <2>3. OfConfig(named)
    BY <2>1 DEF OfConfig
  <2>4. TrapAdded(t, InsertCall(t, o, named, symbol.entrypoint), named.section)
    BY <2>3, CallStep
  <2> QED BY <1>2, <2>1, <2>2, <2>4
<1> QED BY <1>1, <1>2

(* The traps of an inlined instance of that function.                      *)
LEMMA InstanceStep ==
  ASSUME NEW t, GoodTable(t), t.error = Fine, Balanced(t), NEW o, NEW trap, OfConfig(trap), NEW instance
  PROVE  /\ ~CanProfile(instance) => InsertInstance(t, o, trap, instance) = t
         /\ CanProfile(instance) => TrapAdded(t, InsertInstance(t, o, trap, instance), trap.section)
<1>1. TrapAdded(t, InsertRange(t, o, trap, CodeOf(instance)[1][1], CodeOf(instance)[1][2]), trap.section)
  BY StartEndStep DEF InsertRange
<1> QED BY <1>1 DEF InsertInstance

(* The trap being inserted is of the section at the cursor.                *)
LEMMA TrapOfConfig ==
  ASSUME TodoInv, stage \in Inserting, ~AllInserted
  PROVE  /\ OfConfig(Trap) /\ Trap.section = Sections(todo.group)[todo.section]
         /\ Trap = [group |-> Trap.group, section |-> Trap.section, devices |-> Trap.devices,
            symbol |-> Trap.symbol]
<1>1. todo.group \in DOMAIN config.groups /\ todo.section \in DOMAIN Sections(todo.group)
  BY DEF TodoInv
<1>2. Trap = [group |-> config.groups[todo.group], section |-> Sections(todo.group)[todo.section],
              devices |-> find(readers, Sections(todo.group)[todo.section].targets), symbol |-> None]
  BY DEF Trap, TrapOf
<1>3. Trap.group = config.groups[todo.group] /\ Trap.section = Sections(todo.group)[todo.section]
  BY <1>2
<1> QED BY <1>1, <1>2, <1>3 DEF OfConfig

(* Sections done stay done.                                                *)
LEMMA DoneKept ==
  ASSUME NEW t, NEW next, SectionsDone(t, next), NEW r, Kept(t, r)
  PROVE  SectionsDone(r, next)
BY DEF SectionsDone, Kept, HasStart

(* When the section at the cursor has a start trap, every section before   *)
(* the next one has.                                                       *)
LEMMA DoneNext ==
  ASSUME TodoInv, ConfigGood, stage \in Inserting, ~AllInserted, NEW t, SectionsDone(t, todo),
         HasStart(t, Sections(todo.group)[todo.section])
  PROVE  SectionsDone(t, NextSection)
<1> SUFFICES ASSUME NEW g \in DOMAIN config.groups, NEW s \in DOMAIN Sections(g),
                    g < NextSection.group \/ (g = NextSection.group /\ s < NextSection.section)
             PROVE  HasStart(t, Sections(g)[s])
  BY DEF SectionsDone
<1>1. /\ todo.group \in DOMAIN config.groups /\ todo.section \in DOMAIN Sections(todo.group)
      /\ IsSequence(config.groups) /\ IsSequence(Sections(g)) /\ IsSequence(Sections(todo.group))
  BY DEF TodoInv, ConfigGood
<1>2. /\ todo.group \in Nat /\ todo.section \in Nat /\ g \in Nat /\ s \in Nat \ {0}
      /\ Len(Sections(todo.group)) \in Nat /\ (g = todo.group => s <= Len(Sections(todo.group)))
  BY <1>1, SequenceFacts DEF TodoInv
<1>3. CASE todo.section < Len(Sections(todo.group))
  <2>1. NextSection.group = todo.group /\ NextSection.section = todo.section + 1
    BY <1>3 DEF NextSection, AtSection
  <2>2. g < todo.group \/ (g = todo.group /\ s < todo.section) \/ (g = todo.group /\ s = todo.section)
    BY <1>2, <2>1
  <2> QED BY <2>2 DEF SectionsDone
<1>4. CASE ~(todo.section < Len(Sections(todo.group)))
  <2>1. NextSection.group = todo.group + 1 /\ NextSection.section = 1
    BY <1>4 DEF NextSection, AtSection
  <2>2. g < todo.group \/ (g = todo.group /\ s < todo.section) \/ (g = todo.group /\ s = todo.section)
    BY <1>2, <1>4, <2>1
  <2> QED BY <2>2 DEF SectionsDone
<1> QED BY <1>3, <1>4

(* What holds of a table holds of an unchanged one.                        *)
LEMMA TableSame ==
  ASSUME config' = config
  PROVE  /\ GoodTable(table)' <=> GoodTable(table')
         /\ Balanced(table)' <=> Balanced(table')
         /\ \A g \in DOMAIN config.groups : Sections(g)' = Sections(g)
         /\ SectionsDone(table, todo)' <=> SectionsDone(table', todo')
BY DEF GoodTable, Configured, OfConfig, Sections, SectionsDone, HasStart, IsTable, Placed, Balanced

(* A table with the result of one execution.                               *)
WithRun(t, r) ==
    [t EXCEPT !.groups = [t.groups EXCEPT
        ![t.places[r.start][1]].sections[t.places[r.start][2]].executions =
            Append(@, [range |-> r.start, samples |-> r.samples])]]

(* An entry of its output is the old one, but for that result.             *)
RunAdded(t, r, g, s, e) ==
    /\ g \in DOMAIN t.groups /\ s \in DOMAIN t.groups[g].sections
    /\ e.label = t.groups[g].sections[s].label /\ e.devices = t.groups[g].sections[s].devices
    /\ \A i \in DOMAIN e.executions :
          \/ e.executions[i] = [range |-> r.start, samples |-> r.samples]
          \/ /\ i \in DOMAIN t.groups[g].sections[s].executions
             /\ e.executions[i] = t.groups[g].sections[s].executions[i]

(* A result goes to the entry of the place of its trap.                    *)
LEMMA WithRunStep ==
  ASSUME NEW t, IsTable(t), Placed(t), NEW r, r.start \in DOMAIN t.places
  PROVE  /\ IsTable(WithRun(t, r)) /\ Placed(WithRun(t, r))
         /\ WithRun(t, r).error = t.error /\ WithRun(t, r).armed = t.armed
         /\ WithRun(t, r).starts = t.starts /\ WithRun(t, r).ends = t.ends /\ WithRun(t, r).places = t.places
         /\ \A g \in DOMAIN WithRun(t, r).groups : WithRun(t, r).groups[g].label = t.groups[g].label
         /\ \A g \in DOMAIN WithRun(t, r).groups : \A s \in DOMAIN WithRun(t, r).groups[g].sections :
               RunAdded(t, r, g, s, WithRun(t, r).groups[g].sections[s])
<1> DEFINE u == WithRun(t, r)
           run == [range |-> r.start, samples |-> r.samples]
<1>1. PICK g \in DOMAIN t.groups : \E s \in DOMAIN t.groups[g].sections : t.places[r.start] = <<g, s>>
  BY DEF Placed
<1>2. PICK s \in DOMAIN t.groups[g].sections : t.places[r.start] = <<g, s>>
  BY <1>1
<1>3. t.places[r.start][1] = g /\ t.places[r.start][2] = s
  BY <1>2
<1> DEFINE old == t.groups[g]
           entry0 == old.sections[s]
           runs == Append(entry0.executions, run)
           entry1 == [entry0 EXCEPT !.executions = runs]
           secs == [old.sections EXCEPT ![s] = entry1]
           new == [old EXCEPT !.sections = secs]
           groups == [t.groups EXCEPT ![g] = new]
<1>4. u = [t EXCEPT !.groups = groups]
  BY <1>3 DEF WithRun
<1> HIDE DEF u
<1>5. /\ IsSequence(t.groups) /\ IsSequence(old.sections) /\ IsSequence(entry0.executions)
      /\ old = [label |-> old.label, extra |-> old.extra, sections |-> old.sections]
      /\ entry0 = [label |-> entry0.label, extra |-> entry0.extra, devices |-> entry0.devices,
                   executions |-> entry0.executions]
  BY DEF IsTable, IsOutput
<1>6. /\ IsSequence(runs) /\ DOMAIN runs = DOMAIN entry0.executions \cup {Len(entry0.executions) + 1}
      /\ \A i \in DOMAIN entry0.executions : runs[i] = entry0.executions[i]
      /\ runs[Len(entry0.executions) + 1] = run
  <2> HIDE DEF entry0, run
  <2> QED BY <1>5, AppendIsSequence
<1>7. entry1 = [label |-> entry0.label, extra |-> entry0.extra, devices |-> entry0.devices, executions |-> runs]
  <2> HIDE DEF entry0, runs
  <2> QED BY <1>5
<1>8. /\ DOMAIN secs = DOMAIN old.sections /\ secs[s] = entry1 /\ secs = [i \in DOMAIN old.sections |-> secs[i]]
      /\ \A i \in DOMAIN old.sections : i # s => secs[i] = old.sections[i]
  <2> HIDE DEF old, entry1
  <2> QED BY <1>2 DEF old
<1>9. IsSequence(secs)
  <2> HIDE DEF secs, old
  <2> QED BY <1>5, <1>8, SequenceLike
<1>10. new = [label |-> old.label, extra |-> old.extra, sections |-> secs]
  <2> HIDE DEF old, secs
  <2> QED BY <1>5
<1>11. /\ DOMAIN groups = DOMAIN t.groups /\ groups[g] = new /\ groups = [i \in DOMAIN t.groups |-> groups[i]]
       /\ \A i \in DOMAIN t.groups : i # g => groups[i] = t.groups[i]
  <2> HIDE DEF new
  <2> QED BY <1>1
<1>12. IsSequence(groups)
  <2> HIDE DEF groups
  <2> QED BY <1>5, <1>11, SequenceLike
<1> HIDE DEF groups, new, secs, entry1, runs, entry0, old, run
<1>13. ASSUME NEW j \in DOMAIN secs
       PROVE  /\ secs[j] = [label |-> secs[j].label, extra |-> secs[j].extra, devices |-> secs[j].devices,
                            executions |-> secs[j].executions]
              /\ IsSequence(secs[j].executions) /\ secs[j].label = old.sections[j].label
              /\ secs[j].devices = old.sections[j].devices
  <2>1. CASE j = s
    <3>1. secs[j] = [label |-> entry0.label, extra |-> entry0.extra, devices |-> entry0.devices,
                     executions |-> runs]
      BY <1>7, <1>8, <2>1
    <3>2. old.sections[j] = entry0
      BY <2>1 DEF entry0
    <3>3. /\ secs[j].label = entry0.label /\ secs[j].extra = entry0.extra /\ secs[j].devices = entry0.devices
          /\ secs[j].executions = runs
      BY <3>1
    <3> QED BY <1>6, <3>1, <3>2, <3>3
  <2>2. CASE j # s
    <3>1. secs[j] = old.sections[j] /\ j \in DOMAIN old.sections
      BY <1>8, <2>2
    <3>2. /\ old.sections[j] = [label |-> old.sections[j].label, extra |-> old.sections[j].extra,
                               devices |-> old.sections[j].devices, executions |-> old.sections[j].executions]
          /\ IsSequence(old.sections[j].executions)
      BY <3>1 DEF old, IsTable, IsOutput
    <3> QED BY <3>1, <3>2
  <2> QED BY <2>1, <2>2
<1>14. ASSUME NEW h \in DOMAIN groups
       PROVE  /\ groups[h] = [label |-> groups[h].label, extra |-> groups[h].extra, sections |-> groups[h].sections]
              /\ IsSequence(groups[h].sections) /\ groups[h].label = t.groups[h].label
              /\ DOMAIN groups[h].sections = DOMAIN t.groups[h].sections
              /\ \A j \in DOMAIN groups[h].sections :
                    LET e == groups[h].sections[j] IN
                    /\ e = [label |-> e.label, extra |-> e.extra, devices |-> e.devices,
                       executions |-> e.executions]
                    /\ IsSequence(e.executions) /\ e.label = t.groups[h].sections[j].label
                    /\ e.devices = t.groups[h].sections[j].devices
  <2>1. CASE h = g
    <3>1. groups[h] = [label |-> old.label, extra |-> old.extra, sections |-> secs]
      BY <1>10, <1>11, <2>1
    <3>2. t.groups[h] = old /\ DOMAIN secs = DOMAIN old.sections
      BY <1>8, <2>1 DEF old
    <3>3. groups[h].sections = secs /\ groups[h].label = old.label /\ groups[h].extra = old.extra
      BY <3>1
    <3> QED BY <1>9, <1>13, <3>1, <3>2, <3>3
  <2>2. CASE h # g
    <3>1. groups[h] = t.groups[h] /\ h \in DOMAIN t.groups
      BY <1>11, <2>2
    <3> QED BY <3>1 DEF IsTable, IsOutput
  <2> QED BY <2>1, <2>2
<1>15. IsOutput(groups)
  BY <1>12, <1>14 DEF IsOutput
<1>16. u = [error |-> t.error, armed |-> t.armed, starts |-> t.starts, ends |-> t.ends, groups |-> groups,
            places |-> t.places]
  BY <1>4 DEF IsTable
<1>17. IsTable(u)
  BY <1>15, <1>16 DEF IsTable
<1>18. ASSUME NEW x \in DOMAIN t.places
       PROVE  \E h \in DOMAIN groups : \E j \in DOMAIN groups[h].sections :
                 /\ t.places[x] = <<h, j>>
                 /\ groups[h].label = t.starts[x].group.label
                 /\ groups[h].sections[j].label = t.starts[x].section.label
  <2>1. PICK h \in DOMAIN t.groups : \E j \in DOMAIN t.groups[h].sections :
                 /\ t.places[x] = <<h, j>>
                 /\ t.groups[h].label = t.starts[x].group.label
                 /\ t.groups[h].sections[j].label = t.starts[x].section.label
    BY DEF Placed
  <2>2. PICK j \in DOMAIN t.groups[h].sections :
                 /\ t.places[x] = <<h, j>>
                 /\ t.groups[h].label = t.starts[x].group.label
                 /\ t.groups[h].sections[j].label = t.starts[x].section.label
    BY <2>1
  <2>3. h \in DOMAIN groups /\ j \in DOMAIN groups[h].sections
    BY <1>11, <1>14
  <2>4. groups[h].label = t.groups[h].label /\ groups[h].sections[j].label = t.groups[h].sections[j].label
    BY <1>14, <2>3
  <2> QED BY <2>2, <2>3, <2>4
<1>21. ASSUME NEW h \in DOMAIN groups, NEW j \in DOMAIN groups[h].sections,
              NEW i \in DOMAIN groups[h].sections[j].executions
       PROVE  \/ h = g /\ j = s /\ groups[h].sections[j].executions[i] = run
              \/ /\ i \in DOMAIN t.groups[h].sections[j].executions
                 /\ groups[h].sections[j].executions[i] = t.groups[h].sections[j].executions[i]
  <2>0. h \in DOMAIN t.groups /\ j \in DOMAIN t.groups[h].sections
    BY <1>11, <1>14
  <2>1. CASE h # g
    BY <1>11, <2>0, <2>1
  <2>2. CASE h = g /\ j # s
    BY <1>8, <1>10, <1>11, <2>0, <2>2 DEF old
  <2>3. CASE h = g /\ j = s
    <3>1. groups[h].sections[j].executions = runs
      BY <1>7, <1>8, <1>10, <1>11, <2>3
    <3>2. t.groups[h].sections[j].executions = entry0.executions
      BY <2>3 DEF old, entry0
    <3>3. i = Len(entry0.executions) + 1 \/ i \in DOMAIN entry0.executions
      BY <1>6, <3>1
    <3> QED BY <1>6, <2>3, <3>1, <3>2, <3>3
  <2> QED BY <2>1, <2>2, <2>3
<1>19. ASSUME NEW h \in DOMAIN groups, NEW j \in DOMAIN groups[h].sections,
              NEW i \in DOMAIN groups[h].sections[j].executions
       PROVE  /\ groups[h].sections[j].executions[i].range \in DOMAIN t.places
              /\ t.places[groups[h].sections[j].executions[i].range] = <<h, j>>
  <2>0. h \in DOMAIN t.groups /\ j \in DOMAIN t.groups[h].sections
    BY <1>11, <1>14
  <2>1. CASE h = g /\ j = s /\ groups[h].sections[j].executions[i] = run
    BY <1>2, <2>1 DEF run
  <2>2. CASE /\ i \in DOMAIN t.groups[h].sections[j].executions
             /\ groups[h].sections[j].executions[i] = t.groups[h].sections[j].executions[i]
    BY <2>0, <2>2 DEF Placed
  <2> QED BY <1>21, <2>1, <2>2
<1>20. Placed(u)
  BY <1>16, <1>18, <1>19 DEF Placed
<1>22. ASSUME NEW h \in DOMAIN groups, NEW j \in DOMAIN groups[h].sections
       PROVE  RunAdded(t, r, h, j, groups[h].sections[j])
  <2>1. /\ h \in DOMAIN t.groups /\ j \in DOMAIN t.groups[h].sections
        /\ groups[h].sections[j].label = t.groups[h].sections[j].label
        /\ groups[h].sections[j].devices = t.groups[h].sections[j].devices
    BY <1>11, <1>14
  <2> QED BY <1>21, <2>1 DEF RunAdded, run
<1> QED BY <1>14, <1>16, <1>17, <1>20, <1>22 DEF u

(* Collecting a result keeps the tables and the results.                   *)
LEMMA CollectStep ==
  ASSUME TableInv, ResultsInv, Collect
  PROVE  /\ GoodTable(table)' /\ table'.error = table.error /\ table'.armed = table.armed
         /\ table'.starts = table.starts /\ table'.ends = table.ends /\ table'.places = table.places
         /\ ResultsInv'
         /\ \/ table' = table
            \/ table' = WithRun(table, Head(results)) /\ Head(results).start \in DOMAIN table.places
<1> DEFINE r == Head(results)
<1>1. stage = "collect" /\ results # <<>> /\ results' = Tail(results) /\ config' = config
  BY DEF Collect, loaded
<1>2. table' = IF ~r.fine THEN [table EXCEPT !.groups = @] ELSE WithRun(table, r)
  BY DEF Collect, Collected, WithRun
<1>3. IsTable(table) /\ Placed(table) /\ DOMAIN table.places = DOMAIN table.starts
  BY <1>1 DEF TableInv, GoodTable, Balanced
<1>4. r \in ToSet(results) /\ IsSequence(Tail(results)) /\ ToSet(Tail(results)) \subseteq ToSet(results)
  BY <1>1, SequenceTail DEF ResultsInv
<1>5. \A x \in ToSet(results) : x.start \in DOMAIN table.starts
  BY DEF ResultsInv, ToSet
<1>6. /\ IsTable(table') /\ Placed(table') /\ table'.error = table.error /\ table'.armed = table.armed
      /\ table'.starts = table.starts /\ table'.ends = table.ends /\ table'.places = table.places
      /\ table' = table \/ (table' = WithRun(table, r) /\ r.start \in DOMAIN table.places)
  <2>1. CASE r.fine
    <3>1. r.start \in DOMAIN table.places
      BY <1>3, <1>4, <1>5
    <3> HIDE DEF r
    <3> QED BY <1>2, <1>3, <2>1, <3>1, WithRunStep
  <2>2. CASE ~r.fine
    <3>1. table' = table
      BY <1>2, <1>3, <2>2 DEF IsTable
    <3> QED BY <1>3, <3>1
  <2> QED BY <2>1, <2>2
<1>7. Configured(table)'
  BY <1>1, <1>6 DEF TableInv, GoodTable, Configured, OfConfig, Sections
<1>8. ResultsInv'
  <2>1. \A i \in DOMAIN Tail(results) : Tail(results)[i] \in ToSet(results)
    BY <1>4 DEF ToSet
  <2> QED BY <1>1, <1>4, <1>5, <1>6, <2>1 DEF ResultsInv
<1> QED BY <1>6, <1>7, <1>8 DEF GoodTable

(* The empty table is a good one.                                          *)
LEMMA EmptyGood ==
  ASSUME NEW t, t = EmptyTable
  PROVE  GoodTable(t) /\ Balanced(t) /\ t.error = Fine
<1>1. /\ t.error = Fine /\ t.armed = {} /\ t.groups = <<>>
      /\ DOMAIN t.starts = {} /\ DOMAIN t.ends = {} /\ DOMAIN t.places = {} /\ DOMAIN t.groups = {}
  BY DEF EmptyTable, NoTraps
<1>2. IsTable(t)
  BY <1>1, EmptyIsSequence DEF EmptyTable, NoTraps, IsTable, IsOutput
<1> QED BY <1>1, <1>2 DEF GoodTable, Configured, Placed, Balanced

(* Nothing is to be done before the first section.                         *)
LEMMA DoneEmpty ==
  ASSUME ConfigGood, NEW t
  PROVE  SectionsDone(t, AtSection(1, 1))
<1> SUFFICES ASSUME NEW g \in DOMAIN config.groups, NEW s \in DOMAIN Sections(g), g < 1 \/ (g = 1 /\ s < 1)
             PROVE  FALSE
  BY DEF SectionsDone, AtSection
<1> QED BY SequenceFacts DEF ConfigGood

(* A section's traps keep the tables good.                                 *)
LEMMA TableAdded ==
  ASSUME TableInv, ConfigInv, TodoInv, stage \in Inserting, ~AllInserted, config' = config,
         TrapAdded(table, table', Trap.section)
  PROVE  /\ GoodTable(table)'
         /\ table'.error = Fine => /\ Balanced(table)'
                                   /\ SectionsDone(table', todo) /\ SectionsDone(table', NextSection)
                                   /\ HasStart(table', Sections(todo.group)[todo.section])
<1>1. GoodTable(table')
  BY DEF TrapAdded
<1>2. GoodTable(table)'
  BY <1>1, TableSame
<1>3. ConfigGood /\ SectionsDone(table, todo)
  BY DEF ConfigInv, TableInv, Inserting, Started, Ended
<1>4. ASSUME table'.error = Fine
      PROVE  /\ Balanced(table)' /\ HasStart(table', Sections(todo.group)[todo.section])
             /\ SectionsDone(table', todo)
  <2>1. Balanced(table') /\ HasStart(table', Trap.section) /\ Kept(table, table')
    BY <1>4 DEF TrapAdded
  <2> QED BY <1>3, <2>1, DoneKept, TableSame, TrapOfConfig
<1> QED BY <1>2, <1>3, <1>4, DoneNext

(* What a step of insertion has to show for TableInv.                      *)
LEMMA TableInsertion ==
  ASSUME TableInv, ConfigInv, TodoInv, config' = config, stage \in Inserting, ~AllInserted,
         \/ table' = table
         \/ TrapAdded(table, table', Trap.section),
         \/ stage' = "leave"
         \/ stage' = "insert" /\ todo' = NextSection /\ table'.error = Fine
            /\ HasStart(table', Sections(todo.group)[todo.section])
         \/ stage' = "instances" /\ todo'.group = todo.group /\ todo'.section = todo.section
            /\ table'.error = Fine /\ (todo'.inserted => HasStart(table', Sections(todo.group)[todo.section]))
  PROVE  TableInv'
<1>1. ConfigGood /\ GoodTable(table) /\ Balanced(table) /\ SectionsDone(table, todo)
  BY DEF ConfigInv, TableInv, Inserting, Started, Ended
<1>2. GoodTable(table)' /\ (table'.error = Fine => Balanced(table)' /\ SectionsDone(table', todo))
  <2>1. CASE table' = table
    BY <1>1, <2>1, TableSame
  <2>2. CASE TrapAdded(table, table', Trap.section)
    BY <2>2, TableAdded
  <2> QED BY <2>1, <2>2
<1>3. CASE stage' = "leave"
  BY <1>2, <1>3 DEF TableInv, Inserting
<1>4. CASE stage' = "insert" /\ todo' = NextSection /\ table'.error = Fine
            /\ HasStart(table', Sections(todo.group)[todo.section])
  <2>1. SectionsDone(table', NextSection)
    BY <1>1, <1>2, <1>4, DoneNext
  <2>2. SectionsDone(table, todo)'
    BY <1>4, <2>1, TableSame
  <2> QED BY <1>2, <1>4, <2>2 DEF TableInv
<1>5. CASE stage' = "instances" /\ todo'.group = todo.group /\ todo'.section = todo.section
            /\ table'.error = Fine /\ (todo'.inserted => HasStart(table', Sections(todo.group)[todo.section]))
  <2>1. SectionsDone(table', todo')
    BY <1>2, <1>5 DEF SectionsDone
  <2>2. SectionsDone(table, todo)'
    BY <2>1, TableSame
  <2>3. todo'.inserted => HasStart(table, Sections(todo.group)[todo.section])'
    BY <1>5 DEF HasStart, Sections
  <2> QED BY <1>2, <1>5, <2>2, <2>3 DEF TableInv
<1> QED BY <1>3, <1>4, <1>5

(* The steps of insertion keep TableInv.                                   *)
LEMMA InsertStep ==
  ASSUME TableInv, ConfigInv, TodoInv, InsertSection \/ InsertFunction \/ InsertInlined \/ FunctionInserted
  PROVE  TableInv'
<1> USE DEF Inserting
<1>1. stage \in Inserting /\ ~AllInserted
  BY DEF InsertSection, InsertFunction, InsertInlined, FunctionInserted, TodoInv
<1>2. config' = config
  BY DEF InsertSection, InsertFunction, InsertInlined, FunctionInserted, Inserted, Fail, loaded
<1>3. GoodTable(table) /\ table.error = Fine /\ Balanced(table)
  BY <1>1 DEF TableInv
<1>4. /\ OfConfig(Trap) /\ Trap.section = Sections(todo.group)[todo.section]
      /\ Trap = [group |-> Trap.group, section |-> Trap.section, devices |-> Trap.devices, symbol |-> Trap.symbol]
  BY <1>1, TrapOfConfig
<1>5. CASE InsertSection
  <2>1. /\ table' = InsertBounds(table, Target, Trap) /\ todo' = NextSection
        /\ stage' = (IF table'.error = Fine THEN "insert" ELSE "leave")
    BY <1>5 DEF InsertSection, Inserted
  <2>2. TrapAdded(table, table', Trap.section)
    BY <1>3, <1>4, <2>1, BoundsStep
  <2>3. table'.error = Fine => HasStart(table', Sections(todo.group)[todo.section])
    BY <1>4, <2>2 DEF TrapAdded
  <2> QED BY <1>1, <1>2, <2>1, <2>2, <2>3, TableInsertion
<1>6. CASE InsertFunction
  <2>1. CASE stage' = "leave" /\ table' = table
    BY <1>1, <1>2, <2>1, TableInsertion
  <2>2. ASSUME NEW symbol, NEW list,
               table' = InsertCalls(table, Target, Trap, symbol),
               stage' = (IF table'.error = Fine THEN "instances" ELSE "leave"),
               todo' = [todo EXCEPT !.instances = list, !.inserted = symbol # None]
        PROVE  TableInv'
    <3>1. /\ symbol = None => table' = table
          /\ symbol # None => TrapAdded(table, table', Trap.section)
      BY <1>3, <1>4, <2>2, CallsStep
    <3>2. todo'.group = todo.group /\ todo'.section = todo.section /\ todo'.inserted = (symbol # None)
      BY <2>2 DEF TodoInv
    <3>3. table'.error = Fine /\ todo'.inserted => HasStart(table', Sections(todo.group)[todo.section])
      BY <1>4, <3>1, <3>2 DEF TrapAdded
    <3>4. table' = table \/ TrapAdded(table, table', Trap.section)
      BY <3>1
    <3>5. \/ stage' = "leave"
          \/ stage' = "instances" /\ todo'.group = todo.group /\ todo'.section = todo.section
             /\ table'.error = Fine /\ (todo'.inserted => HasStart(table', Sections(todo.group)[todo.section]))
      BY <2>2, <3>2, <3>3
    <3> QED BY <1>1, <1>2, <3>4, <3>5, TableInsertion
  <2>3. \/ stage' = "leave" /\ table' = table
        \/ \E symbol, list :
              /\ table' = InsertCalls(table, Target, Trap, symbol)
              /\ stage' = (IF table'.error = Fine THEN "instances" ELSE "leave")
              /\ todo' = [todo EXCEPT !.instances = list, !.inserted = symbol # None]
    BY <1>6 DEF InsertFunction, Inserted, Fail
  <2> QED BY <2>1, <2>2, <2>3
<1>7. CASE InsertInlined
  <2> DEFINE instance == Head(todo.instances)
  <2>1. /\ table' = InsertInstance(table, Target, Trap, instance)
        /\ stage' = (IF table'.error = Fine THEN "instances" ELSE "leave")
        /\ todo' = [todo EXCEPT !.instances = Tail(todo.instances),
           !.inserted = todo.inserted \/ CanProfile(instance)]
        /\ stage = "instances"
    BY <1>7 DEF InsertInlined, Inserted
  <2> HIDE DEF instance
  <2>2. /\ ~CanProfile(instance) => table' = table
        /\ CanProfile(instance) => TrapAdded(table, table', Trap.section)
    BY <1>3, <1>4, <2>1, InstanceStep
  <2>3. todo'.group = todo.group /\ todo'.section = todo.section
        /\ todo'.inserted = (todo.inserted \/ CanProfile(instance))
    BY <2>1 DEF TodoInv
  <2>4. table'.error = Fine /\ todo'.inserted => HasStart(table', Sections(todo.group)[todo.section])
    <3>1. CASE CanProfile(instance)
      BY <1>4, <2>2, <3>1 DEF TrapAdded
    <3>2. CASE ~CanProfile(instance)
      BY <2>1, <2>2, <2>3, <3>2 DEF TableInv
    <3> QED BY <3>1, <3>2
  <2>5. table' = table \/ TrapAdded(table, table', Trap.section)
    BY <2>2
  <2>6. \/ stage' = "leave"
        \/ stage' = "instances" /\ todo'.group = todo.group /\ todo'.section = todo.section
           /\ table'.error = Fine /\ (todo'.inserted => HasStart(table', Sections(todo.group)[todo.section]))
    BY <2>1, <2>3, <2>4
  <2> QED BY <1>1, <1>2, <2>5, <2>6, TableInsertion
<1>8. CASE FunctionInserted
  <2>1. table' = table /\ stage = "instances"
    BY <1>8 DEF FunctionInserted, Inserted, Fail
  <2>2. \/ stage' = "leave"
        \/ stage' = "insert" /\ todo' = NextSection /\ todo.inserted
    BY <1>8, <1>3 DEF FunctionInserted, Inserted, Fail
  <2>3. todo.inserted => HasStart(table', Sections(todo.group)[todo.section])
    BY <2>1 DEF TableInv
  <2> QED BY <1>1, <1>2, <1>3, <2>1, <2>2, <2>3, TableInsertion
<1> QED BY <1>5, <1>6, <1>7, <1>8

(* Every step keeps TableInv.                                              *)
LEMMA TableStep ==
  ASSUME TableInv, ConfigInv, TodoInv, ResultsInv, TypeOK, [Next]_vars
  PROVE  TableInv'
<1> USE DEF Started, Followed, Ready, Inserting, Ended, Flow
<1>1. CASE Main /\ stage \in Inserting
  <2>1. CASE TraceEnds \/ TraceFails
    <3>1. UNCHANGED <<table, todo, config>> /\ stage' \in {"collect", "leave"} /\ stage = "insert"
      BY <2>1 DEF TraceEnds, TraceFails, Goto, Fail, loaded
    <3>2. GoodTable(table)' /\ Balanced(table)' /\ SectionsDone(table, todo)'
      BY <3>1, TableSame DEF TableInv
    <3> QED BY <3>1, <3>2 DEF TableInv
  <2> QED BY <1>1, <2>1, InsertionSteps, InsertStep
<1>2. CASE Collect
  <2>1. /\ GoodTable(table)' /\ table'.error = table.error /\ table'.armed = table.armed
        /\ table'.starts = table.starts /\ table'.ends = table.ends /\ table'.places = table.places
    BY <1>2, CollectStep
  <2>2. stage = "collect" /\ stage' = "collect" /\ UNCHANGED <<config, todo>>
    BY <1>2 DEF Collect, loaded
  <2>3. Balanced(table')
    BY <2>1, <2>2 DEF TableInv, Balanced
  <2>4. SectionsDone(table', todo')
    BY <2>1, <2>2 DEF TableInv, SectionsDone, HasStart
  <2> QED BY <2>1, <2>2, <2>3, <2>4, TableSame DEF TableInv
<1>3. CASE Main /\ stage = "collect" /\ ~Collect
  <2>1. WriteResults
    BY <1>3 DEF Main, ParseArguments, LoadObjects, LoadConfig, Fork, CreateReaders, AwaitFirst, FirstWait,
         AwaitOptions,
       AwaitResume, AwaitCall, AwaitOther, AwaitContinue, RunWait, ObtainIdle, Registers, SetOptions, InsertSection,
       InsertFunction, InsertInlined, FunctionInserted, TraceEnds, TraceFails, Leave, Request, Goto
  <2>2. table' = table /\ config' = config /\ stage' = "leave"
    BY <2>1 DEF WriteResults, Goto, loaded
  <2> QED BY <2>2, TableSame DEF TableInv
<1>4. CASE Main /\ stage \in Started \cup Followed \cup Ready
  <2>1. table' = table /\ todo' = todo /\ table = EmptyTable /\ todo = AtSection(1, 1)
    BY <1>4, MainFlow DEF ConfigInv
  <2>2. GoodTable(table)' /\ Balanced(table)' /\ table'.error = Fine
    <3>1. table' = EmptyTable
      BY <2>1
    <3>2. DOMAIN table'.starts = {}
      BY <3>1 DEF EmptyTable, NoTraps
    <3>3. Configured(table)'
      BY <3>2 DEF Configured
    <3> QED BY <3>1, <3>3, EmptyGood DEF GoodTable
  <2>3. stage' \notin {"instances", "collect"} /\ (stage' = "insert" => stage = "options")
    BY <1>4, MainFlow
  <2>4. CASE stage' = "insert"
    <3>1. config' = config /\ ConfigGood
      BY <1>4, <2>3, <2>4, MainFlow DEF ConfigInv
    <3>2. SectionsDone(table', todo')
      BY <2>1, <3>1, DoneEmpty
    <3> QED BY <2>2, <2>4, <3>1, <3>2, TableSame DEF TableInv
  <2>5. CASE stage' # "insert"
    BY <2>2, <2>3, <2>5 DEF TableInv
  <2> QED BY <2>4, <2>5
<1>5. CASE Main /\ stage \in Ended
  <2>1. table' = table /\ config' = config /\ stage' \in Ended
    BY <1>5, MainFlow
  <2> QED BY <2>1, TableSame DEF TableInv
<1>6. CASE ~Main
  <2>1. UNCHANGED <<table, todo, stage, config>>
    BY <1>6, OtherSteps DEF made, loaded
  <2>2. GoodTable(table)' /\ (Balanced(table)' <=> Balanced(table))
          /\ (SectionsDone(table, todo)' <=> SectionsDone(table, todo))
    BY <2>1, TableSame DEF TableInv
  <2>3. HasStart(table, Sections(todo.group)[todo.section])' <=> HasStart(table, Sections(todo.group)[todo.section])
    BY <2>1 DEF HasStart, Sections
  <2> QED BY <2>1, <2>2, <2>3 DEF TableInv
<1> QED BY <1>1, <1>2, <1>3, <1>4, <1>5, <1>6 DEF TypeOK, Stages

(* Every step keeps ResultsInv.                                            *)
LEMMA ResultsStep ==
  ASSUME TableInv, ResultsInv, TypeOK, [Next]_vars
  PROVE  ResultsInv'
<1>1. CASE Collect
  BY <1>1, CollectStep
<1>2. CASE TraceEnds
  <2>1. table' = table
    BY <1>2 DEF TraceEnds
  <2>2. PICK n \in 0..MaxExecutions :
           \E starts \in [1..n -> DOMAIN table.starts], fine \in [1..n -> BOOLEAN] :
              results' = [i \in 1..n |->
                             [start |-> starts[i], fine |-> fine[i],
                              samples |-> Samples(table.starts[starts[i]].devices)]]
    BY <1>2 DEF TraceEnds
  <2>3. PICK starts \in [1..n -> DOMAIN table.starts], fine \in [1..n -> BOOLEAN] :
              results' = [i \in 1..n |->
                             [start |-> starts[i], fine |-> fine[i],
                              samples |-> Samples(table.starts[starts[i]].devices)]]
    BY <2>2
  <2>4. n \in Nat
    BY ProfilerAssumption
  <2>5. results' \in [1..n -> ToSet(results')]
    BY <2>3 DEF ToSet
  <2>6. IsSequence(results')
    BY <2>4, <2>5, SeqDef DEF IsSequence
  <2>7. \A i \in 1..n : results'[i].start = starts[i]
    BY <2>3
  <2> QED BY <2>1, <2>3, <2>6, <2>7 DEF ResultsInv
<1>3. CASE ~Collect /\ ~TraceEnds
  <2>1. results' = results
    <3>1. CASE Main
      <4>1. CASE AwaitFirst \/ RunWait
        <5>1. PICK from \in {"await", "run"}, to \in {"awaitoptions", "idle", "registers"} : FirstWait(from, to)
          BY <4>1 DEF AwaitFirst, RunWait
        <5> QED BY <5>1, FirstWaitStep DEF Fail, made
      <4>2. CASE AwaitCall
        BY <4>2, AwaitCallStep DEF Fail, made
      <4>3. CASE ~(AwaitFirst \/ RunWait \/ AwaitCall)
        BY <1>3, <3>1, <4>3 DEF Main, ParseArguments, LoadObjects, LoadConfig, Fork, CreateReaders, AwaitOptions,
           AwaitResume, AwaitOther, AwaitContinue, ObtainIdle, Registers, SetOptions, InsertSection,
           InsertFunction, InsertInlined, FunctionInserted, Inserted, TraceFails, WriteResults, Leave, Request,
             Fail,
           made
      <4> QED BY <4>1, <4>2, <4>3
    <3>2. CASE ~Main
      BY <3>2, OtherSteps DEF made
    <3> QED BY <3>1, <3>2
  <2>2. CASE results = <<>>
    BY <2>1, <2>2, EmptyIsSequence DEF ResultsInv
  <2>3. CASE results # <<>>
    <3>1. stage = "collect"
      BY <2>3 DEF TypeOK
    <3>2. ~Main
      BY <1>3, <2>3, <3>1 DEF Main, ParseArguments, LoadObjects, LoadConfig, Fork, CreateReaders, AwaitFirst,
           FirstWait,
         AwaitOptions, AwaitResume, AwaitCall, AwaitOther, AwaitContinue, RunWait, ObtainIdle, Registers,
           SetOptions,
         InsertSection, InsertFunction, InsertInlined, FunctionInserted, TraceFails, WriteResults, Leave,
         Request, Goto
    <3>3. table' = table
      BY <3>2, OtherSteps DEF made
    <3> QED BY <2>1, <3>3 DEF ResultsInv
  <2> QED BY <2>2, <2>3
<1> QED BY <1>1, <1>2, <1>3

(* The objects are loaded from a file of the scenario.                     *)
LEMMA ObjectsLoaded ==
  ASSUME NEW s \in Scenarios, NEW f \in DOMAIN s.files
  PROVE  Loaded(object_info(s.files[f]))
<1> DEFINE file == s.files[f]
           oi == object_info(file)
           unit(i) == [path |-> file.units[i].path, file |-> file.units[i].file,
                       addresses |-> file.units[i].addresses, lines |-> load_lines(file.units[i].lines),
                       functions |-> load_functions(file.units[i].concrete, file.units[i].inlined)]
           units == [i \in DOMAIN file.units |-> unit(i)]
<1>1. /\ {"base", "units", "symbols", "words"} \subseteq DOMAIN file
      /\ IsSequence(file.symbols) /\ IsSequence(file.units)
      /\ \A u \in ToSet(file.units) : u.lines \in Seq(Line)
  BY ProfilerAssumption
<1> HIDE DEF file
<1>2. oi = [file EXCEPT !.units = units]
  BY DEF object_info
<1>3. oi.units = units /\ oi.symbols = file.symbols /\ DOMAIN oi = DOMAIN file
  <2> HIDE DEF units, oi
  <2> QED BY <1>1, <1>2
<1>4. DOMAIN file.symbols \subseteq Nat /\ DOMAIN file.units \subseteq Nat
  BY <1>1, SequenceFacts
<1>5. ASSUME NEW i \in DOMAIN file.units
      PROVE  unit(i).lines \in Seq(Line) /\ Sorted(unit(i).lines)
  <2>1. file.units[i].lines \in Seq(Line)
    BY <1>1, SequenceFacts
  <2>2. unit(i).lines = load_lines(file.units[i].lines)
    OBVIOUS
  <2> HIDE DEF unit
  <2> QED BY <2>1, <2>2, LinesSorted
<1>6. \A u \in ToSet(units) : \E i \in DOMAIN file.units : u = unit(i)
  <2> HIDE DEF unit
  <2> QED BY DEF ToSet
<1> HIDE DEF unit, units, oi
<1>7. DOMAIN units = DOMAIN file.units
  BY DEF units
<1>8. Loaded(oi)
  BY <1>1, <1>3, <1>4, <1>5, <1>6, <1>7 DEF Loaded
<1> QED BY <1>8 DEF oi, file

(* The start traps of a table and of one after it: no other, or one more.  *)
Adds(t, r, a, trap) == r.starts = t.starts \/ r.starts = With(t.starts, a, trap)

(* insert_trap() and what follows it add one start trap.                   *)
LEMMA RangeAdds ==
  ASSUME NEW t, IsTable(t), NEW o, NEW start, NEW end, NEW trap, NEW g, NEW s, NEW d
  PROVE  /\ Adds(t, InsertStart(t, o, start, trap), o.base + start, trap)
         /\ Adds(t, InsertOutput(InsertStart(t, o, start, trap), o, start, g, s, d), o.base + start, trap)
         /\ Adds(t, InsertOutput(InsertEnd(InsertStart(t, o, start, trap), o, end, start), o, start, g, s, d),
                 o.base + start, trap)
<1>1. ASSUME NEW u, IsTable(u)
      PROVE  InsertOutput(u, o, start, g, s, d).starts = u.starts
  BY <1>1 DEF InsertOutput, IsTable
<1> DEFINE t1 == InsertStart(t, o, start, trap)
           t2 == InsertEnd(t1, o, end, start)
           a == o.base + start
<1>2. StartAdded(t, t1, a, trap)
  BY StartStep
<1> HIDE DEF t1, a
<1>3. IsTable(t1) /\ Adds(t, t1, a, trap)
  BY <1>2 DEF StartAdded, Adds
<1>4. EndAdded(t1, t2, o.base + end, a)
  BY <1>3, EndStep DEF a
<1> HIDE DEF t2
<1>5. IsTable(t2) /\ t2.starts = t1.starts
  BY <1>4 DEF EndAdded
<1>6. /\ InsertOutput(t1, o, start, g, s, d).starts = t1.starts
      /\ InsertOutput(t2, o, start, g, s, d).starts = t1.starts
  BY <1>1, <1>3, <1>5
<1> QED BY <1>3, <1>6 DEF Adds, t1, t2, a

(* Traps where they belong stay there when one is added that does.         *)
LEMMA AddsLocated ==
  ASSUME NEW t, WellLocated(t), NEW r, NEW a, NEW trap, Adds(t, r, a, trap), Located(a, trap)
  PROVE  WellLocated(r)
<1>1. CASE r.starts = t.starts
  BY <1>1 DEF WellLocated
<1>2. CASE r.starts = With(t.starts, a, trap)
  BY <1>2 DEF WellLocated, With
<1> QED BY <1>1, <1>2 DEF Adds

(* A trap that is not of a symbol and not of a position may be anywhere.   *)
LEMMA LocatedAnywhere ==
  ASSUME NEW a, NEW trap, trap.symbol = None, trap.section.bounds.kind # "positions"
  PROVE  Located(a, trap)
BY DEF Located, Unambiguous, StartsAsAsked

(* A section's start line.                                                 *)
LEMMA LineLocated ==
  ASSUME Loaded(objects), NEW o, o.base = objects.base, o.units = objects.units, o.words = objects.words,
         NEW position, FoundLine(o, position).error = Fine,
         NEW trap, trap.symbol = None, trap.section.bounds.start = position
  PROVE  Located(o.base + FoundLine(o, position).value[4], trap)
<1> DEFINE path == o.words[position.cu]
           found == UnitOfPath(o, path)
           unit == found.value
           lines == FindLines(unit, unit.file, position.line)
           l == lowest_address_line(lines.value)
<1>1. FoundLine(o, position) =
          IF found.error # Fine THEN found ELSE IF lines.error # Fine THEN Missing(Undefined) ELSE Found(l)
  BY DEF FoundLine
<1>2. Missing(Undefined).error # Fine /\ Found(l).value = l
  BY DEF Missing, Found, Undefined, Fine
<1> HIDE DEF found, lines, l
<1>3. found.error = Fine /\ lines.error = Fine /\ FoundLine(o, position).value = l
  BY <1>1, <1>2
<1>4. unit \in ToSet(objects.units) /\ is_sub_path(path, unit.path)
  BY <1>3, UnitFound DEF found, Loaded
<1> HIDE DEF unit
<1>5. unit.lines \in Seq(Line) /\ Sorted(unit.lines)
  BY <1>4 DEF Loaded
<1>6. /\ l \in ToSet(unit.lines) /\ l[1] = unit.file /\ l[2] >= position.line
      /\ \A m \in ToSet(unit.lines) :
            m[1] = unit.file /\ m[2] >= position.line => l[2] < m[2] \/ (l[2] = m[2] /\ l[3] <= m[3])
  BY <1>3, <1>5, LineFound DEF l, lines
<1>7. is_sub_path(objects.words[position.cu], unit.path)
  BY <1>4
<1>9. StartsAsAsked(o.base + l[4], trap)
  BY <1>4, <1>6, <1>7 DEF StartsAsAsked
<1>10. Unambiguous(o.base + l[4], trap)
  BY DEF Unambiguous
<1> QED BY <1>3, <1>9, <1>10 DEF Located

(* A function's symbol.                                                    *)
LEMMA CallLocated ==
  ASSUME Loaded(objects), NEW bounds, bounds.kind = "function", FoundFunction(objects, bounds).error = Fine,
         NEW trap, trap.section.bounds = bounds, trap.symbol = FoundFunction(objects, bounds).value.symbol
  PROVE  Located(objects.base + trap.symbol.entrypoint, trap)
<1> DEFINE name == objects.words[bounds.name]
           symbol == trap.symbol
           a == objects.base + symbol.entrypoint
<1>1. StartsAsAsked(a, trap)
  BY DEF StartsAsAsked
<1>2. ASSUME symbol # None, bounds.cu = "absent"
      PROVE  symbol \in Matching(objects, name)
             /\ \A s \in Matching(objects, name) \ {symbol} : Fit(symbol, name) < Fit(s, name)
  <2>1. FoundFunction(objects, bounds) = FindFunction(objects, name)
    BY <1>2 DEF FoundFunction
  <2> QED BY <1>2, <2>1, FunctionSymbol DEF Loaded
<1>3. Unambiguous(a, trap)
  BY <1>2 DEF Unambiguous, Matching
<1> QED BY <1>1, <1>3 DEF Located

(* The target that is written into has the objects that were loaded.       *)
LEMMA TargetFacts ==
  ASSUME Loaded(objects)
  PROVE  Target.base = objects.base /\ Target.units = objects.units /\ Target.words = objects.words
<1>1. CASE Target = objects
  BY <1>1
<1>2. CASE Target = [objects EXCEPT !.mapped = 0]
  BY <1>2 DEF Loaded
<1> QED BY <1>1, <1>2 DEF Target

(* The start trap of a section given by bounds.                            *)
LEMMA BoundsLocated ==
  ASSUME NEW t, IsTable(t), WellLocated(t), Loaded(objects), NEW trap, trap.symbol = None
  PROVE  WellLocated(InsertBounds(t, Target, trap))
<1> DEFINE bounds == trap.section.bounds
           start == FoundLine(Target, bounds.start)
           end == FoundLine(Target, bounds.end)
           started == InsertStart(t, Target, start.value[4], trap)
           ended == InsertOutput(InsertEnd(started, Target, end.value[4], start.value[4]),
                                 Target, start.value[4], trap.group, trap.section, trap.devices)
           a == Target.base + start.value[4]
<1>1. CASE bounds.kind = "positions"
  <2>1. Adds(t, started, a, trap) /\ Adds(t, ended, a, trap)
    BY RangeAdds
  <2>2. start.error = Fine => Located(a, trap)
    BY LineLocated, TargetFacts
  <2>3. InsertBounds(t, Target, trap) =
            IF start.error # Fine THEN Fails(t, start.error)
            ELSE IF started.error # Fine THEN started
            ELSE IF end.error # Fine THEN Fails(started, end.error)
            ELSE ended
    BY <1>1 DEF InsertBounds, InsertPositions
  <2>4. IsTable(started)
    BY StartStep DEF StartAdded
  <2>5. \A e : Fails(t, e).starts = t.starts /\ Fails(started, e).starts = started.starts
    <3> HIDE DEF started
    <3> QED BY <2>4 DEF Fails, IsTable
  <2> HIDE DEF started, ended, start, end, a
  <2>6. CASE start.error # Fine
    BY <2>3, <2>5, <2>6 DEF WellLocated
  <2>7. CASE start.error = Fine
    <3>1. WellLocated(started) /\ WellLocated(ended)
      BY <2>1, <2>2, <2>7, AddsLocated
    <3>2. \A e : WellLocated(Fails(started, e))
      BY <2>5, <3>1 DEF WellLocated
    <3> QED BY <2>3, <2>7, <3>1, <3>2
  <2> QED BY <2>6, <2>7
<1>2. CASE bounds.kind # "positions"
  <2>1. Adds(t, InsertRange(t, Target, trap, bounds.start, bounds.end), Target.base + bounds.start, trap)
    BY RangeAdds DEF InsertRange
  <2>2. Located(Target.base + bounds.start, trap)
    BY <1>2, LocatedAnywhere
  <2>3. InsertBounds(t, Target, trap) = InsertRange(t, Target, trap, bounds.start, bounds.end)
    BY <1>2 DEF InsertBounds
  <2> QED BY <2>1, <2>2, <2>3, AddsLocated
<1> QED BY <1>1, <1>2

(* The start trap of a function's calls.                                   *)
LEMMA CallsLocated ==
  ASSUME NEW t, IsTable(t), WellLocated(t), Loaded(objects), NEW trap,
         trap = [group |-> trap.group, section |-> trap.section, devices |-> trap.devices, symbol |-> trap.symbol],
         trap.section.bounds.kind = "function", FoundFunction(objects, trap.section.bounds).error = Fine
  PROVE  WellLocated(InsertCalls(t, Target, trap, FoundFunction(objects, trap.section.bounds).value.symbol))
<1> DEFINE bounds == trap.section.bounds
           symbol == FoundFunction(objects, bounds).value.symbol
           with == [trap EXCEPT !.symbol = symbol]
           a == Target.base + symbol.entrypoint
<1>1. with.section = trap.section /\ with.symbol = symbol
  OBVIOUS
<1>2. InsertCalls(t, Target, trap, symbol) =
          IF symbol = None THEN t ELSE InsertCall(t, Target, with, symbol.entrypoint)
  BY DEF InsertCalls
<1> HIDE DEF with, symbol
<1>3. Adds(t, InsertCall(t, Target, with, symbol.entrypoint), a, with)
  BY RangeAdds DEF InsertCall
<1>4. with.section.bounds = bounds
  BY <1>1
<1>5. Located(a, with)
  BY <1>1, <1>4, CallLocated, TargetFacts DEF symbol
<1>6. WellLocated(InsertCall(t, Target, with, symbol.entrypoint))
  BY <1>3, <1>5, AddsLocated
<1> QED BY <1>2, <1>6 DEF symbol

(* The start traps of its inlined instances.                               *)
LEMMA InstanceLocated ==
  ASSUME NEW t, IsTable(t), WellLocated(t), NEW trap, trap.symbol = None,
         trap.section.bounds.kind = "function", NEW instance
  PROVE  WellLocated(InsertInstance(t, Target, trap, instance))
<1> DEFINE start == CodeOf(instance)[1][1]
           end == CodeOf(instance)[1][2]
<1>1. Adds(t, InsertRange(t, Target, trap, start, end), Target.base + start, trap)
  BY RangeAdds DEF InsertRange
<1>2. Located(Target.base + start, trap)
  BY LocatedAnywhere
<1> HIDE DEF start, end
<1>3. WellLocated(InsertRange(t, Target, trap, start, end))
  BY <1>1, <1>2, AddsLocated
<1> QED BY <1>3 DEF InsertInstance, start, end

(* What holds of the traps holds of unchanged ones.                        *)
LEMMA LocatedSame ==
  ASSUME objects' = objects
  PROVE  /\ Loaded(objects)' <=> Loaded(objects)
         /\ WellLocated(table)' <=> WellLocated(table')
         /\ table'.starts = table.starts => (WellLocated(table)' <=> WellLocated(table))
<1>1. Loaded(objects)' <=> Loaded(objects)
  BY DEF Loaded
<1>2. ASSUME NEW a, NEW trap
      PROVE  /\ Unambiguous(a, trap)' <=> Unambiguous(a, trap)
             /\ StartsAsAsked(a, trap)' <=> StartsAsAsked(a, trap)
  BY DEF Unambiguous, StartsAsAsked
<1>3. \A a, trap : Located(a, trap)' <=> Located(a, trap)
  BY <1>2 DEF Located
<1> QED BY <1>1, <1>3 DEF WellLocated

(* No traps are where they should be.                                      *)
LEMMA EmptyLocated == WellLocated(EmptyTable)
BY DEF WellLocated, EmptyTable, NoTraps

(* Every step keeps LocatedInv.                                            *)
LEMMA LocatedStep ==
  ASSUME LocatedInv, TableInv, ConfigInv, TodoInv, ResultsInv, TypeOK, scenario \in Scenarios, [Next]_vars
  PROVE  LocatedInv'
<1> USE DEF Started, Followed, Ready, Inserting, Ended, Flow
<1>1. CASE Main /\ stage \in Inserting
  <2>1. objects' = objects /\ config' = config /\ readers' = readers /\ Loaded(objects) /\ Loaded(objects)'
    <3>1. objects' = objects /\ config' = config /\ readers' = readers
      BY <1>1, InsertionSteps DEF TraceEnds, TraceFails, InsertSection, InsertFunction, InsertInlined,
         FunctionInserted, Inserted, Fail, loaded
    <3>2. Loaded(objects)
      BY <1>1 DEF LocatedInv
    <3> QED BY <3>1, <3>2, LocatedSame
  <2>2. IsTable(table) /\ WellLocated(table)
    BY DEF LocatedInv, TableInv, GoodTable
  <2>3. CASE TraceEnds \/ TraceFails
    <3>1. table' = table /\ stage' # "instances"
      BY <2>3 DEF TraceEnds, TraceFails, Goto, Fail
    <3> QED BY <2>1, <2>2, <3>1, LocatedSame DEF LocatedInv
  <2>4. CASE InsertSection \/ InsertFunction \/ InsertInlined \/ FunctionInserted
    <3>1. ~AllInserted
      BY <2>4 DEF InsertSection, InsertFunction, InsertInlined, FunctionInserted, TodoInv
    <3>2. /\ Trap = [group |-> Trap.group, section |-> Trap.section, devices |-> Trap.devices,
                     symbol |-> Trap.symbol]
          /\ Trap.symbol = None
      BY <1>1, <3>1, TrapOfConfig DEF Trap, TrapOf
    <3>3. CASE InsertSection
      <4>1. table' = InsertBounds(table, Target, Trap) /\ stage' # "instances"
        BY <3>3 DEF InsertSection, Inserted
      <4>2. WellLocated(table')
        BY <2>1, <2>2, <3>2, <4>1, BoundsLocated
      <4> QED BY <2>1, <4>1, <4>2, LocatedSame DEF LocatedInv
    <3>4. CASE InsertFunction
      <4> DEFINE found == FoundFunction(objects, Trap.section.bounds)
      <4>1. CASE found.error # Fine
        <5>1. table' = table /\ stage' # "instances"
          BY <3>4, <4>1 DEF InsertFunction, Fail
        <5> QED BY <2>1, <2>2, <5>1, LocatedSame DEF LocatedInv
      <4>2. CASE found.error = Fine
        <5>1. /\ table' = InsertCalls(table, Target, Trap, found.value.symbol)
              /\ Trap.section.bounds.kind = "function"
              /\ todo' = [todo EXCEPT !.instances = found.value.function.instances,
                                      !.inserted = found.value.symbol # None]
          BY <3>4, <4>2 DEF InsertFunction, Inserted
        <5>2. WellLocated(table')
          BY <2>1, <2>2, <3>2, <4>2, <5>1, CallsLocated
        <5>3. todo'.group = todo.group /\ todo'.section = todo.section
          BY <5>1 DEF TodoInv
        <5>4. Trap' = Trap
          BY <2>1, <5>3 DEF Trap, TrapOf, Sections
        <5> QED BY <2>1, <5>1, <5>2, <5>4, LocatedSame DEF LocatedInv
      <4> QED BY <4>1, <4>2
    <3>5. CASE InsertInlined
      <4>1. /\ table' = InsertInstance(table, Target, Trap, Head(todo.instances))
            /\ stage = "instances"
            /\ todo' = [todo EXCEPT !.instances = Tail(todo.instances),
                                    !.inserted = todo.inserted \/ CanProfile(Head(todo.instances))]
        BY <3>5 DEF InsertInlined, Inserted
      <4>2. Trap.section.bounds.kind = "function"
        BY <4>1 DEF LocatedInv
      <4>3. WellLocated(table')
        BY <2>2, <3>2, <4>1, <4>2, InstanceLocated
      <4>4. todo'.group = todo.group /\ todo'.section = todo.section
        BY <4>1 DEF TodoInv
      <4>5. Trap' = Trap
        BY <2>1, <4>4 DEF Trap, TrapOf, Sections
      <4> QED BY <2>1, <4>2, <4>3, <4>5, LocatedSame DEF LocatedInv
    <3>6. CASE FunctionInserted
      <4>1. table' = table /\ stage' # "instances"
        BY <3>6 DEF FunctionInserted, Inserted, Fail
      <4> QED BY <2>1, <2>2, <4>1, LocatedSame DEF LocatedInv
    <3> QED BY <2>4, <3>3, <3>4, <3>5, <3>6
  <2> QED BY <1>1, <2>3, <2>4, InsertionSteps
<1>2. CASE Main /\ stage = "objects"
  <2>1. table = EmptyTable /\ table' = EmptyTable
    BY <1>2, MainFlow DEF ConfigInv
  <2>2. stage' = "leave" \/ (stage' = "config" /\ Loaded(objects'))
    <3>1. LoadObjects
      BY <1>2 DEF Main, ParseArguments, LoadConfig, Fork, CreateReaders, AwaitFirst, FirstWait, AwaitOptions,
         AwaitResume, AwaitCall, AwaitOther, AwaitContinue, RunWait, ObtainIdle, Registers, SetOptions,
         InsertSection, InsertFunction, InsertInlined, FunctionInserted, TraceEnds, TraceFails, Collect,
         WriteResults, Leave, Request, Goto
    <3>2. \/ stage' = "leave"
          \/ /\ stage' = "config" /\ args.target \in DOMAIN scenario.files
             /\ objects' = object_info(scenario.files[args.target])
      BY <3>1 DEF LoadObjects, Fail, Goto
    <3> QED BY <3>2, ObjectsLoaded
  <2>3. WellLocated(table)'
    BY <2>1, EmptyLocated DEF WellLocated, EmptyTable, NoTraps
  <2> QED BY <2>2, <2>3 DEF LocatedInv, Loaded
<1>3. CASE Main /\ stage \notin Inserting \cup {"objects"}
  <2>1. objects' = objects /\ table'.starts = table.starts
    <3>1. CASE Collect
      BY <1>3, <3>1, CollectStep, MainFlow
    <3>2. CASE ~Collect
      <4>1. table' = table
        BY <1>3, <3>2 DEF Main, ParseArguments, LoadObjects, LoadConfig, Fork, CreateReaders, AwaitFirst, FirstWait,
           AwaitOptions, AwaitResume, AwaitCall, AwaitOther, AwaitContinue, RunWait, ObtainIdle, Registers,
           SetOptions, InsertSection, InsertFunction, InsertInlined, FunctionInserted, TraceEnds, TraceFails,
           WriteResults, Leave, Request, Fail, made
      <4> QED BY <1>3, <4>1, MainFlow
    <3> QED BY <3>1, <3>2
  <2>2. stage' # "instances"
    BY <1>3, MainFlow
  <2>3. stage' \notin {"arguments", "objects"} \cup Ended => stage \notin {"arguments", "objects"} \cup Ended
    BY <1>3, MainFlow
  <2> QED BY <2>1, <2>2, <2>3, LocatedSame DEF LocatedInv
<1>4. CASE ~Main
  <2>1. UNCHANGED <<table, todo, stage, config, objects, readers>>
    BY <1>4, OtherSteps DEF made, loaded
  <2>2. Trap' = Trap
    BY <2>1 DEF Trap, TrapOf, Sections
  <2> QED BY <2>1, <2>2, LocatedSame DEF LocatedInv
<1> QED BY <1>1, <1>2, <1>3, <1>4

(* It holds initially.                                                     *)
LEMMA LocatedInit == Init => LocatedInv
BY EmptyLocated DEF Init, LocatedInv

(* It says where start traps are.                                          *)
LEMMA LocatedMeans == LocatedInv => CallsUnambiguous /\ LinesAsAsked
BY DEF LocatedInv, WellLocated, Located, CallsUnambiguous, LinesAsAsked

-----------------------------------------------------------------------------
(* The events of the readers.  Their constructors go over what the machine *)
(* has with folds.  The library defines a fold by recursion over sets of   *)
(* indices: that there is such a function, and that it goes from state to  *)
(* state, element by element, is proved once for all the folds, of which   *)
(* Step tells the one from the other.                                      *)

(* A set of naturals up to some number has a greatest element.             *)
LEMMA GreatestOf ==
  ASSUME NEW n \in Nat, NEW S \in SUBSET (1..n), S # {}
  PROVE  \E i \in S : \A j \in S : i >= j
<1> DEFINE D == {k \in Nat : n - k \in S}
<1>1. D # {} /\ D \subseteq Nat
  <2>1. PICK j \in S : TRUE
    OBVIOUS
  <2>2. n - j \in D
    BY <2>1
  <2> QED BY <2>2
<1>2. PICK k \in D : \A j \in D : k <= j
  <2> HIDE DEF D
  <2> QED BY <1>1, LeastOf
<1>3. ASSUME NEW j \in S PROVE n - k >= j
  <2>1. n - j \in D
    OBVIOUS
  <2>2. k <= n - j
    BY <1>2, <2>1
  <2> QED BY <2>2
<1> QED BY <1>2, <1>3

(* One step of each of the folds over what the machine has: the state x,   *)
(* the element e and what is constant in c.                                *)
Step(k, c, x, e) ==
    CASE k = "zone"     -> Rapl!AddZone(x, e, c.locations, c.sockets)
      [] k = "part"     -> Rapl!AddEvent(x, e, c.socket, c.locations)
      [] k = "block"    -> Occ!AddBlock(x, c.blocks[e], e - 1, c.locations, c.sockets)
      [] k = "location" -> Occ!AddLocation(x, c.block, c.occ, e, c.locations)
      [] k = "entry"    -> Occ!AddEntry(x, c.idx, e, c.l)
      [] k = "read"     -> Occ!ReadEvent(e, x, c.record)

(* A fold of a sequence s of n elements, as the library defines it: over   *)
(* sets of indices.                                                        *)
IsFold(fold, k, c, b, s, n) ==
    /\ fold = [t \in SUBSET (1..n) |-> fold[t]]
    /\ fold[{}] = b
    /\ \A t \in SUBSET (1..n) : \A m \in t :
          (\A j \in t : m >= j) => fold[t] = Step(k, c, fold[t \ {m}], s[m])

(* One more element.                                                       *)
LEMMA FoldLonger ==
  ASSUME NEW k, NEW c, NEW b, NEW s, NEW n \in Nat, NEW f, IsFold(f, k, c, b, s, n)
  PROVE  \E g : IsFold(g, k, c, b, s, n + 1)
<1> DEFINE g == [t \in SUBSET (1..(n + 1)) |->
                    IF n + 1 \in t THEN Step(k, c, f[t \ {n + 1}], s[n + 1]) ELSE f[t]]
<1>1. g = [t \in SUBSET (1..(n + 1)) |-> g[t]]
  OBVIOUS
<1>2. g[{}] = b
  BY DEF IsFold
<1>3. ASSUME NEW t \in SUBSET (1..(n + 1)), NEW m \in t, \A j \in t : m >= j
      PROVE  g[t] = Step(k, c, g[t \ {m}], s[m])
  <2>1. CASE n + 1 \in t
    <3>1. m = n + 1
      BY <1>3, <2>1
    <3>2. t \ {m} \in SUBSET (1..(n + 1)) /\ n + 1 \notin t \ {m}
      BY <3>1
    <3>3. g[t \ {m}] = f[t \ {m}]
      BY <3>2
    <3> QED BY <2>1, <3>1, <3>3
  <2>2. CASE n + 1 \notin t
    <3>1. t \in SUBSET (1..n)
      BY <2>2
    <3>2. f[t] = Step(k, c, f[t \ {m}], s[m])
      BY <1>3, <3>1 DEF IsFold
    <3>3. t \ {m} \in SUBSET (1..(n + 1)) /\ n + 1 \notin t \ {m}
      BY <2>2
    <3>4. g[t] = f[t] /\ g[t \ {m}] = f[t \ {m}]
      BY <2>2, <3>3
    <3> QED BY <3>2, <3>4
  <2> QED BY <2>1, <2>2
<1> HIDE DEF g
<1> QED BY <1>1, <1>2, <1>3 DEF IsFold

(* There is one for each length.                                           *)
LEMMA FoldExists ==
  ASSUME NEW k, NEW c, NEW b, NEW s, NEW n \in Nat
  PROVE  \E fold : IsFold(fold, k, c, b, s, n)
<1> DEFINE Bad == {i \in Nat : ~\E fold : IsFold(fold, k, c, b, s, i)}
<1> SUFFICES ASSUME Bad # {} PROVE FALSE
  OBVIOUS
<1>1. PICK i \in Bad : \A j \in Bad : i <= j
  <2>1. Bad \subseteq Nat
    OBVIOUS
  <2> HIDE DEF Bad
  <2> QED BY <2>1, LeastOf
<1>2. i # 0
  <2> DEFINE f == [t \in SUBSET (1..0) |-> b]
  <2>1. f = [t \in SUBSET (1..0) |-> f[t]] /\ f[{}] = b
    OBVIOUS
  <2>2. \A t \in SUBSET (1..0) : \A m \in t : FALSE
    OBVIOUS
  <2> HIDE DEF f
  <2>3. IsFold(f, k, c, b, s, 0)
    BY <2>1, <2>2 DEF IsFold
  <2> QED BY <1>1, <2>3
<1>3. i - 1 \in Nat /\ i - 1 \notin Bad
  BY <1>1, <1>2
<1>4. PICK f : IsFold(f, k, c, b, s, i - 1)
  BY <1>3
<1>5. \E g : IsFold(g, k, c, b, s, (i - 1) + 1)
  <2> HIDE DEF Bad
  <2> QED BY <1>3, <1>4, FoldLonger
<1>6. (i - 1) + 1 = i
  BY <1>1
<1> QED BY <1>1, <1>5, <1>6

(* Element by element, a fold is a sequence of states.                     *)
LEMMA FoldSteps ==
  ASSUME NEW k, NEW c, NEW b, NEW s, NEW n \in Nat, NEW f, IsFold(f, k, c, b, s, n)
  PROVE  /\ f[1..0] = b
         /\ \A i \in 1..n : f[1..i] = Step(k, c, f[1..(i - 1)], s[i])
<1>1. 1..0 = {}
  OBVIOUS
<1>2. ASSUME NEW i \in 1..n
      PROVE  f[1..i] = Step(k, c, f[1..(i - 1)], s[i])
  <2>1. 1..i \in SUBSET (1..n) /\ i \in 1..i /\ \A j \in 1..i : i >= j
    OBVIOUS
  <2>2. (1..i) \ {i} = 1..(i - 1)
    OBVIOUS
  <2> QED BY <2>1, <2>2 DEF IsFold
<1> QED BY <1>1, <1>2 DEF IsFold

(* The states of a fold.                                                   *)
IsRun(h, k, c, b, s, n) == h[0] = b /\ \A i \in 1..n : h[i] = Step(k, c, h[i - 1], s[i])
(* The recursion by which the library defines it.                          *)
RecOf(f, k, c, b, s, n) ==
    [t \in SUBSET (1..n) |-> IF t = {} THEN b ELSE Step(k, c, f[t \ {Max(t)}], s[Max(t)])]

(* A fold is the recursive function over the sets of the places it has seen.*)
LEMMA Recursion ==
  ASSUME NEW k, NEW c, NEW b, NEW s, NEW n \in Nat, NEW f
  PROVE  IsFold(f, k, c, b, s, n) <=> f = RecOf(f, k, c, b, s, n)
<1>1. ASSUME NEW t \in SUBSET (1..n), NEW m \in t, \A j \in t : m >= j
      PROVE  Max(t) = m
  <2>1. Max(t) \in t /\ \A j \in t : Max(t) >= j
    BY <1>1 DEF Max
  <2>2. \A i, j \in t : i >= j /\ j >= i => i = j
    OBVIOUS
  <2> QED BY <1>1, <2>1, <2>2
<1>2. ASSUME IsFold(f, k, c, b, s, n)
      PROVE  f = [t \in SUBSET (1..n) |-> IF t = {} THEN b ELSE Step(k, c, f[t \ {Max(t)}], s[Max(t)])]
  <2>1. ASSUME NEW t \in SUBSET (1..n), t # {}
        PROVE  f[t] = Step(k, c, f[t \ {Max(t)}], s[Max(t)])
    <3>1. PICK m \in t : \A j \in t : m >= j
      BY <2>1, GreatestOf
    <3>2. Max(t) = m
      BY <1>1, <3>1
    <3> QED BY <1>2, <3>1, <3>2 DEF IsFold
  <2> QED BY <1>2, <2>1 DEF IsFold
<1>3. ASSUME f = [t \in SUBSET (1..n) |-> IF t = {} THEN b ELSE Step(k, c, f[t \ {Max(t)}], s[Max(t)])]
      PROVE  IsFold(f, k, c, b, s, n)
  <2>1. f = [t \in SUBSET (1..n) |-> f[t]] /\ f[{}] = b
    <3>1. {} \in SUBSET (1..n) 
      OBVIOUS
    <3>2. \E g : f = [t \in SUBSET (1..n) |-> g[t]]
      <4> DEFINE g == [t \in SUBSET (1..n) |-> IF t = {} THEN b ELSE Step(k, c, f[t \ {Max(t)}], s[Max(t)])]
      <4>1. f = [t \in SUBSET (1..n) |-> g[t]]
        BY <1>3
      <4> QED BY <4>1
    <3> QED BY <1>3, <3>1, <3>2
  <2>2. ASSUME NEW t \in SUBSET (1..n), NEW m \in t, \A j \in t : m >= j
        PROVE  f[t] = Step(k, c, f[t \ {m}], s[m])
    <3>1. Max(t) = m /\ t # {}
      BY <1>1, <2>2
    <3>2. f[t] = Step(k, c, f[t \ {Max(t)}], s[Max(t)])
      BY <1>3, <2>2, <3>1
    <3> QED BY <3>1, <3>2
  <2> QED BY <2>1, <2>2 DEF IsFold
<1> QED BY <1>2, <1>3 DEF RecOf

(* A fold returns x, by a state for each element.                          *)
Returns(k, c, b, s, n, x) ==
    \E h : h[0] = b /\ h[n] = x /\ \A i \in 1..n : h[i] = Step(k, c, h[i - 1], s[i])

(* The states of a fold, one for each element.                             *)
LEMMA FoldReturns ==
  ASSUME NEW k, NEW c, NEW b, NEW s, NEW n \in Nat, NEW f, IsFold(f, k, c, b, s, n)
  PROVE  Returns(k, c, b, s, n, f[1..n])
<1> DEFINE h == [i \in 0..n |-> f[1..i]]
<1>0. f[1..0] = b /\ \A i \in 1..n : f[1..i] = Step(k, c, f[1..(i - 1)], s[i])
  BY FoldSteps
<1>1. h[0] = b /\ h[n] = f[1..n]
  <2>1. h[0] = f[1..0] /\ h[n] = f[1..n]
    OBVIOUS
  <2> QED BY <1>0, <2>1
<1>2. ASSUME NEW i \in 1..n PROVE h[i] = Step(k, c, h[i - 1], s[i])
  <2>1. h[i] = f[1..i] /\ h[i - 1] = f[1..(i - 1)]
    OBVIOUS
  <2> QED BY <1>0, <2>1
<1> HIDE DEF h
<1> QED BY <1>1, <1>2 DEF Returns

(* Each of the folds over what a machine has returns the last of a sequence*)
(* of states: the one over the parts of a zone,                            *)
LEMMA AddEventsReturns ==
  ASSUME NEW found, NEW zones, NEW socket, NEW L, NEW n \in Nat, DOMAIN zones = 1..n
  PROVE  Returns("part", [socket |-> socket, locations |-> L], found, zones, n,
                 Rapl!AddEvents(found, zones, socket, L))
<1> DEFINE c == [socket |-> socket, locations |-> L]
           Rec(f) == f = [t \in SUBSET DOMAIN zones |->
                             IF t = {} THEN found
                             ELSE Rapl!AddEvent(f[t \ {Rapl!Max(t)}], zones[Rapl!Max(t)], socket, L)]
<1>1. \A x, e : Step("part", c, x, e) = Rapl!AddEvent(x, e, socket, L)
  BY DEF Step
<1>2. \A f : Rec(f) <=> IsFold(f, "part", c, found, zones, n)
  <2> SUFFICES ASSUME NEW f PROVE Rec(f) <=> IsFold(f, "part", c, found, zones, n)
    OBVIOUS
  <2>1. IsFold(f, "part", c, found, zones, n) <=> f = RecOf(f, "part", c, found, zones, n)
    BY Recursion
  <2>2. \A t : Rapl!Max(t) = Max(t)
    BY DEF Max, Rapl!Max
  <2>3. f = RecOf(f, "part", c, found, zones, n) <=> Rec(f)
    <3> HIDE DEF c
    <3> QED BY <1>1, <2>2 DEF RecOf
  <2> QED BY <2>1, <2>3
<1>3. Rapl!AddEvents(found, zones, socket, L) = (CHOOSE f : Rec(f))[DOMAIN zones]
  BY DEF Rapl!AddEvents, Rapl!FoldLeft, Rapl!MapThenFoldSet
<1>4. \E f : Rec(f)
  BY <1>2, FoldExists
<1>5. Rec(CHOOSE f : Rec(f))
  BY <1>4
<1> DEFINE fold == CHOOSE f : Rec(f)
<1>6. IsFold(fold, "part", c, found, zones, n)
  BY <1>2, <1>5
<1>7. Rapl!AddEvents(found, zones, socket, L) = fold[1..n]
  BY <1>3
<1> HIDE DEF fold, c
<1> QED BY <1>6, <1>7, FoldReturns DEF c

(* over the zones,                                                         *)
LEMMA AddZonesReturns ==
  ASSUME NEW zones, NEW L, NEW sockets, NEW n \in Nat, DOMAIN zones = 1..n
  PROVE  Returns("zone", [locations |-> L, sockets |-> sockets], Rapl!None, zones, n,
                 Rapl!AddZones(zones, L, sockets))
<1> DEFINE c == [locations |-> L, sockets |-> sockets]
           Rec(f) == f = [t \in SUBSET DOMAIN zones |->
                             IF t = {} THEN Rapl!None
                             ELSE Rapl!AddZone(f[t \ {Rapl!Max(t)}], zones[Rapl!Max(t)], L, sockets)]
<1>1. \A x, e : Step("zone", c, x, e) = Rapl!AddZone(x, e, L, sockets)
  BY DEF Step
<1>2. \A f : Rec(f) <=> IsFold(f, "zone", c, Rapl!None, zones, n)
  <2> SUFFICES ASSUME NEW f PROVE Rec(f) <=> IsFold(f, "zone", c, Rapl!None, zones, n)
    OBVIOUS
  <2>1. IsFold(f, "zone", c, Rapl!None, zones, n) <=> f = RecOf(f, "zone", c, Rapl!None, zones, n)
    BY Recursion
  <2>2. \A t : Rapl!Max(t) = Max(t)
    BY DEF Max, Rapl!Max
  <2>3. f = RecOf(f, "zone", c, Rapl!None, zones, n) <=> Rec(f)
    <3> HIDE DEF c
    <3> QED BY <1>1, <2>2 DEF RecOf
  <2> QED BY <2>1, <2>3
<1>3. Rapl!AddZones(zones, L, sockets) = (CHOOSE f : Rec(f))[DOMAIN zones]
  BY DEF Rapl!AddZones, Rapl!FoldLeft, Rapl!MapThenFoldSet
<1>4. \E f : Rec(f)
  BY <1>2, FoldExists
<1>5. Rec(CHOOSE f : Rec(f))
  BY <1>4
<1> DEFINE fold == CHOOSE f : Rec(f)
<1>6. IsFold(fold, "zone", c, Rapl!None, zones, n)
  BY <1>2, <1>5
<1>7. Rapl!AddZones(zones, L, sockets) = fold[1..n]
  BY <1>3
<1> HIDE DEF fold, c
<1> QED BY <1>6, <1>7, FoldReturns DEF c

(* over the entries of a block,                                            *)
LEMMA AddEntriesReturns ==
  ASSUME NEW found, NEW idx, NEW entries, NEW l, NEW n \in Nat, DOMAIN entries = 1..n
  PROVE  Returns("entry", [idx |-> idx, l |-> l], found, entries, n,
                 Occ!AddEntries(found, idx, entries, l))
<1> DEFINE c == [idx |-> idx, l |-> l]
           Rec(f) == f = [t \in SUBSET DOMAIN entries |->
                             IF t = {} THEN found
                             ELSE Occ!AddEntry(f[t \ {Occ!Max(t)}], idx, entries[Occ!Max(t)], l)]
<1>1. \A x, e : Step("entry", c, x, e) = Occ!AddEntry(x, idx, e, l)
  BY DEF Step
<1>2. \A f : Rec(f) <=> IsFold(f, "entry", c, found, entries, n)
  <2> SUFFICES ASSUME NEW f PROVE Rec(f) <=> IsFold(f, "entry", c, found, entries, n)
    OBVIOUS
  <2>1. IsFold(f, "entry", c, found, entries, n) <=> f = RecOf(f, "entry", c, found, entries, n)
    BY Recursion
  <2>2. \A t : Occ!Max(t) = Max(t)
    BY DEF Max, Occ!Max
  <2>3. f = RecOf(f, "entry", c, found, entries, n) <=> Rec(f)
    <3> HIDE DEF c
    <3> QED BY <1>1, <2>2 DEF RecOf
  <2> QED BY <2>1, <2>3
<1>3. Occ!AddEntries(found, idx, entries, l) = (CHOOSE f : Rec(f))[DOMAIN entries]
  BY DEF Occ!AddEntries, Occ!FoldLeft, Occ!MapThenFoldSet
<1>4. \E f : Rec(f)
  BY <1>2, FoldExists
<1>5. Rec(CHOOSE f : Rec(f))
  BY <1>4
<1> DEFINE fold == CHOOSE f : Rec(f)
<1>6. IsFold(fold, "entry", c, found, entries, n)
  BY <1>2, <1>5
<1>7. Occ!AddEntries(found, idx, entries, l) = fold[1..n]
  BY <1>3
<1> HIDE DEF fold, c
<1> QED BY <1>6, <1>7, FoldReturns DEF c

(* over the locations,                                                     *)
LEMMA AddLocationsReturns ==
  ASSUME NEW found, NEW block, NEW occ, NEW L, NEW n \in Nat, DOMAIN Occ!LocationBits = 1..n
  PROVE  Returns("location", [block |-> block, occ |-> occ, locations |-> L], found, Occ!LocationBits, n,
                 Occ!AddLocations(found, block, occ, L))
<1> DEFINE c == [block |-> block, occ |-> occ, locations |-> L]
           Rec(f) == f = [t \in SUBSET DOMAIN Occ!LocationBits |->
                             IF t = {} THEN found
                             ELSE Occ!AddLocation(f[t \ {Occ!Max(t)}], block, occ, Occ!LocationBits[Occ!Max(t)], L)]
<1>1. \A x, e : Step("location", c, x, e) = Occ!AddLocation(x, block, occ, e, L)
  BY DEF Step
<1>2. \A f : Rec(f) <=> IsFold(f, "location", c, found, Occ!LocationBits, n)
  <2> SUFFICES ASSUME NEW f PROVE Rec(f) <=> IsFold(f, "location", c, found, Occ!LocationBits, n)
    OBVIOUS
  <2>1. IsFold(f, "location", c, found, Occ!LocationBits, n)
        <=> f = RecOf(f, "location", c, found, Occ!LocationBits, n)
    BY Recursion
  <2>2. \A t : Occ!Max(t) = Max(t)
    BY DEF Max, Occ!Max
  <2>3. f = RecOf(f, "location", c, found, Occ!LocationBits, n) <=> Rec(f)
    <3> HIDE DEF c
    <3> QED BY <1>1, <2>2 DEF RecOf
  <2> QED BY <2>1, <2>3
<1>3. Occ!AddLocations(found, block, occ, L) = (CHOOSE f : Rec(f))[DOMAIN Occ!LocationBits]
  BY DEF Occ!AddLocations, Occ!FoldLeft, Occ!MapThenFoldSet
<1>4. \E f : Rec(f)
  BY <1>2, FoldExists
<1>5. Rec(CHOOSE f : Rec(f))
  BY <1>4
<1> DEFINE fold == CHOOSE f : Rec(f)
<1>6. IsFold(fold, "location", c, found, Occ!LocationBits, n)
  BY <1>2, <1>5
<1>7. Occ!AddLocations(found, block, occ, L) = fold[1..n]
  BY <1>3
<1> HIDE DEF fold, c
<1> QED BY <1>6, <1>7, FoldReturns DEF c

(* and over the blocks.                                                    *)
LEMMA AddBlocksReturns ==
  ASSUME NEW blocks, NEW L, NEW sockets, NEW n \in Nat, DOMAIN blocks = 1..n
  PROVE  Returns("block", [blocks |-> blocks, locations |-> L, sockets |-> sockets], Occ!None,
                 [i \in DOMAIN blocks |-> i], n, Occ!AddBlocks(blocks, L, sockets))
<1> DEFINE indices == [i \in DOMAIN blocks |-> i]
           c == [blocks |-> blocks, locations |-> L, sockets |-> sockets]
           Rec(f) == f = [t \in SUBSET DOMAIN indices |->
                             IF t = {} THEN Occ!None
                             ELSE Occ!AddBlock(f[t \ {Occ!Max(t)}], blocks[indices[Occ!Max(t)]],
                                               indices[Occ!Max(t)] - 1, L, sockets)]
<1>0. DOMAIN indices = 1..n
  OBVIOUS
<1>1. \A x, e : Step("block", c, x, e) = Occ!AddBlock(x, blocks[e], e - 1, L, sockets)
  BY DEF Step
<1> HIDE DEF indices
<1>2. \A f : Rec(f) <=> IsFold(f, "block", c, Occ!None, indices, n)
  <2> SUFFICES ASSUME NEW f PROVE Rec(f) <=> IsFold(f, "block", c, Occ!None, indices, n)
    OBVIOUS
  <2>1. IsFold(f, "block", c, Occ!None, indices, n) <=> f = RecOf(f, "block", c, Occ!None, indices, n)
    BY Recursion
  <2>2. \A t : Occ!Max(t) = Max(t)
    BY DEF Max, Occ!Max
  <2>3. f = RecOf(f, "block", c, Occ!None, indices, n) <=> Rec(f)
    <3> HIDE DEF c
    <3>1. \A t : Step("block", c, f[t \ {Max(t)}], indices[Max(t)]) =
                 Occ!AddBlock(f[t \ {Max(t)}], blocks[indices[Max(t)]], indices[Max(t)] - 1, L, sockets)
      BY <1>1
    <3>2. \A t : Step("block", c, f[t \ {Max(t)}], indices[Max(t)]) =
                 Occ!AddBlock(f[t \ {Occ!Max(t)}], blocks[indices[Occ!Max(t)]],
                              indices[Occ!Max(t)] - 1, L, sockets)
      BY <2>2, <3>1
    <3> QED BY <1>0, <3>2 DEF RecOf
  <2> QED BY <2>1, <2>3
<1>3. Occ!AddBlocks(blocks, L, sockets) = (CHOOSE f : Rec(f))[DOMAIN indices]
  BY DEF indices, Occ!AddBlocks, Occ!FoldLeftDomain, Occ!FoldLeft, Occ!MapThenFoldSet
<1>4. \E f : Rec(f)
  BY <1>2, FoldExists
<1>5. Rec(CHOOSE f : Rec(f))
  BY <1>4
<1> DEFINE fold == CHOOSE f : Rec(f)
<1>6. IsFold(fold, "block", c, Occ!None, indices, n)
  BY <1>2, <1>5
<1>7. Occ!AddBlocks(blocks, L, sockets) = fold[1..n]
  BY <1>0, <1>3
<1> HIDE DEF fold, c
<1> QED BY <1>6, <1>7, FoldReturns DEF c, indices

(* Neither of two errors.                                                  *)
LEMMA FirstErrorOfTwo ==
  ASSUME NEW e, NEW f, FirstError(<<e, f>>) = Fine
  PROVE  e = Fine /\ f = Fine
<1> DEFINE errors == <<e, f>>
<1>1. DOMAIN errors \subseteq Nat /\ 1 \in DOMAIN errors /\ 2 \in DOMAIN errors
  OBVIOUS
<1>2. \A i \in DOMAIN errors : errors[i] = Fine
  <2> HIDE DEF errors
  <2> QED BY <1>1, FirstErrorFine DEF errors
<1> QED BY <1>1, <1>2

-----------------------------------------------------------------------------
(* What the constructor of the CPU reader of x86_64 has found.             *)
Domains == [socket : 0..(Rapl!MaxSockets - 1), loc : Rapl!RaplLocations]

ZoneReader(x) ==
    /\ x = [error |-> x.error, map |-> x.map, events |-> x.events]
    /\ x.map \in [0..(Rapl!MaxSockets - 1) -> [Rapl!RaplLocations -> Int]]
    /\ x.events \in Seq(Domains)

(* The map leads from what an event is of to an event of the same.         *)
Indexed(x) ==
    \A i \in DOMAIN x.events :
        LET e == x.events[i] IN
        /\ x.map[e.socket][e.loc] + 1 \in DOMAIN x.events
        /\ x.events[x.map[e.socket][e.loc] + 1] = e

(* No two events are of the same.                                          *)
Distinct(x) == \A i, j \in DOMAIN x.events : x.events[i] = x.events[j] => i = j

(* One more event, and its index in the map.                               *)
LEMMA EventAppended ==
  ASSUME NEW x, ZoneReader(x), NEW s \in 0..(Rapl!MaxSockets - 1), NEW l \in Rapl!RaplLocations, NEW r,
         r = [x EXCEPT !.map[s][l] = Len(x.events), !.events = Append(@, [socket |-> s, loc |-> l])]
  PROVE  /\ ZoneReader(r) /\ r.error = x.error
         /\ ToSet(r.events) = ToSet(x.events) \cup {[socket |-> s, loc |-> l]}
         /\ Indexed(x) => Indexed(r)
         /\ Distinct(x) /\ [socket |-> s, loc |-> l] \notin ToSet(x.events) => Distinct(r)
<1> DEFINE e == [socket |-> s, loc |-> l]
           n == Len(x.events)
           S == 0..(Rapl!MaxSockets - 1)
<1>1. e \in Domains
  BY DEF Domains
<1>2. x.events \in Seq(Domains) /\ n \in Nat /\ DOMAIN x.events = 1..n
  BY DEF ZoneReader
<1>3. /\ r.error = x.error
      /\ r.events = Append(x.events, e)
      /\ r.map = [x.map EXCEPT ![s][l] = n]
      /\ r = [error |-> r.error, map |-> r.map, events |-> r.events]
  <2> DEFINE m == x.map
             q == x.events
  <2>1. x = [error |-> x.error, map |-> m, events |-> q]
    BY DEF ZoneReader
  <2> HIDE DEF m, q
  <2>2. r = [error |-> x.error, map |-> [m EXCEPT ![s][l] = n], events |-> Append(q, e)]
    BY <2>1 DEF m, q
  <2> QED BY <2>2 DEF m, q
<1>4. /\ r.events \in Seq(Domains) /\ DOMAIN r.events = 1..(n + 1) /\ r.events[n + 1] = e
      /\ \A i \in 1..n : r.events[i] = x.events[i]
  <2> DEFINE q == x.events
  <2> HIDE DEF e, q, Domains
  <2>1. q \in Seq(Domains) /\ e \in Domains /\ r.events = Append(q, e) /\ n = Len(q)
    BY <1>1, <1>2, <1>3 DEF q
  <2> QED BY <2>1 DEF q
<1>5. x.map \in [S -> [Rapl!RaplLocations -> Int]]
  BY DEF ZoneReader
<1>6. /\ r.map \in [S -> [Rapl!RaplLocations -> Int]]
      /\ r.map[s][l] = n
      /\ \A t \in S, k \in Rapl!RaplLocations : (t # s \/ k # l) => r.map[t][k] = x.map[t][k]
  <2> HIDE DEF S
  <2>1. s \in S
    BY DEF S
  <2> QED BY <1>2, <1>3, <1>5, <2>1
<1>7. ZoneReader(r)
  BY <1>3, <1>4, <1>6 DEF ZoneReader
<1>8. ToSet(r.events) = ToSet(x.events) \cup {e}
  <2> HIDE DEF e
  <2>1. 1..(n + 1) = (1..n) \cup {n + 1}
    BY <1>2
  <2>2. \A y : y \in ToSet(r.events) <=> \E i \in 1..(n + 1) : r.events[i] = y
    BY <1>4 DEF ToSet
  <2>3. \A y : y \in ToSet(x.events) <=> \E i \in 1..n : x.events[i] = y
    BY <1>2 DEF ToSet
  <2> QED BY <1>4, <2>1, <2>2, <2>3
<1>9. ASSUME Indexed(x) PROVE Indexed(r)
  <2> SUFFICES ASSUME NEW i \in DOMAIN r.events
               PROVE  /\ r.map[r.events[i].socket][r.events[i].loc] + 1 \in DOMAIN r.events
                      /\ r.events[r.map[r.events[i].socket][r.events[i].loc] + 1] = r.events[i]
    BY DEF Indexed
  <2>1. r.events[i] \in Domains
    BY <1>4
  <2>2. r.events[i] = [socket |-> r.events[i].socket, loc |-> r.events[i].loc]
        /\ r.events[i].socket \in S /\ r.events[i].loc \in Rapl!RaplLocations
    BY <2>1 DEF Domains
  <2>3. CASE r.events[i] = e
    <3>1. r.events[i].socket = s /\ r.events[i].loc = l
      BY <2>3
    <3>2. r.map[r.events[i].socket][r.events[i].loc] = n
      BY <1>6, <3>1
    <3>3. n + 1 \in DOMAIN r.events
      BY <1>2, <1>4
    <3> HIDE DEF e, n
    <3> QED BY <1>4, <2>3, <3>2, <3>3
  <2>4. CASE r.events[i] # e
    <3>1. i \in 1..n /\ r.events[i] = x.events[i]
      BY <1>2, <1>4, <2>4
    <3>2. r.events[i].socket # s \/ r.events[i].loc # l
      BY <2>2, <2>4
    <3>3. r.map[r.events[i].socket][r.events[i].loc] = x.map[r.events[i].socket][r.events[i].loc]
      <4> HIDE DEF S
      <4> QED BY <1>6, <2>2, <3>2
    <3>4. /\ x.map[x.events[i].socket][x.events[i].loc] + 1 \in 1..n
          /\ x.events[x.map[x.events[i].socket][x.events[i].loc] + 1] = x.events[i]
      BY <1>2, <1>9, <3>1 DEF Indexed
    <3> HIDE DEF e
    <3> DEFINE j == x.map[x.events[i].socket][x.events[i].loc] + 1
    <3>5. j \in 1..n /\ x.events[j] = x.events[i]
          /\ r.map[r.events[i].socket][r.events[i].loc] + 1 = j
      <4>1. r.map[r.events[i].socket][r.events[i].loc] = x.map[x.events[i].socket][x.events[i].loc]
        BY <3>1, <3>3
      <4> QED BY <3>4, <4>1
    <3> HIDE DEF j
    <3>6. j \in DOMAIN r.events /\ r.events[j] = r.events[i]
      <4> HIDE DEF n
      <4> QED BY <1>2, <1>4, <3>1, <3>5
    <3> QED BY <3>5, <3>6
  <2> QED BY <2>3, <2>4
<1>10. ASSUME Distinct(x), e \notin ToSet(x.events) PROVE Distinct(r)
  <2> HIDE DEF e
  <2>1. \A i \in 1..n : x.events[i] # e
    BY <1>2, <1>10 DEF ToSet
  <2>2. \A i, j \in 1..n : x.events[i] = x.events[j] => i = j
    BY <1>2, <1>10 DEF Distinct
  <2> QED BY <1>2, <1>4, <2>1, <2>2 DEF Distinct
<1> QED BY <1>3, <1>7, <1>8, <1>9, <1>10

(* A part of a zone.                                                       *)
LEMMA AddEventStep ==
  ASSUME NEW x, ZoneReader(x), NEW zone, NEW s \in 0..(Rapl!MaxSockets - 1), NEW L, NEW r,
         r = Rapl!AddEvent(x, zone, s, L)
  PROVE  /\ ZoneReader(r)
         /\ r.error = Fine =>
               LET key == [socket |-> s, loc |-> Rapl!Domain(zone.name)] IN
               /\ x.error = Fine
               /\ ToSet(r.events) = ToSet(x.events) \cup (IF Rapl!Domain(zone.name) \in L THEN {key} ELSE {})
               /\ Indexed(x) => Indexed(r)
               /\ Distinct(x) /\ key \notin ToSet(x.events) => Distinct(r)
<1> DEFINE l == Rapl!Domain(zone.name)
           errors == <<Rapl!DomainError(zone), IF l \in L THEN Rapl!EventDataError(zone) ELSE Rapl!Fine>>
           failure == Rapl!FirstError(errors)
<1>1. Rapl!Fine = Fine
  BY DEF Rapl!Fine, Fine
<1>2. CASE x.error # Fine
  BY <1>1, <1>2 DEF Rapl!AddEvent
<1>3. CASE x.error = Fine /\ failure # Fine
  <2>1. r = [x EXCEPT !.error = failure]
    <3>1. r = IF x.error # Rapl!Fine THEN x
              ELSE IF failure # Rapl!Fine THEN [x EXCEPT !.error = failure]
              ELSE IF l \notin L THEN x
              ELSE [x EXCEPT !.map[s][l] = Rapl!Len(x.events),
                             !.events = Append(@, [socket |-> s, loc |-> l])]
      BY DEF Rapl!AddEvent
    <3> HIDE DEF l, failure
    <3> QED BY <1>1, <1>3, <3>1
  <2>2. ZoneReader(r) /\ r.error # Fine
    <3> HIDE DEF failure
    <3> QED BY <1>3, <2>1 DEF ZoneReader
  <2> QED BY <2>2
<1>4. CASE x.error = Fine /\ failure = Fine
  <2>1. r = IF l \notin L THEN x
            ELSE [x EXCEPT !.map[s][l] = Len(x.events), !.events = Append(@, [socket |-> s, loc |-> l])]
    BY <1>1, <1>4 DEF Rapl!AddEvent
  <2>2. l \in Rapl!RaplLocations
    <3>1. FirstError(errors) = Fine
      BY <1>4 DEF Rapl!FirstError, FirstError, Rapl!Fine, Fine
    <3>2. Rapl!DomainError(zone) = Fine
      <4> DEFINE second == IF l \in L THEN Rapl!EventDataError(zone) ELSE Rapl!Fine
      <4>1. FirstError(<<Rapl!DomainError(zone), second>>) = Fine
        BY <3>1
      <4> HIDE DEF second
      <4> QED BY <4>1, FirstErrorOfTwo
    <3>3. FirstError(<<Rapl!Check(zone.name = "unreadable", "errno"),
                       Rapl!Check(Rapl!Domain(zone.name) = "unknown", "invalid_domain_name")>>) = Fine
      BY <3>2 DEF Rapl!DomainError, Rapl!FirstError, FirstError, Rapl!Fine, Fine
    <3>4. Rapl!Check(Rapl!Domain(zone.name) = "unknown", "invalid_domain_name") = Fine
      BY <3>3, FirstErrorOfTwo
    <3>5. l # "unknown"
      BY <3>4 DEF Rapl!Check, Fine
    <3> QED BY <3>5 DEF Rapl!Domain, Rapl!RaplLocations
  <2>3. CASE l \in L
    <3> HIDE DEF l
    <3>1. r = [x EXCEPT !.map[s][l] = Len(x.events), !.events = Append(@, [socket |-> s, loc |-> l])]
      BY <2>1, <2>3
    <3>2. /\ ZoneReader(r) /\ r.error = x.error
          /\ ToSet(r.events) = ToSet(x.events) \cup {[socket |-> s, loc |-> l]}
          /\ Indexed(x) => Indexed(r)
          /\ Distinct(x) /\ [socket |-> s, loc |-> l] \notin ToSet(x.events) => Distinct(r)
      BY <2>2, <3>1, EventAppended
    <3> QED BY <1>4, <2>3, <3>2 DEF l
  <2>4. CASE l \notin L
    <3>1. r = x
      BY <2>1, <2>4
    <3> HIDE DEF l
    <3> QED BY <1>4, <2>4, <3>1 DEF l
  <2> QED BY <2>3, <2>4
<1> QED BY <1>2, <1>3, <1>4

(* Induction up to a bound.                                                *)
LEMMA UpTo ==
  ASSUME NEW n \in Nat, NEW G, G \subseteq 0..n, 0 \in G, \A i \in 1..n : i - 1 \in G => i \in G
  PROVE  G = 0..n
<1> DEFINE Bad == (0..n) \ G
<1> SUFFICES ASSUME Bad # {} PROVE FALSE
  OBVIOUS
<1>1. PICK i \in Bad : \A j \in Bad : i <= j
  <2>1. Bad \subseteq Nat
    OBVIOUS
  <2> HIDE DEF Bad
  <2> QED BY <2>1, LeastOf
<1>2. i \in 1..n /\ i - 1 \in 0..n
  BY <1>1
<1>3. i - 1 \in G
  BY <1>1, <1>2
<1> QED BY <1>1, <1>2, <1>3

(* What the event of a part is of.                                         *)
KeyOf(s, part) == [socket |-> s, loc |-> Rapl!Domain(part.name)]

(* From x to r the parts of a zone are added.                              *)
PartsAdded(x, parts, n, s, L, r) ==
    /\ ZoneReader(r)
    /\ r.error = Fine =>
          /\ x.error = Fine
          /\ \A key : key \in ToSet(r.events) <=>
                \/ key \in ToSet(x.events)
                \/ \E k \in 1..n : key = KeyOf(s, parts[k]) /\ Rapl!Domain(parts[k].name) \in L
          /\ Indexed(x) => Indexed(r)
          /\ /\ Distinct(x)
             /\ \A k \in 1..n : KeyOf(s, parts[k]) \notin ToSet(x.events)
             /\ \A k, m \in 1..n : KeyOf(s, parts[k]) = KeyOf(s, parts[m]) => k = m
             => Distinct(r)

(* The parts of a zone, one after the other.                               *)
LEMMA PartsFound ==
  ASSUME NEW x, ZoneReader(x), NEW parts, NEW n \in Nat, DOMAIN parts = 1..n,
         NEW s \in 0..(Rapl!MaxSockets - 1), NEW L, NEW r, r = Rapl!AddEvents(x, parts, s, L)
  PROVE  PartsAdded(x, parts, n, s, L, r)
<1> DEFINE c == [socket |-> s, locations |-> L]
<1>1. PICK h : h[0] = x /\ h[n] = r /\ \A i \in 1..n : h[i] = Step("part", c, h[i - 1], parts[i])
  BY AddEventsReturns DEF Returns
<1>2. \A i \in 1..n : h[i] = Rapl!AddEvent(h[i - 1], parts[i], s, L)
  <2>1. \A y, e : Step("part", c, y, e) = Rapl!AddEvent(y, e, s, L)
    BY DEF Step
  <2> HIDE DEF c
  <2> QED BY <1>1, <2>1
<1> DEFINE Asks(k) == Rapl!Domain(parts[k].name) \in L
           Fresh == /\ Distinct(x)
                    /\ \A k \in 1..n : KeyOf(s, parts[k]) \notin ToSet(x.events)
                    /\ \A k, m \in 1..n : KeyOf(s, parts[k]) = KeyOf(s, parts[m]) => k = m
           FoundTo(i) == \A key : key \in ToSet(h[i].events) <=>
                           \/ key \in ToSet(x.events)
                           \/ \E k \in 1..i : key = KeyOf(s, parts[k]) /\ Asks(k)
           Good(i) == /\ ZoneReader(h[i])
                      /\ h[i].error = Fine =>
                            /\ x.error = Fine
                            /\ FoundTo(i)
                            /\ Indexed(x) => Indexed(h[i])
                            /\ Fresh => Distinct(h[i])
           G == {i \in 0..n : Good(i)}
<1>3. 0 \in G
  <2>1. \A k \in 1..0 : FALSE
    OBVIOUS
  <2> QED BY <1>1, <2>1
<1>4. ASSUME NEW i \in 1..n, i - 1 \in G PROVE i \in G
  <2>1. i - 1 \in 0..n /\ Good(i - 1)
    BY <1>4
  <2> DEFINE y == h[i - 1]
             z == h[i]
             key(k) == KeyOf(s, parts[k])
  <2>2. /\ ZoneReader(z)
        /\ z.error = Fine =>
               /\ y.error = Fine
               /\ ToSet(z.events) = ToSet(y.events) \cup (IF Asks(i) THEN {key(i)} ELSE {})
               /\ Indexed(y) => Indexed(z)
               /\ Distinct(y) /\ key(i) \notin ToSet(y.events) => Distinct(z)
    <3>1. z = Rapl!AddEvent(y, parts[i], s, L) /\ ZoneReader(y)
      BY <1>2, <2>1
    <3> HIDE DEF y, z
    <3> QED BY <3>1, AddEventStep DEF KeyOf
  <2>3. SUFFICES ASSUME z.error = Fine
                 PROVE  /\ x.error = Fine
                        /\ FoundTo(i)
                        /\ Indexed(x) => Indexed(z)
                        /\ Fresh => Distinct(z)
    BY <2>2
  <2>4. y.error = Fine
    BY <2>2, <2>3
  <2>5. x.error = Fine /\ FoundTo(i - 1) /\ (Indexed(x) => Indexed(y)) /\ (Fresh => Distinct(y))
    BY <2>1, <2>4
  <2>6. FoundTo(i)
    <3>1. \A k : k \in 1..i <=> k \in 1..(i - 1) \/ k = i
      OBVIOUS
    <3>2. \A p : p \in ToSet(z.events) <=> p \in ToSet(y.events) \/ (p = key(i) /\ Asks(i))
      BY <2>2, <2>3
    <3>3. \A p : p \in ToSet(y.events) <=>
               \/ p \in ToSet(x.events)
               \/ \E k \in 1..(i - 1) : p = key(k) /\ Asks(k)
      BY <2>5
    <3> HIDE DEF y, z, key, Asks
    <3>4. \A p : p \in ToSet(z.events) <=>
               \/ p \in ToSet(x.events)
               \/ \E k \in 1..i : p = key(k) /\ Asks(k)
      BY <3>1, <3>2, <3>3
    <3> QED BY <3>4 DEF z, key
  <2>7. ASSUME Fresh PROVE Distinct(z)
    <3>1. key(i) \notin ToSet(y.events)
      <4>1. \A k \in 1..(i - 1) : k \in 1..n /\ k # i
        OBVIOUS
      <4>2. key(i) \notin ToSet(x.events) /\ \A k \in 1..n : key(i) = key(k) => i = k
        BY <2>7
      <4>3. \A p : p \in ToSet(y.events) <=>
               \/ p \in ToSet(x.events)
               \/ \E k \in 1..(i - 1) : p = key(k) /\ Asks(k)
        BY <2>5
      <4> HIDE DEF key, Asks, y
      <4> QED BY <4>1, <4>2, <4>3
    <3> QED BY <2>2, <2>3, <2>5, <2>7, <3>1
  <2> QED BY <2>2, <2>3, <2>5, <2>6, <2>7
<1>5. G = 0..n
  <2>1. G \subseteq 0..n
    OBVIOUS
  <2> HIDE DEF G
  <2> QED BY <1>3, <1>4, <2>1, UpTo
<1>6. Good(n)
  <2>1. n \in G
    <3> HIDE DEF G
    <3> QED BY <1>5
  <2> QED BY <2>1
<1> QED BY <1>1, <1>6 DEF PartsAdded

(* A zone of the machine.                                                  *)
IsZone(zone) == zone = Rapl!NoZone \/ (zone.number \in Int /\ IsSequence(zone.subdomains))

(* The parts of a zone are a sequence.                                     *)
LEMMA PartsOfZone ==
  ASSUME NEW zone, IsSequence(zone.subdomains)
  PROVE  \E n \in Nat : DOMAIN Rapl!Parts(zone) = 1..n
<1> DEFINE d == zone.subdomains
           S == ToSet(d) \cup {zone}
<1> HIDE DEF d
<1>1. d \in Seq(ToSet(d))
  BY DEF IsSequence, d
<1>2. d \in Seq(S) /\ <<zone>> \in Seq(S)
  <2>1. ToSet(d) \subseteq S
    OBVIOUS
  <2>2. d \in Seq(S)
    <3> HIDE DEF S
    <3> QED BY <1>1, <2>1
  <2>3. zone \in S
    OBVIOUS
  <2> HIDE DEF S
  <2> QED BY <2>2, <2>3
<1>3. <<zone>> \o d \in Seq(S)
  <2> HIDE DEF S
  <2> QED BY <1>2
<1>4. Rapl!Parts(zone) = <<zone>> \o d
  BY DEF Rapl!Parts, d
<1> DEFINE q == <<zone>> \o d
<1>5. DOMAIN q = 1..Len(q) /\ Len(q) \in Nat
  <2> HIDE DEF q, S
  <2> QED BY <1>3 DEF q
<1> HIDE DEF q
<1> QED BY <1>4, <1>5 DEF q

(* A package zone that is accepted has the number of a socket.             *)
LEMMA PackageAccepted ==
  ASSUME NEW zone, zone.number \in Int, Rapl!PackageNumberError(zone) = Fine
  PROVE  zone.number \in 0..(Rapl!MaxSockets - 1)
<1> DEFINE errors == <<Rapl!Check(zone.name = "unreadable", "errno"),
                 Rapl!Check(Rapl!Domain(zone.name) # "pkg", "package_num_wrong_domain"),
                 Rapl!Check(zone.number < 0, "invalid_argument"),
                 Rapl!Check(zone.number >= Rapl!MaxSockets, "too_many_sockets")>>
<1>1. FirstError(errors) = Fine
  BY DEF Rapl!PackageNumberError, Rapl!FirstError, FirstError, Rapl!Fine, Fine
<1>2. DOMAIN errors \subseteq Nat /\ 3 \in DOMAIN errors /\ 4 \in DOMAIN errors
  OBVIOUS
<1>3. errors[3] = Fine /\ errors[4] = Fine
  <2> HIDE DEF errors
  <2> QED BY <1>1, <1>2, FirstErrorFine
<1>4. ~(zone.number < 0) /\ ~(zone.number >= Rapl!MaxSockets)
  BY <1>3 DEF Rapl!Check, Fine
<1> QED BY <1>4 DEF Rapl!MaxSockets

(* An event that the masks and a zone call for.                            *)
Wanted(zone, L, S, key) ==
    /\ zone # Rapl!NoZone /\ zone.number \in S
    /\ \E k \in DOMAIN Rapl!Parts(zone) :
          key = KeyOf(zone.number, Rapl!Parts(zone)[k]) /\ Rapl!Domain(Rapl!Parts(zone)[k].name) \in L

(* A zone and its parts.                                                   *)
LEMMA AddZoneStep ==
  ASSUME NEW x, ZoneReader(x), NEW zone, IsZone(zone), NEW L, NEW S, NEW r, r = Rapl!AddZone(x, zone, L, S)
  PROVE  /\ ZoneReader(r)
         /\ r.error = Fine =>
               /\ x.error = Fine
               /\ \A key : key \in ToSet(r.events) <=> key \in ToSet(x.events) \/ Wanted(zone, L, S, key)
               /\ Indexed(x) => Indexed(r)
               /\ /\ Distinct(x)
                  /\ zone # Rapl!NoZone =>
                       /\ \A k \in DOMAIN Rapl!Parts(zone) :
                              KeyOf(zone.number, Rapl!Parts(zone)[k]) \notin ToSet(x.events)
                       /\ \A k, m \in DOMAIN Rapl!Parts(zone) :
                              KeyOf(zone.number, Rapl!Parts(zone)[k]) = KeyOf(zone.number, Rapl!Parts(zone)[m])
                              => k = m
                  => Distinct(r)
<1> DEFINE failure == Rapl!PackageNumberError(zone)
<1>1. Rapl!Fine = Fine
  BY DEF Rapl!Fine, Fine
<1>2. CASE x.error # Fine
  BY <1>1, <1>2 DEF Rapl!AddZone
<1>3. CASE x.error = Fine /\ zone = Rapl!NoZone
  BY <1>1, <1>3 DEF Rapl!AddZone, Wanted
<1>4. CASE x.error = Fine /\ zone # Rapl!NoZone /\ failure # Fine
  <2>1. r = [x EXCEPT !.error = failure]
    BY <1>1, <1>4 DEF Rapl!AddZone
  <2> HIDE DEF failure
  <2> QED BY <1>4, <2>1 DEF ZoneReader
<1>5. CASE x.error = Fine /\ zone # Rapl!NoZone /\ failure = Fine /\ zone.number \notin S
  BY <1>1, <1>5 DEF Rapl!AddZone, Wanted
<1>6. CASE x.error = Fine /\ zone # Rapl!NoZone /\ failure = Fine /\ zone.number \in S
  <2>1. r = Rapl!AddEvents(x, Rapl!Parts(zone), zone.number, L)
    BY <1>1, <1>6 DEF Rapl!AddZone
  <2>2. zone.number \in 0..(Rapl!MaxSockets - 1)
    BY <1>6, PackageAccepted DEF IsZone
  <2>3. PICK n \in Nat : DOMAIN Rapl!Parts(zone) = 1..n
    BY <1>6, PartsOfZone DEF IsZone
  <2> DEFINE parts == Rapl!Parts(zone)
             s == zone.number
  <2>4. /\ ZoneReader(r)
        /\ r.error = Fine =>
               /\ x.error = Fine
               /\ \A key : key \in ToSet(r.events) <=>
                     \/ key \in ToSet(x.events)
                     \/ \E k \in 1..n : key = KeyOf(s, parts[k]) /\ Rapl!Domain(parts[k].name) \in L
               /\ Indexed(x) => Indexed(r)
               /\ /\ Distinct(x)
                  /\ \A k \in 1..n : KeyOf(s, parts[k]) \notin ToSet(x.events)
                  /\ \A k, m \in 1..n : KeyOf(s, parts[k]) = KeyOf(s, parts[m]) => k = m
                  => Distinct(r)
    <3>1. /\ s \in 0..(Rapl!MaxSockets - 1) /\ DOMAIN parts = 1..n
          /\ r = Rapl!AddEvents(x, parts, s, L)
      BY <2>1, <2>2, <2>3
    <3> HIDE DEF parts, s
    <3>2. PartsAdded(x, parts, n, s, L, r)
      BY <3>1, PartsFound
    <3> QED BY <3>2 DEF PartsAdded
  <2>5. \A key : Wanted(zone, L, S, key) <=>
               \E k \in 1..n : key = KeyOf(s, parts[k]) /\ Rapl!Domain(parts[k].name) \in L
    BY <1>6, <2>3 DEF Wanted
  <2>6. ASSUME r.error = Fine
        PROVE  \A key : key \in ToSet(r.events) <=> key \in ToSet(x.events) \/ Wanted(zone, L, S, key)
    <3> HIDE DEF parts, s
    <3> QED BY <2>4, <2>5, <2>6
  <2>7. DOMAIN parts = 1..n
    BY <2>3
  <2> DEFINE New == \A k \in DOMAIN parts : KeyOf(s, parts[k]) \notin ToSet(x.events)
             Single == \A k, m \in DOMAIN parts : KeyOf(s, parts[k]) = KeyOf(s, parts[m]) => k = m
  <2>8. r.error = Fine => /\ x.error = Fine
                          /\ Indexed(x) => Indexed(r)
                          /\ Distinct(x) /\ New /\ Single => Distinct(r)
    BY <2>4, <2>7
  <2>9. r.error = Fine => (Distinct(x) /\ (zone # Rapl!NoZone => New /\ Single) => Distinct(r))
    <3> HIDE DEF New, Single
    <3> QED BY <1>6, <2>8
  <2> HIDE DEF failure
  <2> QED BY <2>4, <2>6, <2>8, <2>9
<1> QED BY <1>2, <1>3, <1>4, <1>5, <1>6

(* Each package has one zone, and each domain of it one part.              *)
OnePartEach(zones, n) ==
    /\ \A i, j \in 1..n : /\ zones[i] # Rapl!NoZone /\ zones[j] # Rapl!NoZone
                          /\ zones[i].number = zones[j].number
                          => i = j
    /\ \A i \in 1..n : zones[i] # Rapl!NoZone =>
          \A k, m \in DOMAIN Rapl!Parts(zones[i]) :
              Rapl!Domain(Rapl!Parts(zones[i])[k].name) = Rapl!Domain(Rapl!Parts(zones[i])[m].name) => k = m

(* All zones, one after the other.                                         *)
LEMMA ZonesFound ==
  ASSUME NEW zones, NEW n \in Nat, DOMAIN zones = 1..n, \A i \in 1..n : IsZone(zones[i]),
         NEW L, NEW S, NEW r, r = Rapl!AddZones(zones, L, S), r.error = Fine
  PROVE  /\ ZoneReader(r)
         /\ \A key : key \in ToSet(r.events) <=> \E i \in 1..n : Wanted(zones[i], L, S, key)
         /\ Indexed(r)
         /\ OnePartEach(zones, n) => Distinct(r)
<1> DEFINE c == [locations |-> L, sockets |-> S]
<1>1. PICK h : h[0] = Rapl!None /\ h[n] = r /\ \A i \in 1..n : h[i] = Step("zone", c, h[i - 1], zones[i])
  BY AddZonesReturns DEF Returns
<1>2. \A i \in 1..n : h[i] = Rapl!AddZone(h[i - 1], zones[i], L, S)
  <2>1. \A y, e : Step("zone", c, y, e) = Rapl!AddZone(y, e, L, S)
    BY DEF Step
  <2> HIDE DEF c
  <2> QED BY <1>1, <2>1
<1> DEFINE FoundTo(i) == \A key : key \in ToSet(h[i].events) <=> \E j \in 1..i : Wanted(zones[j], L, S, key)
           Good(i) == /\ ZoneReader(h[i])
                      /\ h[i].error = Fine =>
                            /\ FoundTo(i)
                            /\ Indexed(h[i])
                            /\ OnePartEach(zones, n) => Distinct(h[i])
           G == {i \in 0..n : Good(i)}
<1>3. 0 \in G
  <2>1. \A k \in 1..0 : FALSE
    OBVIOUS
  <2>2. h[0].events = <<>> /\ ZoneReader(h[0])
    BY <1>1 DEF Rapl!None, ZoneReader, Rapl!NoEvent
  <2>3. ToSet(h[0].events) = {} /\ DOMAIN h[0].events = {}
    BY <2>2 DEF ToSet
  <2>4. Indexed(h[0]) /\ Distinct(h[0])
    BY <2>3 DEF Indexed, Distinct
  <2>5. FoundTo(0)
    BY <2>1, <2>3
  <2> QED BY <2>2, <2>4, <2>5
<1>4. ASSUME NEW i \in 1..n, i - 1 \in G PROVE i \in G
  <2>1. i - 1 \in 0..n /\ Good(i - 1)
    BY <1>4
  <2> DEFINE y == h[i - 1]
             z == h[i]
             zone == zones[i]
             parts == Rapl!Parts(zone)
             key(k) == KeyOf(zone.number, parts[k])
             W(j, p) == Wanted(zones[j], L, S, p)
  <2>2. /\ ZoneReader(z)
        /\ z.error = Fine =>
               /\ y.error = Fine
               /\ \A p : p \in ToSet(z.events) <=> p \in ToSet(y.events) \/ W(i, p)
               /\ Indexed(y) => Indexed(z)
               /\ /\ Distinct(y)
                  /\ zone # Rapl!NoZone =>
                       /\ \A k \in DOMAIN parts : key(k) \notin ToSet(y.events)
                       /\ \A k, m \in DOMAIN parts : key(k) = key(m) => k = m
                  => Distinct(z)
    <3>1. z = Rapl!AddZone(y, zone, L, S) /\ ZoneReader(y) /\ IsZone(zone)
      BY <1>2, <2>1
    <3> HIDE DEF y, z, zone
    <3> QED BY <3>1, AddZoneStep DEF zone
  <2>3. SUFFICES ASSUME z.error = Fine
                 PROVE  /\ FoundTo(i)
                        /\ Indexed(z)
                        /\ OnePartEach(zones, n) => Distinct(z)
    BY <2>2
  <2>4. y.error = Fine
    BY <2>2, <2>3
  <2>5. FoundTo(i - 1) /\ Indexed(y) /\ (OnePartEach(zones, n) => Distinct(y))
    BY <2>1, <2>4
  <2>6. FoundTo(i)
    <3>1. \A k : k \in 1..i <=> k \in 1..(i - 1) \/ k = i
      OBVIOUS
    <3>2. \A p : p \in ToSet(z.events) <=> p \in ToSet(y.events) \/ W(i, p)
      BY <2>2, <2>3
    <3>3. \A p : p \in ToSet(y.events) <=> \E k \in 1..(i - 1) : W(k, p)
      BY <2>5
    <3> HIDE DEF y, z, W
    <3>4. \A p : p \in ToSet(z.events) <=> \E k \in 1..i : W(k, p)
      BY <3>1, <3>2, <3>3
    <3> QED BY <3>4 DEF z, W
  <2>7. ASSUME OnePartEach(zones, n) PROVE Distinct(z)
    <3>1. ASSUME zone # Rapl!NoZone, NEW k \in DOMAIN parts PROVE key(k) \notin ToSet(y.events)
      <4> SUFFICES ASSUME key(k) \in ToSet(y.events) PROVE FALSE
        OBVIOUS
      <4>1. PICK j \in 1..(i - 1) : Wanted(zones[j], L, S, key(k))
        BY <2>5
      <4>2. zones[j] # Rapl!NoZone /\ key(k).socket = zones[j].number
        BY <4>1 DEF Wanted, KeyOf
      <4>3. key(k).socket = zones[i].number
        BY DEF KeyOf
      <4>4. j \in 1..n /\ j # i
        OBVIOUS
      <4> QED BY <2>7, <3>1, <4>2, <4>3, <4>4 DEF OnePartEach
    <3>2. ASSUME zone # Rapl!NoZone, NEW k \in DOMAIN parts, NEW m \in DOMAIN parts, key(k) = key(m)
          PROVE  k = m
      <4>1. Rapl!Domain(parts[k].name) = Rapl!Domain(parts[m].name)
        BY <3>2 DEF KeyOf
      <4> QED BY <2>7, <3>2, <4>1 DEF OnePartEach
    <3> HIDE DEF key, zone, parts, y, z
    <3> QED BY <2>2, <2>3, <2>5, <2>7, <3>1, <3>2
  <2> QED BY <2>2, <2>3, <2>5, <2>6, <2>7
<1>5. G = 0..n
  <2>1. G \subseteq 0..n
    OBVIOUS
  <2> HIDE DEF G
  <2> QED BY <1>3, <1>4, <2>1, UpTo
<1>6. Good(n)
  <2>1. n \in G
    <3> HIDE DEF G
    <3> QED BY <1>5
  <2> QED BY <2>1
<1> QED BY <1>1, <1>6

(* The cardinality of the instances is the library's.                      *)
LEMMA SameCardinality ==
  ASSUME NEW S PROVE Rapl!Cardinality(S) = Cardinality(S) /\ Occ!Cardinality(S) = Cardinality(S)
BY DEF Cardinality, Rapl!Cardinality, Occ!Cardinality

(* The first so many of a sequence that is long enough.                    *)
LEMMA FirstOf ==
  ASSUME NEW s, IsSequence(s), NEW n \in Nat, n <= Len(s)
  PROVE  DOMAIN SubSeq(s, 1, n) = 1..n /\ \A i \in 1..n : SubSeq(s, 1, n)[i] = s[i]
<1>1. s \in Seq(ToSet(s))
  BY DEF IsSequence
<1>2. \A i \in 1..n : SubSeq(s, 1, n)[i] = s[i]
  <2> DEFINE T == ToSet(s)
  <2> HIDE DEF T
  <2>1. s \in Seq(T)
    BY <1>1 DEF T
  <2> QED BY <2>1
<1>3. DOMAIN SubSeq(s, 1, n) = 1..n
  <2> DEFINE T == ToSet(s)
  <2> HIDE DEF T
  <2>1. s \in Seq(T)
    BY <1>1 DEF T
  <2> QED BY <2>1
<1> QED BY <1>2, <1>3

(* The reader of x86_64 that is made without an error.                     *)
LEMMA RaplReaderFound ==
  ASSUME NEW machine, IsFiniteSet(machine.packages), IsSequence(machine.zones),
         Cardinality(machine.packages) <= Len(machine.zones),
         \A zone \in ToSet(machine.zones) : IsZone(zone),
         NEW L, NEW S, NEW r, r = Rapl!RaplReaderOf(machine, L, S), r.error = Fine
  PROVE  LET n == Cardinality(machine.packages) IN
         /\ ZoneReader(r)
         /\ \A key : key \in ToSet(r.events) <=> \E i \in 1..n : Wanted(machine.zones[i], L, S, key)
         /\ Indexed(r)
         /\ OnePartEach(machine.zones, n) => Distinct(r)
<1> DEFINE n == Cardinality(machine.packages)
           tried == SubSeq(machine.zones, 1, n)
           found == Rapl!AddZones(tried, L, S)
           early == Rapl!FirstError(<<Rapl!Check(L = {}, "invalid_location_mask"),
                                      Rapl!Check(S = {}, "invalid_socket_mask"),
                                      Rapl!CountSocketsError(machine)>>)
<1>1. n \in Nat
  BY FS_CardinalityType
<1>2. DOMAIN tried = 1..n /\ \A i \in 1..n : tried[i] = machine.zones[i]
  <2> HIDE DEF n
  <2> QED BY <1>1, FirstOf DEF n
<1>3. r = found /\ found.error = Fine
  <2>1. r = IF early # Rapl!Fine THEN [Rapl!None EXCEPT !.error = early]
            ELSE IF found.error = Rapl!Fine /\ found.events = <<>>
                 THEN [Rapl!None EXCEPT !.error = "no_events_added"]
                 ELSE found
    BY SameCardinality DEF Rapl!RaplReaderOf
  <2> HIDE DEF early, found
  <2>2. r = [Rapl!None EXCEPT !.error = early] => r.error = early
    BY DEF Rapl!None
  <2>3. r = [Rapl!None EXCEPT !.error = "no_events_added"] => r.error # Fine
    BY DEF Rapl!None, Fine
  <2> QED BY <2>1, <2>2, <2>3 DEF Rapl!Fine, Fine
<1>4. \A i \in 1..n : IsZone(tried[i])
  <2>1. \A i \in 1..n : machine.zones[i] \in ToSet(machine.zones)
    <3> DEFINE z == machine.zones
               T == ToSet(z)
    <3>1. z \in Seq(T) /\ n <= Len(z)
      BY DEF IsSequence
    <3> HIDE DEF n, z, T
    <3>2. \A i \in 1..n : z[i] \in T
      BY <1>1, <3>1
    <3> QED BY <3>2 DEF z, T
  <2> QED BY <1>2, <2>1
<1>5. /\ ZoneReader(found)
      /\ \A key : key \in ToSet(found.events) <=> \E i \in 1..n : Wanted(tried[i], L, S, key)
      /\ Indexed(found)
      /\ OnePartEach(tried, n) => Distinct(found)
  <2> HIDE DEF n, tried
  <2> QED BY <1>1, <1>2, <1>3, <1>4, ZonesFound
<1>6. OnePartEach(tried, n) <=> OnePartEach(machine.zones, n)
  <2> HIDE DEF n, tried
  <2> QED BY <1>2 DEF OnePartEach
<1> HIDE DEF n, tried, found
<1>7. \A key : (\E i \in 1..n : Wanted(tried[i], L, S, key))
               <=> (\E i \in 1..n : Wanted(machine.zones[i], L, S, key))
  BY <1>2
<1>8. \A key : key \in ToSet(r.events) <=> \E i \in 1..n : Wanted(machine.zones[i], L, S, key)
  BY <1>3, <1>5, <1>7
<1> QED BY <1>3, <1>5, <1>6, <1>8 DEF n

-----------------------------------------------------------------------------
(* What the constructor of the CPU reader of ppc64 has found.              *)
Controllers == 0..(Occ!MaxSockets - 1)

ControllerOf(T) == [occ : Controllers, entries : Seq(T)]

BlockReader(x, T) ==
    /\ x = [error |-> x.error, map |-> x.map, events |-> x.events]
    /\ x.map \in [Controllers -> [Occ!OccLocations -> Int]]
    /\ x.events \in Seq(ControllerOf(T))
    /\ \A i, j \in DOMAIN x.events : x.events[i].occ = x.events[j].occ => i = j

(* There is an event of a controller, and it has a sensor.                 *)
HasController(x, o) == \E i \in DOMAIN x.events : x.events[i].occ = o

HasSensor(x, o, e) == \E i \in DOMAIN x.events : x.events[i].occ = o /\ e \in ToSet(x.events[i].entries)

(* The map leads from a location to the event of its controller.           *)
Leads(x, o, l) ==
    LET k == x.map[o][l] + 1 IN k \in DOMAIN x.events /\ x.events[k].occ = o

(* From x to r the locations of A may be added, and the sensors of E, to   *)
(* the controller o, which may be new.                                     *)
Gains(x, r, T, A, o, E) ==
    /\ BlockReader(r, T)
    /\ r.error = Fine =>
          /\ x.error = Fine
          /\ \A p : HasController(r, p) <=> HasController(x, p) \/ (p = o /\ A # {})
          /\ \A p \in Controllers, l \in Occ!OccLocations :
                Leads(x, p, l) \/ (p = o /\ l \in A) => Leads(r, p, l)
          /\ \A p, e : HasSensor(r, p, e) <=> HasSensor(x, p, e) \/ (p = o /\ e \in E)

(* The controllers stay where they are.                                    *)
SameOrder(x, r) ==
    /\ r.map = x.map
    /\ DOMAIN r.events = DOMAIN x.events
    /\ \A i \in DOMAIN x.events : r.events[i].occ = x.events[i].occ

(* One more element.                                                       *)
LEMMA Appended ==
  ASSUME NEW T, NEW s \in Seq(T), NEW e \in T
  PROVE  /\ Append(s, e) \in Seq(T)
         /\ \A y : y \in ToSet(Append(s, e)) <=> y \in ToSet(s) \/ y = e
<1>1. Append(s, e) \in Seq(T) /\ DOMAIN Append(s, e) = 1..(Len(s) + 1) /\ Append(s, e)[Len(s) + 1] = e
      /\ \A i \in 1..Len(s) : Append(s, e)[i] = s[i]
  OBVIOUS
<1>2. DOMAIN s = 1..Len(s) /\ Len(s) \in Nat
  OBVIOUS
<1> DEFINE n == Len(s)
           a == Append(s, e)
<1>3. \A i : i \in 1..(n + 1) <=> i \in 1..n \/ i = n + 1
  BY <1>2
<1>4. \A y : y \in ToSet(a) <=> \E i \in 1..(n + 1) : a[i] = y
  BY <1>1 DEF ToSet
<1>5. \A y : y \in ToSet(s) <=> \E i \in 1..n : s[i] = y
  BY <1>2 DEF ToSet
<1>6. a[n + 1] = e /\ \A i \in 1..n : a[i] = s[i]
  BY <1>1
<1> HIDE DEF n, a
<1>7. \A y : y \in ToSet(a) <=> y \in ToSet(s) \/ y = e
  BY <1>3, <1>4, <1>5, <1>6
<1> QED BY <1>1, <1>7 DEF a

(* A sensor, if it gives the location.                                     *)
Served(sensor, l) == {e \in {sensor} : Occ!Serves(e, l)}

(* A sensor of a controller that has its event.                            *)
LEMMA AddEntryStep ==
  ASSUME NEW T, NEW x, BlockReader(x, T), NEW sensor \in T, NEW idx \in Nat, idx + 1 \in DOMAIN x.events,
         NEW l, NEW r, r = Occ!AddEntry(x, idx, sensor, l), NEW o, o = x.events[idx + 1].occ
  PROVE  /\ Gains(x, r, T, {}, o, Served(sensor, l))
         /\ SameOrder(x, r)
<1>1. Occ!Fine = Fine
  BY DEF Occ!Fine, Fine
<1>2. CASE x.error # Fine \/ ~Occ!Serves(sensor, l)
  <2>1. r = x
    BY <1>1, <1>2 DEF Occ!AddEntry
  <2> QED BY <1>2, <2>1 DEF Gains, SameOrder, Served
<1>3. CASE x.error = Fine /\ Occ!Serves(sensor, l) /\ sensor.version # 1
  <2>1. r = [x EXCEPT !.error = "file_format_version_error"]
    BY <1>1, <1>3 DEF Occ!AddEntry
  <2>2. /\ r.error # Fine /\ r.events = x.events /\ r.map = x.map
        /\ r = [error |-> r.error, map |-> r.map, events |-> r.events]
    BY <2>1 DEF BlockReader, Fine
  <2> QED BY <2>2 DEF Gains, SameOrder, BlockReader
<1>4. CASE x.error = Fine /\ Occ!Serves(sensor, l) /\ sensor.version = 1
  <2> DEFINE q == x.events
             j == idx + 1
             C == ControllerOf(T)
             w == [q EXCEPT ![j].entries = Append(@, sensor)]
  <2>1. r = [x EXCEPT !.events[idx + 1].entries = Append(@, sensor)]
    BY <1>1, <1>4 DEF Occ!AddEntry
  <2>2. /\ r.error = x.error /\ r.events = w /\ r.map = x.map
        /\ r = [error |-> r.error, map |-> r.map, events |-> r.events]
    <3>1. x = [error |-> x.error, map |-> x.map, events |-> q]
      BY DEF BlockReader
    <3>2. r = [x EXCEPT !.events = w]
      BY <2>1
    <3> HIDE DEF w
    <3>3. r = [error |-> x.error, map |-> x.map, events |-> w]
      BY <3>1, <3>2
    <3> QED BY <3>3
  <2>3. q \in Seq(C) /\ j \in DOMAIN q
    BY DEF BlockReader
  <2>4. q[j] = [occ |-> q[j].occ, entries |-> q[j].entries] /\ q[j].entries \in Seq(T) /\ q[j].occ \in Controllers
    <3>1. q[j] \in C
      <4> HIDE DEF q, j, C
      <4> QED BY <2>3
    <3> HIDE DEF q, j
    <3> QED BY <3>1 DEF ControllerOf
  <2> DEFINE a == Append(q[j].entries, sensor)
             new == [occ |-> q[j].occ, entries |-> a]
  <2>5. a \in Seq(T) /\ \A y : y \in ToSet(a) <=> y \in ToSet(q[j].entries) \/ y = sensor
    <3> DEFINE b == q[j].entries
    <3>1. b \in Seq(T)
      BY <2>4
    <3> HIDE DEF b
    <3> QED BY <3>1, Appended DEF b
  <2>6. w = [q EXCEPT ![j] = new]
    <3> DEFINE b == q[j]
    <3>1. w = [q EXCEPT ![j] = [b EXCEPT !.entries = Append(b.entries, sensor)]]
      OBVIOUS
    <3>2. [b EXCEPT !.entries = Append(b.entries, sensor)] = new
      <4>1. /\ b = [occ |-> b.occ, entries |-> b.entries]
            /\ new = [occ |-> b.occ, entries |-> Append(b.entries, sensor)]
        BY <2>4
      <4> HIDE DEF b, new
      <4> QED BY <4>1
    <3> HIDE DEF b, new, w
    <3> QED BY <3>1, <3>2
  <2>7. new \in C /\ new.occ = q[j].occ /\ new.entries = a
    <3> HIDE DEF a, q, j
    <3> QED BY <2>4, <2>5 DEF ControllerOf
  <2>8. w \in Seq(C) /\ DOMAIN w = DOMAIN q /\ w[j] = new /\ \A i \in DOMAIN q : i # j => w[i] = q[i]
    <3> HIDE DEF q, j, new, C, w
    <3>1. q \in Seq(C) /\ j \in DOMAIN q /\ new \in C /\ w = [q EXCEPT ![j] = new]
      BY <2>3, <2>6, <2>7
    <3>2. DOMAIN q = 1..Len(q) /\ Len(q) \in Nat
      BY <3>1
    <3>3. DOMAIN w = DOMAIN q /\ w[j] = new /\ \A i \in DOMAIN q : i # j => w[i] = q[i]
      BY <3>1
    <3>4. w \in Seq(C)
      BY <3>1
    <3> QED BY <3>3, <3>4
  <2> HIDE DEF a, new, w, j
  <2>9. \A i \in DOMAIN q : w[i].occ = q[i].occ
    BY <2>7, <2>8
  <2>10. SameOrder(x, r)
    BY <2>2, <2>8, <2>9 DEF SameOrder
  <2>11. BlockReader(r, T)
    BY <2>2, <2>8, <2>9 DEF BlockReader
  <2>12. \A p : HasController(r, p) <=> HasController(x, p)
    BY <2>2, <2>8, <2>9 DEF HasController
  <2>13. ASSUME NEW p, NEW e
         PROVE  HasSensor(r, p, e) <=> HasSensor(x, p, e) \/ (p = o /\ e = sensor)
    <3>1. \A i \in DOMAIN q : e \in ToSet(w[i].entries) <=> e \in ToSet(q[i].entries) \/ (i = j /\ e = sensor)
      BY <2>5, <2>7, <2>8
    <3>2. q[j].occ = o /\ j \in DOMAIN q
      BY <2>3 DEF j
    <3>3. \A i \in DOMAIN q : q[i].occ = o => i = j
      BY <3>2 DEF BlockReader
    <3>4. HasSensor(x, p, e) <=> \E i \in DOMAIN q : q[i].occ = p /\ e \in ToSet(q[i].entries)
      BY DEF HasSensor
    <3>5. HasSensor(r, p, e) <=> \E i \in DOMAIN q : q[i].occ = p /\ e \in ToSet(w[i].entries)
      BY <2>2, <2>8, <2>9 DEF HasSensor
    <3> HIDE DEF q
    <3> QED BY <3>1, <3>2, <3>3, <3>4, <3>5
  <2>14. \A e : e \in Served(sensor, l) <=> e = sensor
    BY <1>4 DEF Served
  <2>15. \A p, k : Leads(x, p, k) => Leads(r, p, k)
    BY <2>10 DEF Leads, SameOrder
  <2> QED BY <1>4, <2>2, <2>10, <2>11, <2>12, <2>13, <2>14, <2>15 DEF Gains
<1> QED BY <1>2, <1>3, <1>4

(* Gaining nothing.                                                        *)
LEMMA GainsNothing ==
  ASSUME NEW T, NEW x, BlockReader(x, T), NEW o
  PROVE  Gains(x, x, T, {}, o, {})
BY DEF Gains

(* One gain after the other.                                               *)
LEMMA GainsThen ==
  ASSUME NEW T, NEW x, NEW y, NEW z, NEW o, NEW A, NEW E, NEW B, NEW F,
         Gains(x, y, T, A, o, E), Gains(y, z, T, B, o, F)
  PROVE  Gains(x, z, T, A \cup B, o, E \cup F)
<1>1. BlockReader(z, T)
  BY DEF Gains
<1>2. ASSUME z.error = Fine
      PROVE  /\ x.error = Fine
             /\ \A p : HasController(z, p) <=> HasController(x, p) \/ (p = o /\ A \cup B # {})
             /\ \A p \in Controllers, l \in Occ!OccLocations :
                   Leads(x, p, l) \/ (p = o /\ l \in A \cup B) => Leads(z, p, l)
             /\ \A p, e : HasSensor(z, p, e) <=> HasSensor(x, p, e) \/ (p = o /\ e \in E \cup F)
  <2>1. y.error = Fine
    BY <1>2 DEF Gains
  <2>2. x.error = Fine
    BY <2>1 DEF Gains
  <2>3. \A p : HasController(z, p) <=> HasController(x, p) \/ (p = o /\ A \cup B # {})
    BY <1>2, <2>1 DEF Gains
  <2>4. \A p, e : HasSensor(z, p, e) <=> HasSensor(x, p, e) \/ (p = o /\ e \in E \cup F)
    BY <1>2, <2>1 DEF Gains
  <2>5. \A p \in Controllers, l \in Occ!OccLocations :
            Leads(x, p, l) \/ (p = o /\ l \in A \cup B) => Leads(z, p, l)
    BY <1>2, <2>1 DEF Gains
  <2> QED BY <2>2, <2>3, <2>4, <2>5
<1> QED BY <1>1, <1>2 DEF Gains

(* The sensors of a controller that give a location.                       *)
Serving(entries, l) == {e \in ToSet(entries) : Occ!Serves(e, l)}

(* All sensors of a controller that give a location.                       *)
LEMMA EntriesFound ==
  ASSUME NEW T, NEW x, BlockReader(x, T), NEW entries \in Seq(T), NEW idx \in Nat, idx + 1 \in DOMAIN x.events,
         NEW l, NEW r, r = Occ!AddEntries(x, idx, entries, l), NEW o, o = x.events[idx + 1].occ
  PROVE  Gains(x, r, T, {}, o, Serving(entries, l))
<1> DEFINE n == Len(entries)
           c == [idx |-> idx, l |-> l]
<1>1. n \in Nat /\ DOMAIN entries = 1..n /\ \A i \in 1..n : entries[i] \in T
  OBVIOUS
<1>2. PICK h : h[0] = x /\ h[n] = r /\ \A i \in 1..n : h[i] = Step("entry", c, h[i - 1], entries[i])
  <2>1. Returns("entry", c, x, entries, n, Occ!AddEntries(x, idx, entries, l))
    <3> HIDE DEF n
    <3> QED BY <1>1, AddEntriesReturns
  <2> HIDE DEF c, n
  <2> QED BY <2>1 DEF Returns
<1>3. \A i \in 1..n : h[i] = Occ!AddEntry(h[i - 1], idx, entries[i], l)
  <2>1. \A y, e : Step("entry", c, y, e) = Occ!AddEntry(y, idx, e, l)
    BY DEF Step
  <2> HIDE DEF c, n
  <2> QED BY <1>2, <2>1
<1> HIDE DEF n
<1> DEFINE Upto(i) == {e \in {entries[k] : k \in 1..i} : Occ!Serves(e, l)}
           Good(i) == Gains(x, h[i], T, {}, o, Upto(i)) /\ SameOrder(x, h[i])
           G == {i \in 0..n : Good(i)}
<1>4. 0 \in G
  <2>1. Upto(0) = {}
    OBVIOUS
  <2>2. Gains(x, x, T, {}, o, {})
    BY GainsNothing
  <2>3. SameOrder(x, x)
    BY DEF SameOrder
  <2>4. 0 \in 0..n
    BY <1>1
  <2>5. Good(0)
    <3> HIDE DEF Upto
    <3> QED BY <1>2, <2>1, <2>2, <2>3
  <2> HIDE DEF Good
  <2> QED BY <2>4, <2>5
<1>5. ASSUME NEW i \in 1..n, i - 1 \in G PROVE i \in G
  <2>1. i - 1 \in 0..n /\ Good(i - 1)
    BY <1>5
  <2> DEFINE y == h[i - 1]
             z == h[i]
             F == Served(entries[i], l)
  <2>2. /\ BlockReader(y, T) /\ idx + 1 \in DOMAIN y.events /\ o = y.events[idx + 1].occ
        /\ z = Occ!AddEntry(y, idx, entries[i], l) /\ entries[i] \in T
    BY <1>1, <1>3, <2>1 DEF Gains, SameOrder
  <2>3. Gains(y, z, T, {}, o, F) /\ SameOrder(y, z)
    <3>1. BlockReader(y, T)
      BY <2>2
    <3> HIDE DEF y, z
    <3> QED BY <2>2, <3>1, AddEntryStep DEF F
  <2>4. Gains(x, z, T, {} \cup {}, o, Upto(i - 1) \cup F)
    <3>1. Gains(x, y, T, {}, o, Upto(i - 1))
      BY <2>1
    <3> HIDE DEF y, z, Upto, F
    <3> QED BY <2>3, <3>1, GainsThen
  <2>5. Upto(i - 1) \cup F = Upto(i) /\ {} \cup {} = {}
    <3>1. \A k : k \in 1..i <=> k \in 1..(i - 1) \/ k = i
      OBVIOUS
    <3> QED BY <3>1 DEF Served
  <2>6. SameOrder(x, z)
    BY <2>1, <2>3 DEF SameOrder
  <2>7. Gains(x, z, T, {}, o, Upto(i))
    <3> HIDE DEF Upto, F, z
    <3> QED BY <2>4, <2>5
  <2> QED BY <2>6, <2>7
<1>6. G = 0..n
  <2>1. G \subseteq 0..n
    OBVIOUS
  <2> HIDE DEF G
  <2> QED BY <1>1, <1>4, <1>5, <2>1, UpTo
<1>7. Good(n)
  <2>1. n \in G
    <3> HIDE DEF G
    <3> QED BY <1>1, <1>6
  <2> QED BY <2>1
<1>8. Upto(n) = Serving(entries, l)
  BY <1>1 DEF Serving, ToSet
<1> QED BY <1>2, <1>7, <1>8

(* An event of a controller, for one location.                             *)
LEMMA AddEventGains ==
  ASSUME NEW T, NEW x, BlockReader(x, T), NEW block, block.entries \in Seq(T), NEW occ \in Controllers,
         NEW l \in Occ!OccLocations, NEW r, r = Occ!AddEvent(x, block, occ, l)
  PROVE  Gains(x, r, T, {l}, occ, Serving(block.entries, l))
<1>1. Occ!Fine = Fine
  BY DEF Occ!Fine, Fine
<1>2. CASE x.error # Fine
  <2>1. r = x
    BY <1>1, <1>2 DEF Occ!AddEvent
  <2> QED BY <1>2, <2>1 DEF Gains
<1>3. CASE x.error = Fine
  <2> DEFINE q == x.events
             idx == Occ!EventOf(x, occ)
             first == [occ |-> occ, entries |-> <<>>]
             new == IF idx = Len(q) THEN <<first>> ELSE <<>>
             y == [x EXCEPT !.map[occ][l] = idx, !.events = @ \o new]
             same == {i \in DOMAIN q : q[i].occ = occ}
             C == ControllerOf(T)
  <2>1. r = Occ!AddEntries(y, idx, block.entries, l)
    BY <1>1, <1>3 DEF Occ!AddEvent
  <2>2. /\ y.error = x.error /\ y.events = q \o new /\ y.map = [x.map EXCEPT ![occ][l] = idx]
        /\ y = [error |-> y.error, map |-> y.map, events |-> y.events]
    <3>1. x = [error |-> x.error, map |-> x.map, events |-> q]
      BY DEF BlockReader
    <3> DEFINE m == [x.map EXCEPT ![occ][l] = idx]
               w == q \o new
    <3>2. y = [x EXCEPT !.map = m, !.events = w]
      OBVIOUS
    <3> HIDE DEF m, w, y
    <3>3. y = [error |-> x.error, map |-> m, events |-> w]
      BY <3>1, <3>2
    <3> QED BY <3>3 DEF m, w
  <2>3. q \in Seq(C) /\ Len(q) \in Nat /\ DOMAIN q = 1..Len(q) /\ first \in C
    BY DEF BlockReader, ControllerOf
  <2>4. idx = IF same = {} THEN Len(q) ELSE (CHOOSE i \in same : TRUE) - 1
    BY DEF Occ!EventOf
  <2>11. idx \in Nat
    <3>1. same # {} => (CHOOSE i \in same : TRUE) \in same
      OBVIOUS
    <3>2. \A i \in same : i \in Nat /\ i - 1 \in Nat
      BY <2>3
    <3> HIDE DEF same, q, idx
    <3> QED BY <2>3, <2>4, <3>1, <3>2
  <2>12. /\ y.map \in [Controllers -> [Occ!OccLocations -> Int]]
         /\ y.map[occ][l] = idx
         /\ \A p \in Controllers, k \in Occ!OccLocations : (p # occ \/ k # l) => y.map[p][k] = x.map[p][k]
    <3> DEFINE m == x.map
    <3>1. m \in [Controllers -> [Occ!OccLocations -> Int]] /\ y.map = [m EXCEPT ![occ][l] = idx]
      BY <2>2 DEF BlockReader
    <3> HIDE DEF m, y, idx
    <3>2. y.map \in [Controllers -> [Occ!OccLocations -> Int]] /\ y.map[occ][l] = idx
      BY <2>11, <3>1
    <3>3. \A p \in Controllers, k \in Occ!OccLocations : (p # occ \/ k # l) => y.map[p][k] = m[p][k]
      BY <3>1
    <3> QED BY <3>2, <3>3 DEF m
  <2>5. /\ BlockReader(y, T) /\ idx \in Nat /\ idx + 1 \in DOMAIN y.events /\ occ = y.events[idx + 1].occ
        /\ DOMAIN q \subseteq DOMAIN y.events /\ \A i \in DOMAIN q : y.events[i] = q[i]
        /\ \A p : HasController(y, p) <=> HasController(x, p) \/ p = occ
        /\ \A p, e : HasSensor(y, p, e) <=> HasSensor(x, p, e)
    <3>1. CASE same = {}
      <4>1. idx = Len(q) /\ new = <<first>>
        <5>1. idx = Len(q)
          BY <2>4, <3>1
        <5> HIDE DEF idx, q, first
        <5> QED BY <5>1
      <4>2. y.events = Append(q, first)
        <5> HIDE DEF q, first, new, y, C
        <5> QED BY <2>2, <2>3, <4>1
      <4> DEFINE n == Len(q)
                 w == y.events
      <4>3. /\ w \in Seq(C) /\ DOMAIN w = 1..(n + 1) /\ w[n + 1] = first
            /\ \A i \in 1..n : w[i] = q[i]
        <5> HIDE DEF q, first, C, y
        <5> QED BY <2>3, <4>2
      <4>4. \A i : i \in 1..(n + 1) <=> i \in 1..n \/ i = n + 1
        BY <2>3
      <4>5. first.occ = occ /\ \A e : e \notin ToSet(first.entries)
        BY DEF ToSet
      <4>6. \A i \in 1..n : q[i].occ # occ
        BY <2>3, <3>1
      <4>7. n \in Nat /\ DOMAIN q = 1..n /\ idx = n
        BY <2>3, <4>1
      <4> HIDE DEF n, first, idx
      <4>8. BlockReader(y, T)
        <5>1. \A i, j \in DOMAIN w : w[i].occ = w[j].occ => i = j
          <6>1. \A i, j \in 1..n : q[i].occ = q[j].occ => i = j
            BY <4>7 DEF BlockReader
          <6> HIDE DEF w, q
          <6> QED BY <4>3, <4>4, <4>5, <4>6, <6>1
        <5> HIDE DEF y
        <5> QED BY <2>2, <2>12, <4>3, <5>1 DEF BlockReader
      <4>9. \A p : HasController(y, p) <=> HasController(x, p) \/ p = occ
        <5>1. \A p : HasController(y, p) <=> \E i \in 1..(n + 1) : w[i].occ = p
          <6> HIDE DEF y
          <6> QED BY <4>3 DEF HasController
        <5>2. \A p : HasController(x, p) <=> \E i \in 1..n : q[i].occ = p
          BY <4>7 DEF HasController
        <5> HIDE DEF w, q
        <5> QED BY <4>3, <4>4, <4>5, <5>1, <5>2
      <4>10. \A p, e : HasSensor(y, p, e) <=> HasSensor(x, p, e)
        <5>1. \A p, e : HasSensor(y, p, e) <=> \E i \in 1..(n + 1) : w[i].occ = p /\ e \in ToSet(w[i].entries)
          <6> HIDE DEF y
          <6> QED BY <4>3 DEF HasSensor
        <5>2. \A p, e : HasSensor(x, p, e) <=> \E i \in 1..n : q[i].occ = p /\ e \in ToSet(q[i].entries)
          BY <4>7 DEF HasSensor
        <5> HIDE DEF w, q
        <5> QED BY <4>3, <4>4, <4>5, <5>1, <5>2
      <4>11. idx \in Nat /\ idx + 1 \in DOMAIN y.events /\ occ = y.events[idx + 1].occ
        <5>1. n + 1 \in 1..(n + 1)
          BY <4>7
        <5> HIDE DEF y
        <5> QED BY <4>3, <4>5, <4>7, <5>1
      <4>12. DOMAIN q \subseteq DOMAIN y.events /\ \A i \in DOMAIN q : y.events[i] = q[i]
        <5> HIDE DEF y, q
        <5> QED BY <4>3, <4>7
      <4> HIDE DEF y, w
      <4> QED BY <4>8, <4>9, <4>10, <4>11, <4>12
    <3>2. CASE same # {}
      <4>1. PICK i \in DOMAIN q : q[i].occ = occ /\ idx = i - 1
        <5>1. (CHOOSE i \in same : TRUE) \in same
          BY <3>2
        <5> HIDE DEF idx
        <5> QED BY <2>4, <3>2, <5>1
      <4>2. idx # Len(q) /\ idx \in Nat /\ idx + 1 = i
        <5> HIDE DEF idx, q
        <5> QED BY <2>3, <4>1
      <4>3. y.events = q
        <5>1. new = <<>>
          <6> HIDE DEF idx, q
          <6> QED BY <4>2
        <5> HIDE DEF q, new, y, C
        <5> QED BY <2>2, <2>3, <5>1
      <4> HIDE DEF y, idx
      <4> QED BY <2>2, <2>12, <4>1, <4>2, <4>3 DEF BlockReader, HasController, HasSensor
    <3> QED BY <3>1, <3>2
  <2> HIDE DEF y, idx
  <2>13. ASSUME NEW p \in Controllers, NEW k \in Occ!OccLocations, Leads(x, p, k) \/ (p = occ /\ k = l)
         PROVE  Leads(y, p, k)
    <3>1. CASE p = occ /\ k = l
      BY <2>5, <2>12, <3>1 DEF Leads
    <3>2. CASE p # occ \/ k # l
      <4>1. y.map[p][k] = x.map[p][k] /\ Leads(x, p, k)
        <5> HIDE DEF y, idx
        <5> QED BY <2>12, <2>13, <3>2
      <4> HIDE DEF y
      <4> QED BY <2>5, <4>1 DEF Leads
    <3> QED BY <3>1, <3>2
  <2>6. Gains(x, y, T, {l}, occ, {})
    <3>1. \A p : HasController(y, p) <=> HasController(x, p) \/ (p = occ /\ {l} # {})
      BY <2>5
    <3>2. \A p \in Controllers, k \in Occ!OccLocations : Leads(x, p, k) \/ (p = occ /\ k \in {l}) => Leads(y, p, k)
      BY <2>13
    <3>3. \A p, e : HasSensor(y, p, e) <=> HasSensor(x, p, e) \/ (p = occ /\ e \in {})
      BY <2>5
    <3> QED BY <1>3, <2>5, <3>1, <3>2, <3>3 DEF Gains
  <2>7. Gains(y, r, T, {}, occ, Serving(block.entries, l))
    <3> DEFINE entries == block.entries
    <3>1. entries \in Seq(T) /\ r = Occ!AddEntries(y, idx, entries, l)
      BY <2>1
    <3> HIDE DEF entries
    <3>2. Gains(y, r, T, {}, occ, Serving(entries, l))
      BY <2>5, <3>1, EntriesFound
    <3> QED BY <3>2 DEF entries
  <2>8. Gains(x, r, T, {l} \cup {}, occ, {} \cup Serving(block.entries, l))
    BY <2>6, <2>7, GainsThen
  <2>9. {l} \cup {} = {l} /\ {} \cup Serving(block.entries, l) = Serving(block.entries, l)
    OBVIOUS
  <2>10. Gains(x, r, T, {l}, occ, Serving(block.entries, l))
    BY <2>8, <2>9
  <2> QED BY <2>10
<1> QED BY <1>2, <1>3

(* What is asked of a controller.                                          *)
Asked(o, L) == {l \in L \cap Occ!OccLocations : o # 0 => l # "sys"}

(* The sensors of a controller that give what is asked of it.              *)
Measured(entries, o, L) == {e \in ToSet(entries) : \E l \in Asked(o, L) : Occ!Serves(e, l)}

(* All locations of a controller.                                          *)
LEMMA LocationsFound ==
  ASSUME NEW T, NEW x, BlockReader(x, T), NEW block, block.entries \in Seq(T), NEW occ \in Controllers,
         NEW L, NEW r, r = Occ!AddLocations(x, block, occ, L)
  PROVE  Gains(x, r, T, Asked(occ, L), occ, Measured(block.entries, occ, L))
<1> DEFINE c == [block |-> block, occ |-> occ, locations |-> L]
           loc == Occ!LocationBits
           entries == block.entries
<1>1. DOMAIN loc = 1..6 /\ \A k \in 1..6 : loc[k] \in Occ!OccLocations
  BY DEF Occ!LocationBits, Occ!OccLocations, Occ!MaxDomains
<1> HIDE DEF loc
<1>2. PICK h : h[0] = x /\ h[6] = r /\ \A i \in 1..6 : h[i] = Step("location", c, h[i - 1], loc[i])
  <2>1. Returns("location", c, x, loc, 6, Occ!AddLocations(x, block, occ, L))
    BY <1>1, AddLocationsReturns DEF loc
  <2> HIDE DEF c
  <2> QED BY <2>1 DEF Returns
<1>3. \A i \in 1..6 : h[i] = Occ!AddLocation(h[i - 1], block, occ, loc[i], L)
  <2>1. \A y, e : Step("location", c, y, e) = Occ!AddLocation(y, block, occ, e, L)
    BY DEF Step
  <2> HIDE DEF c
  <2> QED BY <1>2, <2>1
<1> DEFINE Asks(k) == loc[k] \in L /\ (occ # 0 => loc[k] # "sys")
           A(i) == {loc[k] : k \in {m \in 1..i : Asks(m)}}
           M(i) == {e \in ToSet(entries) : \E k \in 1..i : Asks(k) /\ Occ!Serves(e, loc[k])}
           Good(i) == Gains(x, h[i], T, A(i), occ, M(i))
           G == {i \in 0..6 : Good(i)}
<1>4. 0 \in G
  <2>1. A(0) = {} /\ M(0) = {}
    OBVIOUS
  <2>2. Gains(x, x, T, {}, occ, {})
    BY GainsNothing
  <2>3. Good(0)
    <3> HIDE DEF A, M
    <3> QED BY <1>2, <2>1, <2>2
  <2> HIDE DEF Good
  <2> QED BY <2>3
<1>5. ASSUME NEW i \in 1..6, i - 1 \in G PROVE i \in G
  <2>1. i - 1 \in 0..6 /\ Good(i - 1)
    BY <1>5
  <2> DEFINE y == h[i - 1]
             z == h[i]
             B == {l \in {loc[i]} : Asks(i)}
             F == {e \in ToSet(entries) : Asks(i) /\ Occ!Serves(e, loc[i])}
  <2>2. BlockReader(y, T) /\ z = Occ!AddLocation(y, block, occ, loc[i], L)
    BY <1>3, <2>1 DEF Gains
  <2>3. Gains(y, z, T, B, occ, F)
    <3>1. CASE Asks(i)
      <4>1. z = Occ!AddEvent(y, block, occ, loc[i])
        BY <2>2, <3>1 DEF Occ!AddLocation
      <4>2. Gains(y, z, T, {loc[i]}, occ, Serving(block.entries, loc[i]))
        <5> HIDE DEF y, z
        <5> QED BY <1>1, <2>2, <4>1, AddEventGains
      <4>3. B = {loc[i]} /\ F = Serving(block.entries, loc[i])
        BY <3>1 DEF Serving
      <4> HIDE DEF y, z, B, F
      <4> QED BY <4>2, <4>3
    <3>2. CASE ~Asks(i)
      <4>1. z = y
        BY <2>2, <3>2 DEF Occ!AddLocation
      <4>2. B = {} /\ F = {}
        BY <3>2
      <4>3. Gains(y, y, T, {}, occ, {})
        <5> HIDE DEF y
        <5> QED BY <2>2, GainsNothing
      <4> HIDE DEF y, z, B, F
      <4> QED BY <4>1, <4>2, <4>3
    <3> QED BY <3>1, <3>2
  <2>4. Gains(x, z, T, A(i - 1) \cup B, occ, M(i - 1) \cup F)
    <3>1. Gains(x, y, T, A(i - 1), occ, M(i - 1))
      BY <2>1
    <3> HIDE DEF y, z, A, M, B, F
    <3> QED BY <2>3, <3>1, GainsThen
  <2>5. A(i - 1) \cup B = A(i) /\ M(i - 1) \cup F = M(i)
    <3>1. \A k : k \in 1..i <=> k \in 1..(i - 1) \/ k = i
      OBVIOUS
    <3> HIDE DEF Asks, entries
    <3> QED BY <3>1
  <2>6. Gains(x, z, T, A(i), occ, M(i))
    <3> HIDE DEF A, M, B, F, z
    <3> QED BY <2>4, <2>5
  <2> HIDE DEF A, M
  <2> QED BY <2>6
<1>6. G = 0..6
  <2>1. G \subseteq 0..6
    OBVIOUS
  <2> HIDE DEF G
  <2> QED BY <1>4, <1>5, <2>1, UpTo
<1>7. Good(6)
  <2>1. 6 \in G
    <3> HIDE DEF G
    <3> QED BY <1>6
  <2> QED BY <2>1
<1>8. \A l : l \in Asked(occ, L) <=> \E k \in 1..6 : l = loc[k] /\ Asks(k)
  <2>1. \A l : l \in Occ!OccLocations <=> \E k \in 1..6 : l = loc[k]
    BY DEF Occ!OccLocations, Occ!MaxDomains, loc
  <2> QED BY <2>1 DEF Asked
<1>9. A(6) = Asked(occ, L)
  <2> HIDE DEF Asks
  <2> QED BY <1>8
<1>10. M(6) = Measured(block.entries, occ, L)
  <2> HIDE DEF Asks
  <2> QED BY <1>8 DEF Measured
<1> HIDE DEF A, M
<1> QED BY <1>2, <1>7, <1>9, <1>10

(* The sensors of the first controllers.                                   *)
BlocksHave(x, L, S, i) ==
    \A p : HasController(x, p) <=> \E k \in 1..i : p = k - 1 /\ p \in S /\ Asked(p, L) # {}

BlocksIn(x, blocks, L, S, i) ==
    \A p, e : HasSensor(x, p, e) <=> \E k \in 1..i : p = k - 1 /\ p \in S /\ e \in Measured(blocks[k].entries, p, L)

BlocksLead(x, L, S, i) ==
    \A k \in 1..i : k - 1 \in S => \A l \in Asked(k - 1, L) : Leads(x, k - 1, l)

(* All controllers.                                                        *)
LEMMA BlocksFound ==
  ASSUME NEW T, NEW blocks, NEW n \in 0..Occ!MaxSockets, DOMAIN blocks = 1..n, \A i \in 1..n : blocks[i].entries \in Seq(T),
         NEW L, NEW S, NEW r, r = Occ!AddBlocks(blocks, L, S), r.error = Fine
  PROVE  BlockReader(r, T) /\ BlocksHave(r, L, S, n) /\ BlocksIn(r, blocks, L, S, n) /\ BlocksLead(r, L, S, n)
<1> DEFINE c == [blocks |-> blocks, locations |-> L, sockets |-> S]
           indices == [i \in DOMAIN blocks |-> i]
<1>0. n \in Nat /\ \A i \in 1..n : i - 1 \in Controllers
  BY DEF Controllers, Occ!MaxSockets
<1>1. \A i \in 1..n : indices[i] = i
  OBVIOUS
<1>2. PICK h : h[0] = Occ!None /\ h[n] = r /\ \A i \in 1..n : h[i] = Step("block", c, h[i - 1], indices[i])
  <2>1. Returns("block", c, Occ!None, indices, n, Occ!AddBlocks(blocks, L, S))
    BY <1>0, AddBlocksReturns
  <2> HIDE DEF c, indices
  <2> QED BY <2>1 DEF Returns
<1>3. \A i \in 1..n : h[i] = Occ!AddBlock(h[i - 1], blocks[i], i - 1, L, S)
  <2>1. \A y, e : Step("block", c, y, e) = Occ!AddBlock(y, blocks[e], e - 1, L, S)
    BY DEF Step
  <2>2. \A i \in 1..n : h[i] = Step("block", c, h[i - 1], i)
    <3> HIDE DEF indices, c
    <3> QED BY <1>1, <1>2
  <2> HIDE DEF c
  <2> QED BY <2>1, <2>2
<1> DEFINE Good(i) == /\ BlockReader(h[i], T)
                      /\ h[i].error = Fine =>
                            BlocksHave(h[i], L, S, i) /\ BlocksIn(h[i], blocks, L, S, i) /\ BlocksLead(h[i], L, S, i)
           G == {i \in 0..n : Good(i)}
<1>4. 0 \in G
  <2>1. \A k \in 1..0 : FALSE
    OBVIOUS
  <2>2. h[0].events = <<>> /\ BlockReader(h[0], T)
    BY <1>2 DEF Occ!None, Occ!NoEvent, BlockReader, Controllers
  <2>3. DOMAIN h[0].events = {}
    BY <2>2
  <2>4. Good(0)
    BY <2>1, <2>2, <2>3 DEF BlocksHave, BlocksIn, BlocksLead, HasController, HasSensor
  <2> HIDE DEF Good
  <2> QED BY <1>0, <2>4
<1>5. ASSUME NEW i \in 1..n, i - 1 \in G PROVE i \in G
  <2>1. i - 1 \in 0..n /\ Good(i - 1)
    BY <1>5
  <2> DEFINE y == h[i - 1]
             z == h[i]
             block == blocks[i]
             occ == i - 1
             failure == Occ!BlockError(block)
             A == {l \in Asked(occ, L) : occ \in S}
             F == {e \in Measured(block.entries, occ, L) : occ \in S}
  <2>2. /\ BlockReader(y, T) /\ z = Occ!AddBlock(y, block, occ, L, S)
        /\ occ \in Controllers /\ block.entries \in Seq(T)
    BY <1>0, <1>3, <2>1
  <2>3. Gains(y, z, T, A, occ, F)
    <3>1. Occ!Fine = Fine
      BY DEF Occ!Fine, Fine
    <3>2. CASE y.error # Fine
      <4>1. z = y
        BY <2>2, <3>1, <3>2 DEF Occ!AddBlock
      <4> HIDE DEF y, z, A, F
      <4> QED BY <2>2, <3>2, <4>1 DEF Gains
    <3>3. CASE y.error = Fine /\ occ \notin S
      <4>1. z = y
        BY <2>2, <3>1, <3>3 DEF Occ!AddBlock
      <4>2. A = {} /\ F = {}
        BY <3>3
      <4> HIDE DEF y, z, A, F
      <4> QED BY <2>2, <4>1, <4>2, GainsNothing
    <3>4. CASE y.error = Fine /\ occ \in S /\ failure # Fine
      <4> HIDE DEF failure, y, z, A, F, occ
      <4>1. z = [y EXCEPT !.error = failure]
        BY <2>2, <3>1, <3>4 DEF Occ!AddBlock, failure
      <4>2. z.error # Fine /\ BlockReader(z, T)
        BY <2>2, <3>4, <4>1 DEF BlockReader
      <4> QED BY <4>2 DEF Gains
    <3>5. CASE y.error = Fine /\ occ \in S /\ failure = Fine
      <4>1. z = Occ!AddLocations(y, block, occ, L)
        BY <2>2, <3>1, <3>5 DEF Occ!AddBlock
      <4>2. Gains(y, z, T, Asked(occ, L), occ, Measured(block.entries, occ, L))
        <5> HIDE DEF y, z, occ, block
        <5> QED BY <2>2, <4>1, LocationsFound
      <4>3. A = Asked(occ, L) /\ F = Measured(block.entries, occ, L)
        <5> HIDE DEF occ, block
        <5> QED BY <3>5
      <4> HIDE DEF y, z, A, F, occ, block
      <4> QED BY <4>2, <4>3
    <3> QED BY <3>2, <3>3, <3>4, <3>5
  <2>4. SUFFICES ASSUME z.error = Fine
                 PROVE  BlocksHave(z, L, S, i) /\ BlocksIn(z, blocks, L, S, i) /\ BlocksLead(z, L, S, i)
    BY <2>3 DEF Gains
  <2>5. /\ BlocksHave(y, L, S, i - 1) /\ BlocksIn(y, blocks, L, S, i - 1) /\ BlocksLead(y, L, S, i - 1)
        /\ \A p : HasController(z, p) <=> HasController(y, p) \/ (p = occ /\ A # {})
        /\ \A p \in Controllers, l \in Occ!OccLocations :
              Leads(y, p, l) \/ (p = occ /\ l \in A) => Leads(z, p, l)
        /\ \A p, e : HasSensor(z, p, e) <=> HasSensor(y, p, e) \/ (p = occ /\ e \in F)
    BY <2>1, <2>3, <2>4 DEF Gains
  <2>6. \A k : k \in 1..i <=> k \in 1..(i - 1) \/ k = i
    OBVIOUS
  <2>7. BlocksHave(z, L, S, i)
    <3>1. \A p : p = occ /\ A # {} <=> p = i - 1 /\ p \in S /\ Asked(p, L) # {}
      OBVIOUS
    <3> HIDE DEF y, z, A, F
    <3> QED BY <2>5, <2>6, <3>1 DEF BlocksHave
  <2>8. BlocksIn(z, blocks, L, S, i)
    <3>1. \A p, e : p = occ /\ e \in F <=> p = i - 1 /\ p \in S /\ e \in Measured(blocks[i].entries, p, L)
      OBVIOUS
    <3> HIDE DEF y, z, A, F
    <3> QED BY <2>5, <2>6, <3>1 DEF BlocksIn
  <2>9. BlocksLead(z, L, S, i)
    <3> SUFFICES ASSUME NEW k \in 1..i, k - 1 \in S, NEW l \in Asked(k - 1, L) PROVE Leads(z, k - 1, l)
      BY DEF BlocksLead
    <3>1. k - 1 \in Controllers /\ l \in Occ!OccLocations
      <4>1. k \in 1..n
        OBVIOUS
      <4> QED BY <1>0, <4>1 DEF Asked
    <3>2. CASE k = i
      <4>1. k - 1 = occ /\ l \in A
        BY <3>2
      <4> HIDE DEF y, z, A, occ
      <4> QED BY <2>5, <3>1, <4>1
    <3>3. CASE k # i
      <4>1. Leads(y, k - 1, l)
        <5>1. k \in 1..(i - 1)
          BY <2>6, <3>3
        <5> HIDE DEF y
        <5> QED BY <2>5, <5>1 DEF BlocksLead
      <4> HIDE DEF y, z, A, occ
      <4> QED BY <2>5, <3>1, <4>1
    <3> QED BY <3>2, <3>3
  <2> QED BY <2>7, <2>8, <2>9
<1>6. G = 0..n
  <2>1. G \subseteq 0..n
    OBVIOUS
  <2> HIDE DEF G
  <2> QED BY <1>0, <1>4, <1>5, <2>1, UpTo
<1>7. Good(n)
  <2>1. n \in G
    <3> HIDE DEF G
    <3> QED BY <1>0, <1>6
  <2> QED BY <2>1
<1> QED BY <1>2, <1>7

(* The reader of ppc64 that is made without an error.                      *)
LEMMA OccReaderFound ==
  ASSUME NEW machine, IsFiniteSet(machine.packages), IsSequence(machine.blocks),
         Cardinality(machine.packages) <= Len(machine.blocks),
         \A block \in ToSet(machine.blocks) : IsSequence(block.entries),
         NEW L, NEW S, NEW r, r = Occ!OccReaderOf(machine, L, S), r.error = Fine
  PROVE  LET n == Cardinality(machine.packages) IN
         \E T : /\ BlockReader(r, T) /\ BlocksHave(r, L, S, n)
                /\ BlocksIn(r, machine.blocks, L, S, n) /\ BlocksLead(r, L, S, n)
<1> DEFINE n == Cardinality(machine.packages)
           tried == SubSeq(machine.blocks, 1, n)
           found == Occ!AddBlocks(tried, L, S)
           early == Occ!FirstError(<<Occ!Check(~machine.file, "errno"),
                              Occ!Check(~machine.topology, "errno"),
                              Occ!Check(n = 0, "no_sockets_found"),
                              Occ!Check(n > Occ!MaxSockets, "too_many_sockets")>>)
           T == UNION {ToSet(block.entries) : block \in ToSet(machine.blocks)}
<1>1. n \in Nat
  BY FS_CardinalityType
<1>2. DOMAIN tried = 1..n /\ \A i \in 1..n : tried[i] = machine.blocks[i]
  <2> HIDE DEF n
  <2> QED BY <1>1, FirstOf DEF n
<1>3. r = found /\ found.error = Fine /\ early = Fine
  <2>1. r = IF early # Occ!Fine THEN [Occ!None EXCEPT !.error = early]
            ELSE IF found.error = Occ!Fine /\ Occ!NumEvents(found) = 0
                 THEN [Occ!None EXCEPT !.error = "no_events_added"]
                 ELSE found
    BY SameCardinality DEF Occ!OccReaderOf
  <2> HIDE DEF early, found
  <2>2. r = [Occ!None EXCEPT !.error = early] => r.error = early
    BY DEF Occ!None
  <2>3. r = [Occ!None EXCEPT !.error = "no_events_added"] => r.error # Fine
    BY DEF Occ!None, Fine
  <2> QED BY <2>1, <2>2, <2>3 DEF Occ!Fine, Fine
<1>4. \A i \in 1..n : tried[i].entries \in Seq(T)
  <2>1. \A i \in 1..n : machine.blocks[i] \in ToSet(machine.blocks)
    <3> DEFINE z == machine.blocks
               U == ToSet(z)
    <3>1. z \in Seq(U) /\ n <= Len(z)
      BY DEF IsSequence
    <3> HIDE DEF n, z, U
    <3>2. \A i \in 1..n : z[i] \in U
      BY <1>1, <3>1
    <3> QED BY <3>2 DEF z, U
  <2>2. ASSUME NEW block \in ToSet(machine.blocks) PROVE block.entries \in Seq(T)
    <3> DEFINE e == block.entries
               U == ToSet(e)
    <3>1. e \in Seq(U) /\ U \subseteq T
      BY DEF IsSequence
    <3> HIDE DEF e, U, T
    <3>2. e \in Seq(T)
      BY <3>1
    <3> QED BY <3>2 DEF e
  <2> HIDE DEF T, n, tried
  <2> QED BY <1>2, <2>1, <2>2
<1>7. n \in 0..Occ!MaxSockets
  <2> DEFINE errors == <<Occ!Check(~machine.file, "errno"), Occ!Check(~machine.topology, "errno"),
                         Occ!Check(n = 0, "no_sockets_found"),
                         Occ!Check(n > Occ!MaxSockets, "too_many_sockets")>>
  <2>1. FirstError(errors) = Fine
    BY <1>3 DEF Occ!FirstError, FirstError, Occ!Fine, Fine
  <2>2. DOMAIN errors \subseteq Nat /\ 4 \in DOMAIN errors
    OBVIOUS
  <2>3. errors[4] = Fine
    <3> HIDE DEF errors
    <3> QED BY <2>1, <2>2, FirstErrorFine
  <2> HIDE DEF n
  <2>4. ~(n > Occ!MaxSockets)
    BY <2>3 DEF Occ!Check, Fine
  <2> QED BY <1>1, <2>4 DEF Occ!MaxSockets
<1>5. /\ BlockReader(found, T) /\ BlocksHave(found, L, S, n)
      /\ BlocksIn(found, tried, L, S, n) /\ BlocksLead(found, L, S, n)
  <2> HIDE DEF n, tried, T
  <2> QED BY <1>2, <1>3, <1>4, <1>7, BlocksFound
<1>6. BlocksIn(found, machine.blocks, L, S, n)
  <2> HIDE DEF n, tried, T, found
  <2> QED BY <1>2, <1>5 DEF BlocksIn
<1> HIDE DEF T, found, tried
<1> QED BY <1>3, <1>5, <1>6

(* The events of the GPUs are those of the devices of the mask.            *)
LEMMA GpuReaderFound ==
  ASSUME NEW gpu, NEW mask, NEW r, gpu.vendor # "none",
         r = Gpu!GpuReaderOf(gpu, {effective_readings_type(Gpu!Support(gpu, mask))}, mask), r.error = Fine
  PROVE  LET t == effective_readings_type(Gpu!CommonTypes(gpu, mask)) IN
         /\ r.vendor = gpu.vendor
         /\ Gpu!SupportError(gpu, mask) = Fine
         /\ t \in Gpu!CommonTypes(gpu, mask)
         /\ r.events = Gpu!Chosen(gpu, mask) \X {t}
<1> DEFINE types == Gpu!CommonTypes(gpu, mask)
           t == effective_readings_type(types)
           D == Gpu!Chosen(gpu, mask)
           events == {e \in D \X {t} : e[2] \in Gpu!DeviceTypes(gpu, e[1]) \cap Gpu!Support(gpu, mask)}
           failure == Gpu!FirstError(<<Gpu!SupportError(gpu, mask), Gpu!Check(events = {}, "no_events_added")>>)
<1>1. Gpu!Support(gpu, mask) = types
  BY DEF Gpu!Support
<1>2. r = [error |-> failure, vendor |-> gpu.vendor, events |-> events]
  <2>1. r = Gpu!GpuReaderOf(gpu, {t}, mask)
    BY <1>1
  <2> HIDE DEF t
  <2> QED BY <2>1 DEF Gpu!GpuReaderOf
<1>3. failure = Fine /\ r.events = events /\ r.vendor = gpu.vendor
  <2> HIDE DEF failure, events
  <2> QED BY <1>2
<1>8. Gpu!SupportError(gpu, mask) = Fine
  <2> DEFINE second == Gpu!Check(events = {}, "no_events_added")
  <2>1. FirstError(<<Gpu!SupportError(gpu, mask), second>>) = Fine
    BY <1>3 DEF Gpu!FirstError, FirstError, Gpu!Fine, Fine
  <2> HIDE DEF second
  <2> QED BY <2>1, FirstErrorOfTwo
<1>4. types # {}
  <2> DEFINE errors == <<Gpu!Check(mask = {}, "invalid_device_mask"),
                      Gpu!lib_handle(gpu),
                      Gpu!get_device_count(gpu),
                      Gpu!Check(\E d \in Gpu!Chosen(gpu, mask) : Gpu!DeviceFails(gpu, d), "library"),
                      Gpu!Check(Gpu!CommonTypes(gpu, mask) = {}, "readings_not_supported")>>
  <2>2. FirstError(errors) = Fine
    BY <1>8 DEF Gpu!SupportError, Gpu!FirstError, FirstError, Gpu!Fine, Fine
  <2>3. DOMAIN errors \subseteq Nat /\ 5 \in DOMAIN errors
    OBVIOUS
  <2>4. errors[5] = Fine
    <3> HIDE DEF errors
    <3> QED BY <2>2, <2>3, FirstErrorFine
  <2> QED BY <2>4 DEF Gpu!Check, Fine
<1>5. types \subseteq Gpu!ReadingTypes /\ \A d \in D : types \subseteq Gpu!DeviceTypes(gpu, d)
  BY DEF Gpu!CommonTypes
<1>6. t \in types
  <2>1. \A y \in types : y = "energy" \/ y = "power"
    BY <1>5 DEF Gpu!ReadingTypes
  <2> HIDE DEF types
  <2> QED BY <1>4, <2>1 DEF effective_readings_type
<1>7. events = D \X {t}
  <2>1. \A d \in D : t \in Gpu!DeviceTypes(gpu, d)
    BY <1>5, <1>6
  <2> HIDE DEF D, t, types
  <2> QED BY <1>1, <1>6, <2>1
<1> HIDE DEF t, types, D, events
<1>9. r.events = D \X {t}
  BY <1>3, <1>7
<1> QED BY <1>3, <1>6, <1>8, <1>9 DEF D, t, types

(* Every step keeps ReadersInv.                                            *)
LEMMA ReadersStep ==
  ASSUME ReadersInv, [Next]_vars
  PROVE  ReadersInv'
<1> USE DEF Started, Flow
<1>1. CASE CreateReaders
  <2>1. UNCHANGED <<scenario, args, config>> /\ stage' \notin Started \cup {"readers"}
    BY <1>1 DEF CreateReaders, Goto, Fail, loaded, static
  <2> DEFINE r == ReadersOf(scenario.machine, args, config)
  <2>2. CASE r.error = Fine
    <3>1. readers' = r
      BY <1>1, <2>2 DEF CreateReaders
    <3> HIDE DEF r
    <3> QED BY <2>1, <2>2, <3>1 DEF ReadersInv, r
  <2>3. CASE r.error # Fine
    <3>1. readers' = readers
      BY <1>1, <2>3 DEF CreateReaders, Fail, loaded
    <3> QED BY <2>1, <3>1 DEF ReadersInv
  <2> QED BY <2>2, <2>3
<1>2. CASE Main /\ ~CreateReaders
  <2>1. stage # "readers"
    BY <1>2 DEF Main, ParseArguments, LoadObjects, LoadConfig, Fork, AwaitFirst, FirstWait, AwaitOptions,
       AwaitResume, AwaitCall, AwaitOther, AwaitContinue, RunWait, ObtainIdle, Registers, SetOptions, InsertSection,
       InsertFunction, InsertInlined, FunctionInserted, TraceEnds, TraceFails, Collect, WriteResults, Leave,
       Request, Goto
  <2>2. readers' = readers /\ scenario' = scenario
    BY <1>2, <2>1, MainFlow DEF static
  <2>3. stage' \in Started \cup {"readers"} => stage \in Started
    BY <1>2, MainFlow
  <2>4. readers # Nothing => args' = args /\ config' = config
    BY <1>2, MainFlow DEF ReadersInv
  <2> QED BY <2>2, <2>3, <2>4 DEF ReadersInv
<1>3. CASE ~Main
  BY <1>3, OtherSteps DEF ReadersInv, static, loaded
<1> QED BY <1>1, <1>2, <1>3

(* What is assumed of the machine at hand.                                 *)
LEMMA MachineFacts ==
  ASSUME scenario \in Scenarios
  PROVE  LET machine == scenario.machine.cpu IN
         /\ IsFiniteSet(machine.packages)
         /\ scenario.machine.arch = "x86_64" =>
               /\ IsSequence(machine.zones) /\ Cardinality(machine.packages) <= Len(machine.zones)
               /\ \A zone \in ToSet(machine.zones) : IsZone(zone)
         /\ scenario.machine.arch # "x86_64" =>
               /\ IsSequence(machine.blocks) /\ Cardinality(machine.packages) <= Len(machine.blocks)
               /\ \A block \in ToSet(machine.blocks) : IsSequence(block.entries)
BY ProfilerAssumption DEF IsZone

(* The readers that are made.                                              *)
LEMMA ReadersMade ==
  ASSUME ReadersInv, readers # Nothing
  PROVE  /\ readers.arch = scenario.machine.arch
         /\ readers.cpu = create_cpu_reader(scenario.machine, args, config.parameters)
         /\ readers.gpu = create_gpu_reader(scenario.machine, args, config.parameters)
         /\ readers.cpu.error = Fine /\ readers.gpu.error = Fine
<1> DEFINE cpu == create_cpu_reader(scenario.machine, args, config.parameters)
           gpu == create_gpu_reader(scenario.machine, args, config.parameters)
           hs == hybrids(config)
<1>1. readers = [error |-> FirstError(<<cpu.error, gpu.error>>), arch |-> scenario.machine.arch,
                 cpu |-> cpu, gpu |-> gpu, hybrids |-> hs]
  BY DEF ReadersInv, ReadersOf
<1> HIDE DEF cpu, gpu, hs
<1>2. /\ readers.arch = scenario.machine.arch /\ readers.cpu = cpu /\ readers.gpu = gpu
      /\ readers.error = FirstError(<<cpu.error, gpu.error>>)
  BY <1>1
<1>3. FirstError(<<cpu.error, gpu.error>>) = Fine
  BY <1>2 DEF ReadersInv
<1>4. cpu.error = Fine /\ gpu.error = Fine
  BY <1>3, FirstErrorOfTwo
<1> QED BY <1>2, <1>4 DEF cpu, gpu

(* On x86_64 they have the events that the masks and the machine call for. *)
LEMMA RaplReaderComplete ==
  ASSUME scenario \in Scenarios, ReadersInv
  PROVE  RaplEventsComplete
<1> SUFFICES ASSUME readers # Nothing, readers.arch = "x86_64" PROVE RaplEventsComplete
  BY DEF RaplEventsComplete
<1> DEFINE machine == scenario.machine.cpu
           zones == machine.zones
           n == Cardinality(machine.packages)
           S == SocketMask(args, Params)
           L == LocationMask(args, Params)
           r == readers.cpu
<1>1. r = Rapl!RaplReaderOf(machine, L, S) /\ r.error = Fine
  BY ReadersMade DEF create_cpu_reader, Params
<1>2. /\ ZoneReader(r)
      /\ \A key : key \in ToSet(r.events) <=> \E i \in 1..n : Wanted(zones[i], L, S, key)
      /\ Indexed(r)
      /\ OnePartEach(zones, n) => Distinct(r)
  <2>1. scenario.machine.arch = "x86_64"
    BY ReadersMade
  <2>2. /\ IsFiniteSet(machine.packages) /\ IsSequence(machine.zones)
        /\ Cardinality(machine.packages) <= Len(machine.zones)
        /\ \A zone \in ToSet(machine.zones) : IsZone(zone)
    BY <2>1, MachineFacts
  <2> HIDE DEF machine, S, L, r
  <2> QED BY <1>1, <2>2, RaplReaderFound
<1> DEFINE tried == {i \in 1..n : zones[i] # Rapl!NoZone}
           parts(i) == Rapl!Parts(zones[i])
           domain(i, k) == Rapl!Domain(parts(i)[k].name)
           all == UNION {{[socket |-> zones[i].number, loc |-> domain(i, k)] : k \in DOMAIN parts(i)} : i \in tried}
<1>3. ToSet(r.events) = {e \in all : e.socket \in S /\ e.loc \in L}
  <2>1. ASSUME NEW e
        PROVE  e \in all /\ e.socket \in S /\ e.loc \in L <=> \E i \in 1..n : Wanted(zones[i], L, S, e)
    <3>1. e \in all <=> \E i \in tried : \E k \in DOMAIN parts(i) :
                            e = [socket |-> zones[i].number, loc |-> domain(i, k)]
      OBVIOUS
    <3>2. \A i \in 1..n : Wanted(zones[i], L, S, e) <=>
             /\ i \in tried /\ zones[i].number \in S
             /\ \E k \in DOMAIN parts(i) : /\ e = [socket |-> zones[i].number, loc |-> domain(i, k)]
                                          /\ domain(i, k) \in L
      BY DEF Wanted, KeyOf
    <3>3. ASSUME NEW i, NEW k, e = [socket |-> zones[i].number, loc |-> domain(i, k)]
          PROVE  e.socket = zones[i].number /\ e.loc = domain(i, k)
      BY <3>3
    <3>4. \A i \in tried : i \in 1..n
      OBVIOUS
    <3> HIDE DEF all, tried, zones, parts, domain, S, L, n
    <3> QED BY <3>1, <3>2, <3>3, <3>4
  <2> HIDE DEF all, S, L, r, n, zones
  <2> QED BY <1>2, <2>1
<1>4. ASSUME \A i, j \in tried : zones[i].number = zones[j].number => i = j,
             \A i \in tried : \A k, m \in DOMAIN parts(i) : domain(i, k) = domain(i, m) => k = m,
             NEW i \in DOMAIN r.events
      PROVE  r.map[r.events[i].socket][r.events[i].loc] = i - 1
  <2>1. OnePartEach(zones, n)
    <3> HIDE DEF zones, n
    <3> QED BY <1>4 DEF OnePartEach
  <2> DEFINE m == r.map[r.events[i].socket][r.events[i].loc]
  <2>2. m + 1 \in DOMAIN r.events /\ r.events[m + 1] = r.events[i]
    <3> HIDE DEF r
    <3> QED BY <1>2 DEF Indexed
  <2>3. m + 1 = i
    <3> HIDE DEF r, m
    <3> QED BY <1>2, <2>1, <2>2 DEF Distinct
  <2>4. m \in Int
    <3> HIDE DEF r
    <3>1. r.events \in Seq(Domains) /\ r.map \in [0..(Rapl!MaxSockets - 1) -> [Rapl!RaplLocations -> Int]]
      BY <1>2 DEF ZoneReader
    <3>2. r.events[i] \in Domains
      BY <3>1
    <3>3. r.events[i].socket \in 0..(Rapl!MaxSockets - 1) /\ r.events[i].loc \in Rapl!RaplLocations
      BY <3>2 DEF Domains
    <3> QED BY <3>1, <3>3
  <2> HIDE DEF m
  <2>5. m = i - 1
    BY <2>3, <2>4
  <2> QED BY <2>5 DEF m
<1> QED BY <1>3, <1>4 DEF RaplEventsComplete, ZoneEvents

(* On ppc64 they have the events that the masks and the machine call for.  *)
LEMMA OccReaderComplete ==
  ASSUME scenario \in Scenarios, ReadersInv
  PROVE  OccEventsComplete
<1> SUFFICES ASSUME readers # Nothing, readers.arch # "x86_64" PROVE OccEventsComplete
  BY DEF OccEventsComplete
<1> DEFINE machine == scenario.machine.cpu
           blocks == machine.blocks
           n == Cardinality(machine.packages)
           S == SocketMask(args, Params)
           L == LocationMask(args, Params)
           r == readers.cpu
           events == r.events
<1>1. r = Occ!OccReaderOf(machine, L, S) /\ r.error = Fine
  BY ReadersMade DEF create_cpu_reader, Params
<1>2. scenario.machine.arch # "x86_64"
  BY ReadersMade
<1>3. /\ IsFiniteSet(machine.packages) /\ IsSequence(machine.blocks)
      /\ Cardinality(machine.packages) <= Len(machine.blocks)
      /\ \A block \in ToSet(machine.blocks) : IsSequence(block.entries)
  BY <1>2, MachineFacts
<1>4. PICK T : /\ BlockReader(r, T) /\ BlocksHave(r, L, S, n)
               /\ BlocksIn(r, blocks, L, S, n) /\ BlocksLead(r, L, S, n)
  <2> HIDE DEF machine, S, L, r
  <2> QED BY <1>1, <1>3, OccReaderFound
<1>5. n \in Nat
  <2> HIDE DEF machine
  <2> QED BY <1>3, FS_CardinalityType
<1>6. DOMAIN events = 1..Len(events) /\ \A i, j \in DOMAIN events : events[i].occ = events[j].occ => i = j
  BY <1>4 DEF BlockReader
<1> HIDE DEF machine, S, L, r, blocks, n
<1>7. {e.occ : e \in ToSet(events)} = {o \in 0..(n - 1) : o \in S /\ Asked(o, L) # {}}
  <2>1. \A o : o \in {e.occ : e \in ToSet(events)} <=> HasController(r, o)
    BY DEF HasController, ToSet
  <2>2. \A o : HasController(r, o) <=> o \in 0..(n - 1) /\ o \in S /\ Asked(o, L) # {}
    <3>1. \A o : o \in 0..(n - 1) <=> \E k \in 1..n : o = k - 1
      <4>1. \A o \in 0..(n - 1) : o + 1 \in 1..n /\ o = (o + 1) - 1
        BY <1>5
      <4>2. \A k \in 1..n : k - 1 \in 0..(n - 1)
        BY <1>5
      <4> QED BY <4>1, <4>2
    <3> QED BY <1>4, <3>1 DEF BlocksHave
  <2> HIDE DEF events
  <2> QED BY <2>1, <2>2
<1>8. ASSUME NEW e \in ToSet(events)
      PROVE  {x.gsid : x \in ToSet(e.entries)} =
                 {x.gsid : x \in {y \in ToSet(blocks[e.occ + 1].entries) : y.genuine /\ y.gsid \in Asked(e.occ, L)}}
  <2>1. PICK i \in DOMAIN events : e = events[i]
    BY DEF ToSet
  <2>2. \A y : y \in ToSet(e.entries) <=> HasSensor(r, e.occ, y)
    BY <1>6, <2>1 DEF HasSensor
  <2>3. HasController(r, e.occ)
    BY <2>1 DEF HasController
  <2>4. PICK k \in 1..n : e.occ = k - 1 /\ e.occ \in S
    BY <1>4, <2>3 DEF BlocksHave
  <2>5. k = e.occ + 1 /\ \A m \in 1..n : e.occ = m - 1 => m = k
    BY <1>5, <2>4
  <2>6. \A y : y \in ToSet(e.entries) <=> y \in Measured(blocks[k].entries, e.occ, L)
    <3> HIDE DEF events
    <3> QED BY <1>4, <2>2, <2>4, <2>5 DEF BlocksIn
  <2>7. Measured(blocks[k].entries, e.occ, L) =
           {y \in ToSet(blocks[k].entries) : y.genuine /\ y.gsid \in Asked(e.occ, L)}
    BY DEF Measured, Occ!Serves
  <2> HIDE DEF events
  <2> QED BY <2>5, <2>6, <2>7
<1>10. ASSUME NEW i \in DOMAIN events, NEW l \in Asked(events[i].occ, L)
       PROVE  r.map[events[i].occ][l] = i - 1
  <2> DEFINE o == events[i].occ
             j == r.map[o][l]
  <2>1. HasController(r, o)
    BY DEF HasController
  <2>2. PICK k \in 1..n : o = k - 1 /\ o \in S
    BY <1>4, <2>1 DEF BlocksHave
  <2>3. Leads(r, o, l)
    <3> HIDE DEF o, events
    <3> QED BY <1>4, <2>2 DEF BlocksLead, o
  <2>4. j + 1 \in DOMAIN events /\ events[j + 1].occ = events[i].occ
    BY <2>3 DEF Leads
  <2>5. j + 1 = i
    <3> HIDE DEF j, o, events
    <3> QED BY <1>6, <2>4
  <2>6. j \in Int
    <3>1. o \in Controllers
      <4> DEFINE q == r.events
      <4>1. q \in Seq(ControllerOf(T)) /\ i \in DOMAIN q
        BY <1>4 DEF BlockReader
      <4> HIDE DEF q
      <4>2. q[i] \in ControllerOf(T)
        BY <4>1
      <4>3. q[i].occ \in Controllers
        BY <4>2 DEF ControllerOf
      <4> QED BY <4>3 DEF q
    <3>2. l \in Occ!OccLocations
      BY DEF Asked
    <3> HIDE DEF o
    <3> QED BY <1>4, <3>1, <3>2 DEF BlockReader
  <2> HIDE DEF j
  <2>7. j = i - 1
    BY <1>6, <2>5, <2>6
  <2> QED BY <2>7 DEF j
<1> DEFINE asked(o) == {l \in LocationMask(args, Params) \cap Occ!OccLocations : o # 0 => l # "sys"}
<1>9. \A o : Asked(o, L) = asked(o)
  BY DEF Asked, L
<1>11. {e.occ : e \in ToSet(events)} = {o \in 0..(n - 1) : o \in S /\ asked(o) # {}}
  <2> HIDE DEF asked, events
  <2> QED BY <1>7, <1>9
<1>12. \A i \in DOMAIN events : \A l \in asked(events[i].occ) : r.map[events[i].occ][l] = i - 1
  <2> HIDE DEF asked, events
  <2> QED BY <1>9, <1>10
<1>13. ASSUME NEW e \in ToSet(events)
       PROVE  {x.gsid : x \in ToSet(e.entries)} =
                  {x.gsid : x \in {y \in ToSet(blocks[e.occ + 1].entries) : y.genuine /\ y.gsid \in asked(e.occ)}}
  <2>1. asked(e.occ) = Asked(e.occ, L)
    BY <1>9
  <2> HIDE DEF asked, events
  <2> QED BY <1>8, <2>1
<1> QED BY <1>6, <1>11, <1>12, <1>13 DEF OccEventsComplete, machine, blocks, n, S, L, r

(* The readings of the GPUs.                                               *)
LEMMA GpuReaderComplete ==
  ASSUME ReadersInv
  PROVE  GpuEventsComplete
<1> SUFFICES ASSUME readers # Nothing, readers.gpu.vendor # "none" PROVE GpuEventsComplete
  BY DEF GpuEventsComplete
<1> DEFINE gpu == scenario.machine.gpu
           mask == DeviceMask(args, Params)
           r == readers.gpu
<1>1. r = Gpu!GpuReaderOf(gpu, {effective_readings_type(Gpu!Support(gpu, mask))}, mask) /\ r.error = Fine
  BY ReadersMade DEF create_gpu_reader, Params
<1>2. gpu.vendor # "none"
  <2> HIDE DEF gpu, mask
  <2> QED BY <1>1 DEF Gpu!GpuReaderOf
<1> HIDE DEF gpu, mask, r
<1> DEFINE t == effective_readings_type(Gpu!CommonTypes(gpu, mask))
<1>3. t \in Gpu!ReadingTypes /\ r.events = Gpu!Chosen(gpu, mask) \X {t}
  <2>1. t \in Gpu!CommonTypes(gpu, mask) /\ r.events = Gpu!Chosen(gpu, mask) \X {t}
    BY <1>1, <1>2, GpuReaderFound
  <2> HIDE DEF t
  <2> QED BY <2>1 DEF Gpu!CommonTypes
<1> HIDE DEF t
<1> QED BY <1>3 DEF GpuEventsComplete, gpu, mask, r

-----------------------------------------------------------------------------
(* The invariant holds initially.                                          *)
LEMMA Initially == Init => IInv
<1> SUFFICES ASSUME Init PROVE IInv
  OBVIOUS
<1>1. TypeOK
  BY TypeInit
<1>2. table = EmptyTable /\ table.armed = {} /\ GoodTable(table) /\ table.error = Fine
  BY EmptyGood DEF Init, EmptyTable
<1>3. stage = "arguments" /\ child = NoChild /\ entry = TRUE /\ matched = FALSE /\ todo = AtSection(1, 1)
      /\ results = <<>>
  BY DEF Init
<1> USE DEF Started, Followed, Ready, Inserting, Ended
<1>4. ChildInv
  <2>1. IsSequence(<<>>) /\ ToSet(<<>>) \subseteq ToSet(scenario.script)
    BY EmptyIsSequence DEF ToSet
  <2>2. /\ child.st = "none" /\ child.event = "none" /\ child.script = <<>> /\ child.call = Nothing
        /\ ~child.trap /\ ~child.syscalls /\ ~child.exitkill
        /\ child = [st |-> child.st, event |-> child.event, image |-> child.image, script |-> child.script,
                    call |-> child.call, trap |-> child.trap, syscalls |-> child.syscalls,
                    exitkill |-> child.exitkill]
    BY <1>3 DEF NoChild
  <2>3. stage = "arguments" /\ IsSequence(child.script) /\ ToSet(child.script) \subseteq ToSet(scenario.script)
    BY <1>3, <2>1, <2>2
  <2> HIDE DEF Init
  <2>4. child.st = "none" <=> stage \in Started \/ (stage \in Ended /\ child.st = "none")
    BY <2>2, <2>3
  <2>5. stage \notin {"readers", "await", "awaitwait", "run"}
    BY <2>3
  <2>6. child.st \notin {"running", "stopped", "dead", "detached"}
    BY <2>2
  <2>7. child.trap \in BOOLEAN /\ child.syscalls \in BOOLEAN /\ child.exitkill \in BOOLEAN
    <3>1. child.trap = FALSE /\ child.syscalls = FALSE /\ child.exitkill = FALSE
      BY <1>3 DEF NoChild
    <3> QED BY <3>1
  <2> QED BY <2>2, <2>3, <2>4, <2>5, <2>6, <2>7, Zenon DEF ChildInv
<1>5. KillInv /\ ImageInv /\ ArgsInv /\ ConfigInv
  BY <1>2, <1>3 DEF KillInv, ImageInv, ArgsInv, ConfigInv, NoChild
<1>6. AwaitInv
  BY <1>3 DEF AwaitInv, NoChild
<1>7. TodoInv
  BY <1>3 DEF TodoInv, AtSection
<1>8. TableInv
  BY <1>2, <1>3 DEF TableInv
<1>9. ResultsInv
  BY <1>3, EmptyIsSequence DEF ResultsInv
<1>10. LocatedInv
  BY LocatedInit
<1>11. ReadersInv
  BY <1>3 DEF ReadersInv, Init
<1> QED BY <1>1, <1>4, <1>5, <1>6, <1>7, <1>8, <1>9, <1>10, <1>11 DEF IInv

(* The invariant, with the scenario that is played.                        *)
SInv == scenario \in Scenarios /\ IInv

(* Every step keeps the invariant.                                         *)
LEMMA Inductive == SInv /\ [Next]_vars => SInv'
<1> SUFFICES ASSUME SInv, [Next]_vars PROVE SInv'
  OBVIOUS
<1>0. /\ scenario \in Scenarios /\ TypeOK /\ ChildInv /\ KillInv /\ AwaitInv /\ ImageInv /\ ArgsInv /\ ConfigInv
      /\ TodoInv /\ TableInv /\ ResultsInv /\ LocatedInv /\ ReadersInv
  BY DEF SInv, IInv
<1>1. CASE Main
  <2>1. TypeOK' /\ ChildInv' /\ AwaitInv' /\ ImageInv'
    BY <1>0, <1>1, TypeStep, ChildMainStep, AwaitMainStep, ImageMainStep
  <2>2. scenario' = scenario
    BY <1>1, MainFlow DEF static
  <2> QED BY <1>0, <2>1, <2>2, KillStep, ArgsStep, ConfigStep, TodoStep, TableStep, ResultsStep,
            LocatedStep, ReadersStep DEF SInv, IInv
<1>2. CASE Child \/ ChildKilled
  <2>1. TypeOK' /\ ChildInv' /\ AwaitInv' /\ ImageInv'
    BY <1>0, <1>2, ChildStep, ChildChildStep, AwaitChildStep, ImageChildStep
  <2>2. scenario' = scenario
    BY <1>2 DEF Child, ChildKilled, static
  <2> QED BY <1>0, <2>1, <2>2, KillStep, ArgsStep, ConfigStep, TodoStep, TableStep, ResultsStep,
            LocatedStep, ReadersStep DEF SInv, IInv
<1>3. CASE UNCHANGED vars
  <2>1. TypeOK' /\ ChildInv' /\ AwaitInv' /\ ImageInv'
    <3>1. TypeOK'
      BY <1>0, <1>3 DEF TypeOK, vars
    <3>2. ChildInv'
      BY <1>0, <1>3 DEF ChildInv, Reported, vars
    <3>3. AwaitInv'
      BY <1>0, <1>3 DEF AwaitInv, Alive, Matches, CommandBehaves, OnTarget, vars
    <3>4. ImageInv'
      BY <1>0, <1>3 DEF ImageInv, Alive, CommandBehaves, OnTarget, Untouched, Executing, vars
    <3> QED BY <3>1, <3>2, <3>3, <3>4
  <2>2. scenario' = scenario
    BY <1>3 DEF vars
  <2> QED BY <1>0, <2>1, <2>2, KillStep, ArgsStep, ConfigStep, TodoStep, TableStep, ResultsStep,
            LocatedStep, ReadersStep DEF SInv, IInv
<1> QED BY <1>1, <1>2, <1>3 DEF Next, Finished

(* Every reachable state has it.                                           *)
LEMMA Invariant == Spec => []SInv
<1>1. Init => SInv
  BY Initially DEF SInv, Init
<1> QED BY <1>1, Inductive, PTL DEF Spec

(* Type correctness of the profiler and its child.                         *)
THEOREM ProfilerTypeOK == Spec => []TypeOK
<1>1. SInv => TypeOK
  BY DEF SInv, IInv
<1> QED BY <1>1, Invariant, PTL

(* The profiler never waits for a child that waits for it: while it is in  *)
(* waitpid() the child runs, or has a stop to report.                      *)
THEOREM ProfilerNoMutualWait == Spec => []NoMutualWait
<1>1. SInv => NoMutualWait
  BY DEF SInv, IInv, ChildInv, NoMutualWait
<1> QED BY <1>1, Invariant, PTL

(* Traps are only written into the image they were computed for, through   *)
(* whatever calls of exec a command that behaves gets there                *)
(* (await_executable()).                                                   *)
THEOREM ProfilerInstrumentsNamedImage == Spec => []InstrumentsNamedImage
<1>1. SInv => InstrumentsNamedImage
  BY DEF SInv, IInv, ImageInv, OnTarget, InstrumentsNamedImage
<1> QED BY <1>1, Invariant, PTL

(* The loops are at their end when the target is traced.                   *)
LEMMA CompleteWhenTracing ==
  ASSUME SInv, Tracing
  PROVE  TrapsComplete
<1>1. TableInv /\ TodoInv /\ ConfigGood /\ AllInserted
  BY DEF SInv, IInv, ConfigInv, Tracing, Started, Ended
<1>2. Balanced(table) /\ SectionsDone(table, todo)
  BY <1>1 DEF TableInv, Tracing, Inserting
<1>3. ASSUME NEW g \in DOMAIN config.groups, NEW s \in DOMAIN Sections(g)
      PROVE  \E a \in DOMAIN table.starts : table.starts[a].section = Sections(g)[s]
  <2>1. g < todo.group
    BY <1>1, SequenceFacts DEF ConfigGood, AllInserted, TodoInv
  <2> QED BY <1>2, <2>1 DEF SectionsDone, HasStart
<1> QED BY <1>2, <1>3 DEF TrapsComplete, Balanced

(* Tracing begins when every section has its start traps, every end trap   *)
(* its start and every start trap a place for its results; the code holds  *)
(* these traps and no others.                                              *)
THEOREM ProfilerTrapsComplete == Spec => []TrapsComplete
<1>1. SInv => TrapsComplete
  BY CompleteWhenTracing DEF TrapsComplete
<1> QED BY <1>1, Invariant, PTL

(* Equal pairs have equal parts.                                           *)
LEMMA Pairs == \A p, q, r, u : <<p, q>> = <<r, u>> => p = r /\ q = u
  OBVIOUS

(* What the invariant says of collected results.                           *)
LEMMA OwnSection ==
  ASSUME SInv
  PROVE  ResultsUnderOwnSection
<1> SUFFICES ASSUME NEW g \in DOMAIN table.groups, NEW s \in DOMAIN table.groups[g].sections,
                    NEW i \in DOMAIN table.groups[g].sections[s].executions
             PROVE  LET executions == table.groups[g].sections[s].executions
                        trap(x) == table.starts[executions[x].range]
                    IN  /\ trap(i).group.label = table.groups[g].label
                        /\ trap(i).section.label = table.groups[g].sections[s].label
                        /\ \A j \in DOMAIN executions : trap(j).section = trap(i).section
  BY DEF ResultsUnderOwnSection
<1> DEFINE executions == table.groups[g].sections[s].executions
           trap(x) == table.starts[executions[x].range]
<1>1. TableInv /\ ConfigInv /\ Placed(table) /\ Configured(table)
  BY DEF SInv, IInv, TableInv, GoodTable
<1>2. ASSUME NEW x \in DOMAIN executions
      PROVE  /\ trap(x).group.label = table.groups[g].label
             /\ trap(x).section.label = table.groups[g].sections[s].label
             /\ OfConfig(trap(x))
  <2> DEFINE a == executions[x].range
  <2>1. a \in DOMAIN table.places /\ table.places[a] = <<g, s>> /\ a \in DOMAIN table.starts
    BY <1>1 DEF Placed
  <2>2. PICK h \in DOMAIN table.groups : \E t \in DOMAIN table.groups[h].sections :
           /\ table.places[a] = <<h, t>>
           /\ table.groups[h].label = table.starts[a].group.label
           /\ table.groups[h].sections[t].label = table.starts[a].section.label
    BY <1>1, <2>1 DEF Placed
  <2>6. PICK t \in DOMAIN table.groups[h].sections :
           /\ table.places[a] = <<h, t>>
           /\ table.groups[h].label = table.starts[a].group.label
           /\ table.groups[h].sections[t].label = table.starts[a].section.label
    BY <2>2
  <2>7. <<g, s>> = <<h, t>>
    BY <2>1, <2>6
  <2> HIDE DEF a
  <2>3. h = g /\ t = s
    BY <2>7, Pairs
  <2> USE DEF a
  <2>4. trap(x) = table.starts[a]
    OBVIOUS
  <2>5. OfConfig(table.starts[a])
    BY <1>1, <2>1 DEF Configured
  <2> HIDE DEF a
  <2> QED BY <2>6, <2>3, <2>4, <2>5
<1>3. ConfigGood
  <2>1. table # EmptyTable
    BY DEF EmptyTable
  <2> QED BY <1>1, <2>1 DEF ConfigInv
<1>4. ASSUME NEW j \in DOMAIN executions
      PROVE  trap(j).section = trap(i).section
  <2>7. PICK gi \in DOMAIN config.groups : \E si \in DOMAIN Sections(gi) :
           trap(i).group = config.groups[gi] /\ trap(i).section = Sections(gi)[si]
    BY <1>2 DEF OfConfig
  <2>1. PICK si \in DOMAIN Sections(gi) :
           trap(i).group = config.groups[gi] /\ trap(i).section = Sections(gi)[si]
    BY <2>7
  <2>8. PICK gj \in DOMAIN config.groups : \E sj \in DOMAIN Sections(gj) :
           trap(j).group = config.groups[gj] /\ trap(j).section = Sections(gj)[sj]
    BY <1>2 DEF OfConfig
  <2>2. PICK sj \in DOMAIN Sections(gj) :
           trap(j).group = config.groups[gj] /\ trap(j).section = Sections(gj)[sj]
    BY <2>8
  <2>3. /\ config.groups[gi].label = config.groups[gj].label
        /\ Sections(gi)[si].label = Sections(gj)[sj].label
    BY <1>2, <2>1, <2>2
  <2>4. gi = gj
    BY <1>3, <2>3 DEF ConfigGood
  <2>5. si = sj
    BY <1>3, <2>3, <2>4 DEF ConfigGood
  <2> QED BY <2>1, <2>2, <2>4, <2>5
<1> QED BY <1>2, <1>4

(* Results of an execution are stored under the group and the section      *)
(* whose trap it hit, for any configuration that is accepted.              *)
THEOREM ProfilerResultsUnderOwnSection == Spec => []ResultsUnderOwnSection
<1>1. SInv => ResultsUnderOwnSection
  BY OwnSection
<1> QED BY <1>1, Invariant, PTL

(* A function named without its unit is measured at the one symbol that    *)
(* fits its name best, whatever the debug information has                  *)
(* (find_function_symbol()).                                               *)
THEOREM ProfilerCallsUnambiguous == Spec => []CallsUnambiguous
<1>1. SInv => CallsUnambiguous
  BY LocatedMeans DEF SInv, IInv
<1> QED BY <1>1, Invariant, PTL

(* A section between lines starts at the first line and column, from the   *)
(* line asked for on, that has code in the unit asked for, whatever the    *)
(* order of the line table (find_lines(), load_lines()).                   *)
THEOREM ProfilerLinesAsAsked == Spec => []LinesAsAsked
<1>1. SInv => LinesAsAsked
  BY LocatedMeans DEF SInv, IInv
<1> QED BY <1>1, Invariant, PTL

(* The readers have the events that the masks and the machine call for: on *)
(* each architecture one for each zone or controller asked for, and of the *)
(* GPUs one reading of each device, for any machine (RaplEventsComplete,   *)
(* OccEventsComplete and GpuEventsComplete).                               *)
THEOREM ProfilerEventsComplete == Spec => []EventsComplete
<1>1. SInv => EventsComplete
  BY RaplReaderComplete, OccReaderComplete, GpuReaderComplete DEF SInv, IInv, EventsComplete
<1> QED BY <1>1, Invariant, PTL

-----------------------------------------------------------------------------
(* What is printed is all that was read.                                   *)

(* Every one of some indices is the k-th of them, for one k.               *)
LEMMA Ranked ==
  ASSUME NEW n \in Nat, NEW I \in SUBSET (1..n)
  PROVE  /\ Cardinality(I) \in Nat
         /\ \A k \in 1..Cardinality(I) : Nth(I, k) \in I
         /\ \A i \in I : \E k \in 1..Cardinality(I) : Nth(I, k) = i
<1> DEFINE upto(i) == {j \in I : j <= i}
           rank == [i \in I |-> Cardinality(upto(i))]
           c == Cardinality(I)
<1>1. IsFiniteSet(1..n)
  BY FS_Interval
<1>2. IsFiniteSet(I) /\ c \in Nat
  BY <1>1, FS_Subset, FS_CardinalityType
<1>3. ASSUME NEW i \in I
      PROVE  IsFiniteSet(upto(i)) /\ Cardinality(upto(i)) \in 1..c
  <2>1. upto(i) \in SUBSET I /\ i \in upto(i)
    OBVIOUS
  <2> HIDE DEF upto
  <2>2. IsFiniteSet(upto(i)) /\ Cardinality(upto(i)) <= c
    BY <1>2, <2>1, FS_Subset
  <2>3. Cardinality(upto(i)) \in Nat /\ Cardinality(upto(i)) # 0
    BY <2>1, <2>2, FS_CardinalityType, FS_EmptySet
  <2> QED BY <1>2, <2>2, <2>3
<1>4. ASSUME NEW i \in I, NEW j \in I, i < j
      PROVE  Cardinality(upto(i)) < Cardinality(upto(j))
  <2>1. upto(i) \in SUBSET upto(j) /\ upto(i) # upto(j)
    <3>1. \A m \in I : m <= i => m <= j
      BY <1>4
    <3>2. j \in upto(j) /\ j \notin upto(i)
      BY <1>4
    <3>3. upto(i) \subseteq upto(j)
      BY <3>1
    <3> QED BY <3>2, <3>3
  <2>2. IsFiniteSet(upto(j)) /\ Cardinality(upto(j)) \in Nat /\ Cardinality(upto(i)) \in Nat
    BY <1>3
  <2> HIDE DEF upto
  <2>3. Cardinality(upto(i)) <= Cardinality(upto(j)) /\ Cardinality(upto(i)) # Cardinality(upto(j))
    BY <2>1, <2>2, FS_Subset
  <2> QED BY <2>2, <2>3
<1>5. ASSUME NEW i \in I, NEW j \in I, Cardinality(upto(i)) = Cardinality(upto(j))
      PROVE  i = j
  <2>1. Cardinality(upto(i)) \in Nat /\ Cardinality(upto(j)) \in Nat
    BY <1>3
  <2>2. ~(i < j) /\ ~(j < i)
    BY <1>4, <1>5, <2>1
  <2> QED BY <2>2
<1> HIDE DEF upto
<1>6. rank \in Surjection(I, 1..c)
  <2>1. rank \in [I -> 1..c]
    BY <1>3
  <2>2. \A i, j \in I : rank[i] = rank[j] => i = j
    BY <1>5
  <2>3. rank \in Injection(I, 1..c)
    <3> HIDE DEF rank, c
    <3> QED BY <2>1, <2>2 DEF Injection, IsInjective
  <2>4. IsFiniteSet(1..c) /\ Cardinality(1..c) = c
    <3>1. IsFiniteSet(1..c) /\ Cardinality(1..c) = IF 1 > c THEN 0 ELSE c - 1 + 1
      <4> HIDE DEF c
      <4> QED BY <1>2, FS_Interval
    <3>2. 1 > c => c = 0
      BY <1>2
    <3> QED BY <1>2, <3>1, <3>2
  <2> HIDE DEF rank
  <2> QED BY <1>2, <2>3, <2>4, FS_Injection
<1>7. \A k \in 1..c : \E i \in I : rank[i] = k
  <2> HIDE DEF rank, c
  <2> QED BY <1>6 DEF Surjection
<1>8. \A k \in 1..c : Nth(I, k) \in I /\ Cardinality(upto(Nth(I, k))) = k
  <2>1. \A k \in 1..c : \E i \in I : Cardinality(upto(i)) = k
    BY <1>7
  <2> QED BY <2>1 DEF Nth, upto
<1>9. ASSUME NEW i \in I PROVE \E k \in 1..c : Nth(I, k) = i
  <2>1. Cardinality(upto(i)) \in 1..c
    BY <1>3
  <2> QED BY <1>5, <1>8, <2>1
<1> QED BY <1>2, <1>8, <1>9

(* What is picked of a sequence is what it has at the indices.             *)
LEMMA PickedFacts ==
  ASSUME NEW s, NEW n \in Nat, NEW I \in SUBSET (1..n)
  PROVE  /\ DOMAIN Picked(s, I) = 1..Cardinality(I)
         /\ \A k \in DOMAIN Picked(s, I) : Nth(I, k) \in I /\ Picked(s, I)[k] = s[Nth(I, k)]
         /\ ToSet(Picked(s, I)) = {s[i] : i \in I}
         /\ Picked(s, I) = <<>> <=> I = {}
<1> DEFINE p == Picked(s, I)
           c == Cardinality(I)
<1>1. c \in Nat /\ \A k \in 1..c : Nth(I, k) \in I
  BY Ranked
<1>2. DOMAIN p = 1..c /\ \A k \in 1..c : p[k] = s[Nth(I, k)]
  BY DEF Picked
<1>3. \A i \in I : \E k \in 1..c : Nth(I, k) = i
  BY Ranked
<1>4. ToSet(p) = {s[i] : i \in I}
  <2> HIDE DEF p, c
  <2>1. \A i \in I : \E k \in 1..c : p[k] = s[i]
    BY <1>2, <1>3
  <2>2. \A k \in 1..c : \E i \in I : p[k] = s[i]
    BY <1>1, <1>2
  <2>3. ToSet(p) = {p[k] : k \in 1..c}
    BY <1>2 DEF ToSet
  <2>4. ASSUME NEW i \in I PROVE s[i] \in ToSet(p)
    <3>1. PICK k \in 1..c : p[k] = s[i]
      BY <2>1
    <3> QED BY <2>3, <3>1
  <2>5. ASSUME NEW k \in 1..c PROVE p[k] \in {s[i] : i \in I}
    <3>1. PICK i \in I : p[k] = s[i]
      BY <2>2
    <3> QED BY <3>1
  <2> QED BY <2>3, <2>4, <2>5
<1>5. p = <<>> <=> I = {}
  <2>1. p = <<>> => I = {}
    <3> SUFFICES ASSUME p = <<>>, NEW i \in I PROVE FALSE
      OBVIOUS
    <3>1. PICK k \in 1..c : Nth(I, k) = i
      BY <1>3
    <3> HIDE DEF p
    <3>2. DOMAIN p = {}
      OBVIOUS
    <3> QED BY <1>2, <3>1, <3>2
  <2>2. ASSUME I = {} PROVE p = <<>>
    <3>1. c = 0
      BY <2>2, FS_EmptySet
    <3>2. p = [k \in 1..0 |-> s[Nth(I, k)]]
      BY <3>1 DEF Picked
    <3> HIDE DEF p
    <3> QED BY <3>2
  <2> QED BY <2>1, <2>2
<1> QED BY <1>1, <1>2, <1>4, <1>5

(* The devices of a section's reader are its targets.                      *)
LEMMA DevicesOf ==
  ASSUME NEW T
  PROVE  ToSet(TargetSeq(T)) = T \cap {"cpu", "gpu"}
<1> DEFINE both == <<"cpu", "gpu">>
           I == {i \in DOMAIN both : both[i] \in T}
<1>1. TargetSeq(T) = Picked(both, I)
  BY DEF TargetSeq, Having
<1>2. DOMAIN both = 1..2 /\ both[1] = "cpu" /\ both[2] = "gpu"
  OBVIOUS
<1>3. I \in SUBSET (1..2)
  BY <1>2
<1>4. ToSet(Picked(both, I)) = {both[i] : i \in I}
  <2> HIDE DEF both, I
  <2> QED BY <1>3, PickedFacts
<1>5. {both[i] : i \in I} = T \cap {"cpu", "gpu"}
  <2> HIDE DEF both
  <2>1. \A i : i \in 1..2 <=> i = 1 \/ i = 2
    OBVIOUS
  <2> QED BY <1>2, <2>1
<1> QED BY <1>1, <1>4, <1>5

(* A sensor of the CPUs shows 0 when the level is.                         *)
LEMMA CpuSensorShows ==
  ASSUME NEW level \in Nat, NEW s \in 0..(MaxSockets - 1), NEW l
  PROVE  CpuSensor(level, s, l) \in Nat /\ (CpuSensor(level, s, l) # 0 <=> level # 0)
<1> DEFINE I == {i \in 1..Len(LocationBits) : LocationBits[i] = l}
           k == SelectInSeq(LocationBits, LAMBDA x : x = l)
<1>1. k = IF I # {} THEN Min(I) ELSE 0
  BY DEF SelectInSeq
<1>2. I \subseteq Nat
  OBVIOUS
<1>3. k \in Nat
  <2> HIDE DEF I, k
  <2> QED BY <1>1, <1>2, MinOf
<1>4. CpuSensor(level, s, l) = IF level = 0 THEN 0 ELSE 100 * level + 10 * s + k
  BY DEF CpuSensor
<1>5. s \in Nat
  BY DEF MaxSockets
<1> HIDE DEF k
<1>6. CASE level = 0
  BY <1>4, <1>6
<1>7. CASE level # 0
  <2>1. 100 * level + 10 * s + k \in Nat /\ 100 * level + 10 * s + k # 0
    BY <1>3, <1>5, <1>7
  <2> QED BY <1>4, <1>7, <2>1
<1> QED BY <1>6, <1>7

(* Of an event of a zone, value() returns what its sensor showed.          *)
LEMMA ZoneSample ==
  ASSUME NEW r, ZoneReader(r), Indexed(r), NEW i \in DOMAIN r.events, NEW cpu, NEW sample,
         sample = [k \in DOMAIN r.events |-> cpu[<<r.events[k].socket, r.events[k].loc>>]]
  PROVE  LET s == r.events[i].socket
             l == r.events[i].loc
         IN  /\ s \in 0..(Rapl!MaxSockets - 1) /\ l \in Rapl!RaplLocations
             /\ Rapl!HasValue(r, sample, l, s) <=> cpu[<<s, l>>] # 0
             /\ Rapl!Value(r, sample, l, s) = cpu[<<s, l>>]
<1> DEFINE s == r.events[i].socket
           l == r.events[i].loc
           j == r.map[s][l]
<1>1. r.events \in Seq(Domains) /\ DOMAIN r.events = 1..Len(r.events) /\ Len(r.events) \in Nat
  BY DEF ZoneReader
<1>2. s \in 0..(Rapl!MaxSockets - 1) /\ l \in Rapl!RaplLocations
  <2>1. r.events[i] \in Domains
    <3> DEFINE q == r.events
    <3> HIDE DEF q, Domains
    <3>1. q \in Seq(Domains) /\ i \in DOMAIN q
      BY <1>1 DEF q
    <3>2. q[i] \in Domains
      BY <3>1
    <3> QED BY <3>2 DEF q
  <2> QED BY <2>1 DEF Domains
<1>3. j \in Int
  <2> HIDE DEF s, l
  <2> QED BY <1>2 DEF ZoneReader
<1>4. j + 1 \in DOMAIN r.events /\ r.events[j + 1] = r.events[i]
  BY DEF Indexed
<1>5. Rapl!EventIdx(r, l, s) = j
  BY <1>2 DEF Rapl!EventIdx
<1>6. sample[j + 1] = cpu[<<s, l>>]
  <2> HIDE DEF j
  <2> QED BY <1>4
<1>7. j # Rapl!NoEvent
  <2> HIDE DEF j
  <2> QED BY <1>1, <1>3, <1>4 DEF Rapl!NoEvent
<1> HIDE DEF j, s, l
<1>8. Rapl!HasValue(r, sample, l, s) <=> cpu[<<s, l>>] # 0
  BY <1>5, <1>6, <1>7 DEF Rapl!HasValue
<1>9. Rapl!Value(r, sample, l, s) = cpu[<<s, l>>]
  BY <1>5, <1>6 DEF Rapl!Value
<1> QED BY <1>2, <1>8, <1>9 DEF s, l

(* What a sample has before it is read.                                    *)
Unfilled == [o \in Controllers |-> [l \in Occ!OccLocations |-> [ts |-> 0, value |-> 0]]]

(* The fold over the events that are read.                                 *)
LEMMA ReadAllReturns ==
  ASSUME NEW reader, NEW record, NEW n \in Nat, DOMAIN reader.events = 1..n
  PROVE  Returns("read", [record |-> record], Unfilled, reader.events, n, Occ!ReadAll(reader, record))
<1> DEFINE c == [record |-> record]
           s == reader.events
           Rec(f) == f = [t \in SUBSET DOMAIN s |->
                             IF t = {} THEN Unfilled
                             ELSE Occ!ReadEvent(s[Occ!Max(t)], f[t \ {Occ!Max(t)}], record)]
<1>1. \A x, e : Step("read", c, x, e) = Occ!ReadEvent(e, x, record)
  BY DEF Step
<1>2. \A f : Rec(f) <=> IsFold(f, "read", c, Unfilled, s, n)
  <2> SUFFICES ASSUME NEW f PROVE Rec(f) <=> IsFold(f, "read", c, Unfilled, s, n)
    OBVIOUS
  <2>1. IsFold(f, "read", c, Unfilled, s, n) <=> f = RecOf(f, "read", c, Unfilled, s, n)
    BY Recursion
  <2>2. \A t : Occ!Max(t) = Max(t)
    BY DEF Max, Occ!Max
  <2>3. f = RecOf(f, "read", c, Unfilled, s, n) <=> Rec(f)
    <3>1. DOMAIN s = 1..n
      OBVIOUS
    <3> HIDE DEF c, s
    <3>2. \A t : Step("read", c, f[t \ {Max(t)}], s[Max(t)]) =
                 Occ!ReadEvent(s[Max(t)], f[t \ {Max(t)}], record)
      BY <1>1
    <3>3. \A t : Step("read", c, f[t \ {Max(t)}], s[Max(t)]) =
                 Occ!ReadEvent(s[Occ!Max(t)], f[t \ {Occ!Max(t)}], record)
      BY <2>2, <3>2
    <3> QED BY <3>1, <3>3 DEF RecOf
  <2> QED BY <2>1, <2>3
<1>3. Occ!ReadAll(reader, record) = (CHOOSE f : Rec(f))[DOMAIN s]
  BY DEF Occ!ReadAll, Occ!FoldLeft, Occ!MapThenFoldSet, Unfilled, Controllers
<1>4. \E f : Rec(f)
  BY <1>2, FoldExists
<1>5. Rec(CHOOSE f : Rec(f))
  BY <1>4
<1> DEFINE fold == CHOOSE f : Rec(f)
<1>6. IsFold(fold, "read", c, Unfilled, s, n)
  BY <1>2, <1>5
<1>7. Occ!ReadAll(reader, record) = fold[1..n]
  BY <1>3
<1> HIDE DEF fold, c
<1> QED BY <1>6, <1>7, FoldReturns DEF c

(* A sample of the controllers, and that the sensors of the first n events *)
(* are in it.                                                              *)
IsReading(x) ==
    /\ x = [o \in Controllers |-> x[o]]
    /\ \A o \in Controllers : x[o] = [l \in Occ!OccLocations |-> x[o][l]]

GivenBy(event, l) == \E j \in DOMAIN event.entries : event.entries[j].gsid = l

Filled(x, events, record, n) ==
    \A i \in 1..n : \A l \in Occ!OccLocations :
        GivenBy(events[i], l) => x[events[i].occ][l] = record[events[i].occ][l]

(* One more event is read.                                                 *)
LEMMA ReadEventStep ==
  ASSUME NEW x, IsReading(x), NEW e, e.occ \in Controllers, NEW record, NEW r, r = Occ!ReadEvent(e, x, record)
  PROVE  /\ IsReading(r)
         /\ \A l \in Occ!OccLocations : GivenBy(e, l) => r[e.occ][l] = record[e.occ][l]
         /\ \A o \in Controllers : \A l \in Occ!OccLocations :
               r[o][l] = x[o][l] \/ r[o][l] = record[o][l]
<1> DEFINE mine(l) == {i \in DOMAIN e.entries : e.entries[i].gsid = l}
           row == [l \in Occ!OccLocations |-> IF mine(l) = {} THEN x[e.occ][l] ELSE record[e.occ][l]]
<1>1. r = [x EXCEPT ![e.occ] = row]
  BY DEF Occ!ReadEvent
<1>2. \A l : mine(l) = {} <=> ~GivenBy(e, l)
  BY DEF GivenBy
<1>3. row = [l \in Occ!OccLocations |-> row[l]]
      /\ \A l \in Occ!OccLocations : row[l] = IF GivenBy(e, l) THEN record[e.occ][l] ELSE x[e.occ][l]
  BY <1>2
<1> HIDE DEF row
<1>4. r = [o \in Controllers |-> r[o]] /\ \A o \in Controllers : r[o] = IF o = e.occ THEN row ELSE x[o]
  BY <1>1 DEF IsReading
<1>5. IsReading(r)
  <2>1. \A o \in Controllers : r[o] = [l \in Occ!OccLocations |-> r[o][l]]
    <3> SUFFICES ASSUME NEW o \in Controllers PROVE r[o] = [l \in Occ!OccLocations |-> r[o][l]]
      OBVIOUS
    <3>1. CASE o = e.occ
      BY <1>3, <1>4, <3>1
    <3>2. CASE o # e.occ
      BY <1>4, <3>2 DEF IsReading
    <3> QED BY <3>1, <3>2
  <2> QED BY <1>4, <2>1 DEF IsReading
<1>6. \A l \in Occ!OccLocations : GivenBy(e, l) => r[e.occ][l] = record[e.occ][l]
  BY <1>3, <1>4
<1>7. ASSUME NEW o \in Controllers, NEW l \in Occ!OccLocations
      PROVE  r[o][l] = x[o][l] \/ r[o][l] = record[o][l]
  <2>1. CASE o = e.occ
    BY <1>3, <1>4, <2>1
  <2>2. CASE o # e.occ
    BY <1>4, <2>2
  <2> QED BY <2>1, <2>2
<1> QED BY <1>5, <1>6, <1>7

(* What all events are read into.                                          *)
LEMMA AllRead ==
  ASSUME NEW reader, NEW record, NEW n \in Nat, DOMAIN reader.events = 1..n,
         \A i \in 1..n : reader.events[i].occ \in Controllers
  PROVE  Filled(Occ!ReadAll(reader, record), reader.events, record, n)
<1> DEFINE s == reader.events
           c == [record |-> record]
<1>1. PICK h : h[0] = Unfilled /\ h[n] = Occ!ReadAll(reader, record)
               /\ \A i \in 1..n : h[i] = Step("read", c, h[i - 1], s[i])
  BY ReadAllReturns DEF Returns
<1> DEFINE G == {i \in 0..n : IsReading(h[i]) /\ Filled(h[i], s, record, i)}
<1>2. 0 \in G
  <2>1. IsReading(Unfilled)
    BY DEF Unfilled, IsReading
  <2>2. Filled(Unfilled, s, record, 0)
    BY DEF Filled
  <2> QED BY <1>1, <2>1, <2>2
<1>3. ASSUME NEW i \in 1..n, i - 1 \in G
      PROVE  i \in G
  <2>1. h[i] = Occ!ReadEvent(s[i], h[i - 1], record)
    BY <1>1 DEF Step
  <2>2. s[i].occ \in Controllers
    OBVIOUS
  <2>3. IsReading(h[i - 1]) /\ Filled(h[i - 1], s, record, i - 1)
    BY <1>3
  <2> DEFINE x == h[i - 1]
             r == h[i]
             e == s[i]
  <2>4. /\ IsReading(r)
        /\ \A l \in Occ!OccLocations : GivenBy(e, l) => r[e.occ][l] = record[e.occ][l]
        /\ \A o \in Controllers : \A l \in Occ!OccLocations :
               r[o][l] = x[o][l] \/ r[o][l] = record[o][l]
    <3> HIDE DEF x, r, e
    <3>1. r = Occ!ReadEvent(e, x, record) /\ IsReading(x) /\ e.occ \in Controllers
      BY <2>1, <2>2, <2>3 DEF x, r, e
    <3> QED BY <3>1, ReadEventStep
  <2>5. ASSUME NEW k \in 1..i, NEW l \in Occ!OccLocations, GivenBy(s[k], l)
        PROVE  r[s[k].occ][l] = record[s[k].occ][l]
    <3>1. CASE k = i
      <4> HIDE DEF r, s
      <4> QED BY <2>4, <2>5, <3>1
    <3>2. CASE k # i
      <4>1. k \in 1..(i - 1) /\ k \in 1..n
        BY <3>2
      <4>2. x[s[k].occ][l] = record[s[k].occ][l]
        <5> HIDE DEF x, s
        <5> QED BY <2>3, <2>5, <4>1 DEF Filled, x
      <4>3. s[k].occ \in Controllers
        BY <4>1
      <4> HIDE DEF x, r, s
      <4> QED BY <2>4, <4>2, <4>3
    <3> QED BY <3>1, <3>2
  <2>6. Filled(r, s, record, i)
    <3> HIDE DEF r, s
    <3> QED BY <2>5 DEF Filled
  <2> QED BY <2>4, <2>6
<1>4. G = 0..n
  <2>1. G \subseteq 0..n
    OBVIOUS
  <2> HIDE DEF G
  <2> QED BY <1>2, <1>3, <2>1, UpTo
<1>5. n \in G
  <2> HIDE DEF G
  <2> QED BY <1>4
<1> QED BY <1>1, <1>5

(* Where a test first succeeds.                                            *)
LEMMA FirstOfEntries ==
  ASSUME NEW s, DOMAIN s = 1..Len(s), Len(s) \in Nat, NEW l, \E j \in DOMAIN s : s[j].gsid = l
  PROVE  LET k == Occ!SelectInSeq(s, LAMBDA e : e.gsid = l) IN k \in DOMAIN s /\ s[k].gsid = l
<1> DEFINE I == {k \in 1..Len(s) : s[k].gsid = l}
           k == Occ!SelectInSeq(s, LAMBDA e : e.gsid = l)
<1>1. k = IF I # {} THEN Occ!Min(I) ELSE 0
  BY DEF Occ!SelectInSeq
<1>2. I # {} /\ I \subseteq Nat
  OBVIOUS
<1>3. Occ!Min(I) \in I
  <2> HIDE DEF I
  <2>1. Occ!Min(I) = Min(I)
    BY DEF Occ!Min, Min
  <2> QED BY <1>2, <2>1, MinOf
<1>4. k \in I
  <2> HIDE DEF I, k
  <2> QED BY <1>1, <1>2, <1>3
<1> HIDE DEF k
<1>5. k \in DOMAIN s /\ s[k].gsid = l
  BY <1>4
<1> QED BY <1>5 DEF k

(* What the sensors of the controllers show.                               *)
Shown(cpu) == [o \in 0..(MaxSockets - 1) |-> [l \in Occ!OccLocations |-> [ts |-> 1, value |-> cpu[<<o, l>>]]]]

(* Of a sensor in Watts of a controller, value() returns what it showed.   *)
LEMMA ControllerSample ==
  ASSUME NEW r, NEW T, BlockReader(r, T), NEW i \in DOMAIN r.events, NEW l \in Occ!OccLocations,
         InWatts(r.events[i], l), r.map[r.events[i].occ][l] = i - 1, NEW cpu, NEW sample,
         sample = Occ!ReadAll(r, Shown(cpu))
  PROVE  LET o == r.events[i].occ
         IN  /\ o \in 0..(MaxSockets - 1)
             /\ Occ!HasValue(r, sample, l, o) <=> cpu[<<o, l>>] # 0
             /\ Occ!Value(r, sample, l, o) = cpu[<<o, l>>]
<1> DEFINE o == r.events[i].occ
           record == Shown(cpu)
           entries == r.events[i].entries
           j == Occ!SelectInSeq(entries, LAMBDA e : e.gsid = l)
           n == Len(r.events)
<1>1. r.events \in Seq(ControllerOf(T)) /\ DOMAIN r.events = 1..n /\ n \in Nat
  BY DEF BlockReader
<1>2. \A k \in DOMAIN r.events : r.events[k] \in ControllerOf(T)
  BY <1>1
<1>3. \A k \in DOMAIN r.events : r.events[k].occ \in Controllers /\ r.events[k].entries \in Seq(T)
  BY <1>2 DEF ControllerOf
<1>4. entries \in Seq(T) /\ o \in Controllers
  BY <1>3
<1>5. DOMAIN entries = 1..Len(entries) /\ Len(entries) \in Nat
  <2> HIDE DEF entries
  <2> QED BY <1>4
<1>6. \E k \in DOMAIN entries : entries[k].gsid = l
  <2> HIDE DEF entries
  <2> QED BY DEF InWatts, ToSet, entries
<1>7. j \in DOMAIN entries /\ entries[j].gsid = l
  <2> HIDE DEF entries
  <2> QED BY <1>5, <1>6, FirstOfEntries
<1>8. entries[j].watts
  <2> HIDE DEF j
  <2> QED BY <1>7 DEF InWatts, ToSet
<1>9. sample[o][l] = record[o][l]
  <2>1. sample = Occ!ReadAll(r, record)
    OBVIOUS
  <2>2. Filled(sample, r.events, record, n)
    <3> HIDE DEF record, n
    <3> QED BY <1>1, <1>3, <2>1, AllRead
  <2>3. GivenBy(r.events[i], l)
    BY <1>6 DEF GivenBy
  <2> HIDE DEF record, n
  <2> QED BY <1>1, <2>2, <2>3 DEF Filled
<1>10. o \in 0..(MaxSockets - 1)
  BY <1>4 DEF Controllers, MaxSockets, Occ!MaxSockets
<1>11. sample[o][l].ts = 1 /\ sample[o][l].value = cpu[<<o, l>>]
  <2>1. record[o][l] = [ts |-> 1, value |-> cpu[<<o, l>>]]
    <3> HIDE DEF o
    <3> QED BY <1>10 DEF Shown
  <2> HIDE DEF o, record
  <2> QED BY <1>9, <2>1
<1>12. Occ!Value(r, sample, l, o) = cpu[<<o, l>>]
  BY <1>11 DEF Occ!Value
<1>13. i - 1 # Occ!NoEvent /\ (i - 1) + 1 = i
  BY <1>1 DEF Occ!NoEvent
<1>14. j # 0
  <2> HIDE DEF j, entries
  <2> QED BY <1>5, <1>7
<1>15. Occ!HasValue(r, sample, l, o) <=>
          /\ r.map[o][l] # Occ!NoEvent
          /\ sample[o][l].ts # 0 /\ sample[o][l].value # 0
          /\ j # 0
          /\ Occ!canonicalize_power(sample[o][l].value, entries[j]) # 0
  BY <1>13 DEF Occ!HasValue
<1>16. Occ!canonicalize_power(sample[o][l].value, entries[j]) = sample[o][l].value
  <2> HIDE DEF j, entries, o
  <2> QED BY <1>8 DEF Occ!canonicalize_power
<1>17. r.map[o][l] = i - 1
  OBVIOUS
<1> HIDE DEF j, entries, o
<1>18. Occ!HasValue(r, sample, l, o) <=> cpu[<<o, l>>] # 0
  BY <1>11, <1>13, <1>14, <1>15, <1>16, <1>17
<1> QED BY <1>10, <1>12, <1>18 DEF o

(* The CPU reader of ppc64 that there is.                                  *)
LEMMA OccReaderOfMachine ==
  ASSUME scenario \in Scenarios, ReadersInv, readers # Nothing, readers.arch # "x86_64"
  PROVE  \E T : BlockReader(readers.cpu, T)
<1> DEFINE machine == scenario.machine.cpu
           S == SocketMask(args, Params)
           L == LocationMask(args, Params)
           r == readers.cpu
<1>1. r = Occ!OccReaderOf(machine, L, S) /\ r.error = Fine
  BY ReadersMade DEF create_cpu_reader, Params
<1>2. scenario.machine.arch # "x86_64"
  BY ReadersMade
<1>3. /\ IsFiniteSet(machine.packages) /\ IsSequence(machine.blocks)
      /\ Cardinality(machine.packages) <= Len(machine.blocks)
      /\ \A block \in ToSet(machine.blocks) : IsSequence(block.entries)
  BY <1>2, MachineFacts
<1> HIDE DEF machine, S, L, r
<1>4. \E T : BlockReader(r, T)
  BY <1>1, <1>3, OccReaderFound
<1> QED BY <1>4 DEF r

(* The CPU reader of x86_64 that there is.                                 *)
LEMMA RaplReaderOfMachine ==
  ASSUME scenario \in Scenarios, ReadersInv, readers # Nothing, readers.arch = "x86_64"
  PROVE  ZoneReader(readers.cpu) /\ Indexed(readers.cpu)
<1> DEFINE machine == scenario.machine.cpu
           S == SocketMask(args, Params)
           L == LocationMask(args, Params)
           r == readers.cpu
<1>1. r = Rapl!RaplReaderOf(machine, L, S) /\ r.error = Fine
  BY ReadersMade DEF create_cpu_reader, Params
<1>2. scenario.machine.arch = "x86_64"
  BY ReadersMade
<1>3. /\ IsFiniteSet(machine.packages) /\ IsSequence(machine.zones)
      /\ Cardinality(machine.packages) <= Len(machine.zones)
      /\ \A zone \in ToSet(machine.zones) : IsZone(zone)
  BY <1>2, MachineFacts
<1> HIDE DEF machine, S, L, r
<1>4. ZoneReader(r) /\ Indexed(r)
  BY <1>1, <1>3, RaplReaderFound
<1> QED BY <1>4 DEF r

(* The locations of both architectures are those of the masks.             *)
LEMMA Locations == Rapl!RaplLocations \subseteq ToSet(LocationBits) /\ Occ!OccLocations = ToSet(LocationBits)
<1> DEFINE bits == LocationBits
<1>1. DOMAIN bits = 1..6 /\ bits[1] = "pkg" /\ bits[2] = "cores" /\ bits[3] = "uncore" /\ bits[4] = "mem"
  BY DEF LocationBits
<1>2. ToSet(bits) = {bits[i] : i \in 1..6}
  <2> HIDE DEF bits
  <2> QED BY <1>1 DEF ToSet
<1>3. Rapl!RaplLocations \subseteq {bits[i] : i \in 1..6}
  <2> HIDE DEF bits
  <2> QED BY <1>1 DEF Rapl!RaplLocations
<1>4. Occ!OccLocations = {bits[i] : i \in 1..6}
  BY DEF Occ!OccLocations, Occ!LocationBits, Occ!MaxDomains, LocationBits
<1> QED BY <1>2, <1>3, <1>4

(* What the sensors of the CPUs show.                                      *)
LEMMA SensorsShow ==
  ASSUME NEW level, NEW s \in 0..(MaxSockets - 1), NEW l \in ToSet(LocationBits)
  PROVE  CpuSensors(level)[<<s, l>>] = CpuSensor(level, s, l)
<1> DEFINE D == (0..(MaxSockets - 1)) \X ToSet(LocationBits)
           f == [x \in D |-> CpuSensor(level, x[1], x[2])]
<1>1. <<s, l>> \in D
  OBVIOUS
<1>2. CpuSensors(level) = f
  BY DEF CpuSensors
<1>3. f[<<s, l>>] = CpuSensor(level, <<s, l>>[1], <<s, l>>[2])
  <2> HIDE DEF D
  <2> QED BY <1>1
<1> QED BY <1>2, <1>3

(* A sample has the reading of each event of the CPUs, if it is of them.   *)
LEMMA CpuSample ==
  ASSUME scenario \in Scenarios, ReadersInv, readers # Nothing, OccEventsComplete,
         NEW e \in CpuEvents, NEW level \in Nat, NEW devices, "cpu" \in ToSet(devices),
         NEW x, x = Read(readers, devices, CpuSensors(level), GpuSensors(level))
  PROVE  /\ e[1] \in 0..(MaxSockets - 1) /\ e[2] \in ToSet(LocationBits)
         /\ CpuHasValue(readers, x, e[2], e[1]) <=> level # 0
         /\ CpuValue(readers, x, e[2], e[1]) = CpuSensor(level, e[1], e[2])
<1> DEFINE cpu == CpuSensors(level)
           sample == ReadCpu(readers, cpu)
           r == readers.cpu
<1>1. x.cpu = sample
  BY DEF Read
<1>2. MaxSockets = Rapl!MaxSockets /\ MaxSockets = Occ!MaxSockets
  BY DEF MaxSockets, Rapl!MaxSockets, Occ!MaxSockets
<1>3. CASE readers.arch = "x86_64"
  <2>1. ZoneReader(r) /\ Indexed(r)
    BY <1>3, RaplReaderOfMachine
  <2>2. PICK event \in ZoneEvents : e = <<event.socket, event.loc>>
    BY <1>3 DEF CpuEvents
  <2>3. PICK i \in DOMAIN r.events : event = r.events[i]
    BY DEF ZoneEvents, ToSet
  <2> DEFINE s == event.socket
             l == event.loc
  <2>4. sample = [k \in DOMAIN r.events |-> cpu[<<r.events[k].socket, r.events[k].loc>>]]
    BY <1>3 DEF ReadCpu
  <2>5. /\ s \in 0..(Rapl!MaxSockets - 1) /\ l \in Rapl!RaplLocations
        /\ Rapl!HasValue(r, sample, l, s) <=> cpu[<<s, l>>] # 0
        /\ Rapl!Value(r, sample, l, s) = cpu[<<s, l>>]
    <3> HIDE DEF r, sample, cpu
    <3> QED BY <2>1, <2>3, <2>4, ZoneSample
  <2>6. s \in 0..(MaxSockets - 1) /\ l \in ToSet(LocationBits)
    BY <1>2, <2>5, Locations
  <2>7. cpu[<<s, l>>] = CpuSensor(level, s, l)
    BY <2>6, SensorsShow
  <2>8. CpuSensor(level, s, l) # 0 <=> level # 0
    BY <2>6, CpuSensorShows
  <2>9. CpuHasValue(readers, x, l, s) <=> Rapl!HasValue(r, sample, l, s)
    BY <1>1, <1>3 DEF CpuHasValue
  <2>10. CpuValue(readers, x, l, s) = Rapl!Value(r, sample, l, s)
    BY <1>1, <1>3 DEF CpuValue
  <2>11. e[1] = s /\ e[2] = l
    BY <2>2
  <2> HIDE DEF s, l, cpu, sample
  <2> QED BY <2>5, <2>6, <2>7, <2>8, <2>9, <2>10, <2>11
<1>4. CASE readers.arch # "x86_64"
  <2>1. PICK T : BlockReader(r, T)
    BY <1>4, OccReaderOfMachine
  <2> DEFINE asked(o) == {l \in LocationMask(args, Params) \cap Occ!OccLocations : o # 0 => l # "sys"}
             blocks == scenario.machine.cpu.blocks
  <2>2. PICK event \in ToSet(r.events), l \in Occ!OccLocations : InWatts(event, l) /\ e = <<event.occ, l>>
    BY <1>4 DEF CpuEvents
  <2>3. PICK i \in DOMAIN r.events : event = r.events[i]
    BY DEF ToSet
  <2> DEFINE s == event.occ
  <2>4. {y.gsid : y \in ToSet(event.entries)} =
           {y.gsid : y \in {z \in ToSet(blocks[event.occ + 1].entries) : z.genuine /\ z.gsid \in asked(event.occ)}}
    BY <1>4 DEF OccEventsComplete
  <2>5. l \in asked(s)
    <3>1. l \in {y.gsid : y \in ToSet(event.entries)}
      BY <2>2 DEF InWatts
    <3> HIDE DEF asked, blocks
    <3> QED BY <2>4, <3>1
  <2>6. r.map[s][l] = i - 1
    <3>1. \A k \in DOMAIN r.events : \A m \in asked(r.events[k].occ) : r.map[r.events[k].occ][m] = k - 1
      BY <1>4 DEF OccEventsComplete
    <3> HIDE DEF asked
    <3> QED BY <2>3, <2>5, <3>1
  <2>7. sample = Occ!ReadAll(r, Shown(cpu))
    BY <1>4 DEF ReadCpu, Shown
  <2>8. /\ s \in 0..(MaxSockets - 1)
        /\ Occ!HasValue(r, sample, l, s) <=> cpu[<<s, l>>] # 0
        /\ Occ!Value(r, sample, l, s) = cpu[<<s, l>>]
    <3>1. i \in DOMAIN r.events /\ InWatts(r.events[i], l) /\ r.map[r.events[i].occ][l] = i - 1
      BY <2>2, <2>3, <2>6
    <3> HIDE DEF r, sample, cpu, asked, blocks
    <3>2. /\ r.events[i].occ \in 0..(MaxSockets - 1)
          /\ Occ!HasValue(r, sample, l, r.events[i].occ) <=> cpu[<<r.events[i].occ, l>>] # 0
          /\ Occ!Value(r, sample, l, r.events[i].occ) = cpu[<<r.events[i].occ, l>>]
      BY <2>1, <2>7, <3>1, ControllerSample
    <3> QED BY <2>3, <3>2
  <2>9. l \in ToSet(LocationBits)
    BY Locations
  <2>10. cpu[<<s, l>>] = CpuSensor(level, s, l)
    BY <2>8, <2>9, SensorsShow
  <2>11. CpuSensor(level, s, l) # 0 <=> level # 0
    BY <2>8, CpuSensorShows
  <2>12. CpuHasValue(readers, x, l, s) <=> Occ!HasValue(r, sample, l, s)
    BY <1>1, <1>4 DEF CpuHasValue
  <2>13. CpuValue(readers, x, l, s) = Occ!Value(r, sample, l, s)
    BY <1>1, <1>4 DEF CpuValue
  <2>14. e[1] = s /\ e[2] = l
    BY <2>2
  <2> HIDE DEF s, cpu, sample, asked, blocks
  <2> QED BY <2>8, <2>9, <2>10, <2>11, <2>12, <2>13, <2>14
<1> QED BY <1>3, <1>4

(* The samples of the scenario of some devices: what reads as nothing      *)
(* among them.                                                             *)
LEMMA LevelsOf ==
  ASSUME scenario \in Scenarios
  PROVE  /\ Len(scenario.levels) \in Nat /\ DOMAIN scenario.levels = 1..Len(scenario.levels)
         /\ \A i \in DOMAIN scenario.levels : scenario.levels[i] \in Nat
<1> DEFINE s == scenario.levels
<1>1. s \in Seq(Nat)
  BY ProfilerAssumption
<1> HIDE DEF s
<1>2. Len(s) \in Nat /\ DOMAIN s = 1..Len(s) /\ \A i \in DOMAIN s : s[i] \in Nat
  BY <1>1
<1> QED BY <1>2 DEF s

(* A list has the readings of all samples but those that are 0.            *)
LEMMA CpuListComplete ==
  ASSUME scenario \in Scenarios, ReadersInv, readers # Nothing, OccEventsComplete,
         NEW e \in CpuEvents, NEW devices, "cpu" \in ToSet(devices)
  PROVE  CpuList(readers, Samples(devices), e[2], e[1]) =
             [i \in DOMAIN NotZero |-> CpuSensor(NotZero[i], e[1], e[2])]
<1> DEFINE levels == scenario.levels
           samples == Samples(devices)
           Has(x) == CpuHasValue(readers, x, e[2], e[1])
           val(x) == CpuValue(readers, x, e[2], e[1])
           I == {i \in DOMAIN samples : Has(samples[i])}
           J == {i \in DOMAIN levels : levels[i] # 0}
           n == Len(levels)
           with == Having(samples, Has)
<1>1. n \in Nat /\ DOMAIN levels = 1..n /\ \A i \in DOMAIN levels : levels[i] \in Nat
  BY LevelsOf
<1>2. DOMAIN samples = DOMAIN levels
      /\ \A i \in DOMAIN levels :
            samples[i] = Read(readers, devices, CpuSensors(levels[i]), GpuSensors(levels[i]))
  BY DEF Samples
<1>3. \A i \in DOMAIN levels : Has(samples[i]) <=> levels[i] # 0
  <2> SUFFICES ASSUME NEW i \in DOMAIN levels PROVE Has(samples[i]) <=> levels[i] # 0
    OBVIOUS
  <2> DEFINE x == samples[i]
             level == levels[i]
  <2>1. level \in Nat /\ x = Read(readers, devices, CpuSensors(level), GpuSensors(level))
    BY <1>1, <1>2
  <2> HIDE DEF x, level
  <2>2. CpuHasValue(readers, x, e[2], e[1]) <=> level # 0
    BY <2>1, CpuSample
  <2> QED BY <2>2 DEF x, level
<1>4. \A i \in DOMAIN levels : val(samples[i]) = CpuSensor(levels[i], e[1], e[2])
  <2> SUFFICES ASSUME NEW i \in DOMAIN levels PROVE val(samples[i]) = CpuSensor(levels[i], e[1], e[2])
    OBVIOUS
  <2> DEFINE x == samples[i]
             level == levels[i]
  <2>1. level \in Nat /\ x = Read(readers, devices, CpuSensors(level), GpuSensors(level))
    BY <1>1, <1>2
  <2> HIDE DEF x, level
  <2>2. CpuValue(readers, x, e[2], e[1]) = CpuSensor(level, e[1], e[2])
    BY <2>1, CpuSample
  <2> QED BY <2>2 DEF x, level
<1>5. I = J
  <2> HIDE DEF Has, samples, levels
  <2> QED BY <1>2, <1>3
<1>6. with = Picked(samples, J) /\ NotZero = Picked(levels, J)
  <2>1. with = Picked(samples, I)
    BY DEF Having
  <2>2. NotZero = Picked(levels, J)
    BY DEF NotZero, Having
  <2> HIDE DEF with, I, J
  <2> QED BY <1>5, <2>1, <2>2
<1>7. J \in SUBSET (1..n)
  BY <1>1
<1>8. /\ DOMAIN with = 1..Cardinality(J) /\ DOMAIN NotZero = 1..Cardinality(J)
      /\ \A k \in 1..Cardinality(J) : Nth(J, k) \in J /\ with[k] = samples[Nth(J, k)] /\ NotZero[k] = levels[Nth(J, k)]
  <2> HIDE DEF with, J, samples, levels, n
  <2>1. /\ DOMAIN Picked(samples, J) = 1..Cardinality(J)
        /\ \A k \in DOMAIN Picked(samples, J) : Nth(J, k) \in J /\ Picked(samples, J)[k] = samples[Nth(J, k)]
    BY <1>1, <1>7, PickedFacts
  <2>2. /\ DOMAIN Picked(levels, J) = 1..Cardinality(J)
        /\ \A k \in DOMAIN Picked(levels, J) : Nth(J, k) \in J /\ Picked(levels, J)[k] = levels[Nth(J, k)]
    BY <1>1, <1>7, PickedFacts
  <2> QED BY <1>6, <2>1, <2>2
<1>9. \A k \in 1..Cardinality(J) : val(with[k]) = CpuSensor(NotZero[k], e[1], e[2])
  <2>1. \A i \in J : i \in DOMAIN levels
    OBVIOUS
  <2> HIDE DEF with, J, samples, levels, val
  <2> QED BY <1>4, <1>8, <2>1
<1>10. CpuList(readers, samples, e[2], e[1]) = [i \in DOMAIN with |-> val(with[i])]
  BY DEF CpuList
<1> HIDE DEF with, J, samples, levels, val
<1> QED BY <1>8, <1>9, <1>10 DEF samples

(* What reads as nothing is left out, and something is left.               *)
LEMMA SomeNotZero ==
  ASSUME NotZero # <<>>, NEW list, DOMAIN list = DOMAIN NotZero
  PROVE  list # <<>>
<1> DEFINE J == {i \in DOMAIN scenario.levels : scenario.levels[i] # 0}
           z == NotZero
<1>1. z = Picked(scenario.levels, J)
  BY DEF NotZero, Having
<1> HIDE DEF J
<1>2. z = [k \in 1..Cardinality(J) |-> z[k]] /\ DOMAIN z = 1..Cardinality(J)
  BY <1>1 DEF Picked
<1>3. DOMAIN z # {}
  <2> SUFFICES ASSUME DOMAIN z = {} PROVE z = <<>>
    OBVIOUS
  <2>1. z = [k \in {} |-> z[k]]
    BY <1>2
  <2> HIDE DEF z
  <2> QED BY <2>1
<1>4. DOMAIN <<>> = {}
  OBVIOUS
<1> HIDE DEF z
<1> QED BY <1>3, <1>4 DEF z

(* The output of an execution that is measured by the CPUs has all their   *)
(* readings.                                                               *)
LEMMA CpuOutputComplete ==
  ASSUME scenario \in Scenarios, ReadersInv, readers # Nothing, OccEventsComplete, NotZero # <<>>,
         NEW devices, "cpu" \in ToSet(devices), NEW read, "cpu" \in ToSet(read)
  PROVE  CpuComplete(ReadingsOutput(readers, devices, Samples(read)))
<1> DEFINE samples == Samples(read)
           out == ReadingsOutput(readers, devices, samples)
           row(s) == [socket |-> s, lists |-> [l \in ToSet(LocationBits) |-> CpuList(readers, samples, l, s)]]
<1>1. out.cpu = {row(s) : s \in {k \in 0..(MaxSockets - 1) :
                    \E l \in ToSet(LocationBits) : CpuList(readers, samples, l, k) # <<>>}}
  BY DEF ReadingsOutput, CpuOutput
<1>2. ASSUME NEW e \in CpuEvents
      PROVE  \E r \in out.cpu : r.socket = e[1] /\ r.lists[e[2]] =
                [i \in DOMAIN NotZero |-> CpuSensor(NotZero[i], e[1], e[2])]
  <2> DEFINE list == [i \in DOMAIN NotZero |-> CpuSensor(NotZero[i], e[1], e[2])]
  <2>1. CpuList(readers, samples, e[2], e[1]) = list
    BY CpuListComplete
  <2>2. list # <<>>
    <3>1. DOMAIN list = DOMAIN NotZero
      OBVIOUS
    <3> HIDE DEF list
    <3> QED BY <3>1, SomeNotZero
  <2>3. e[1] \in 0..(MaxSockets - 1) /\ e[2] \in ToSet(LocationBits)
    <3>1. PICK x : x = Read(readers, devices, CpuSensors(0), GpuSensors(0))
      OBVIOUS
    <3> QED BY <3>1, CpuSample
  <2> DEFINE r == row(e[1])
  <2>4. r.socket = e[1] /\ r.lists[e[2]] = list
    <3> HIDE DEF list
    <3> QED BY <2>1, <2>3
  <2>5. r \in out.cpu
    <3> HIDE DEF row, out, list
    <3> QED BY <1>1, <2>1, <2>2, <2>3
  <2> HIDE DEF r, out, list
  <2> QED BY <2>4, <2>5 DEF list
<1> HIDE DEF out
<1> QED BY <1>2 DEF CpuComplete, out

(* A mask of the GPUs is one of 8 devices.                                 *)
LEMMA DevicesOfMask ==
  DeviceMask(args, Params) \subseteq 0..(Gpu!MaxDevices - 1) /\ \A d \in 0..(Gpu!MaxDevices - 1) : d \in Nat
<1>1. DeviceMask(args, Params) \subseteq 0..(8 - 1)
  BY DEF DeviceMask, MaskOf
<1> QED BY <1>1 DEF Gpu!MaxDevices

(* The readers of the GPUs that there are.                                 *)
LEMMA GpuReaderOfMachine ==
  ASSUME ReadersInv, readers # Nothing, readers.gpu.vendor # "none"
  PROVE  LET gpu == scenario.machine.gpu
             mask == DeviceMask(args, Params)
             t == effective_readings_type(Gpu!CommonTypes(gpu, mask))
         IN  /\ gpu.vendor # "none" /\ readers.gpu.vendor = gpu.vendor
             /\ Gpu!SupportError(gpu, mask) = Fine
             /\ t \in Gpu!CommonTypes(gpu, mask)
             /\ readers.gpu.events = Gpu!Chosen(gpu, mask) \X {t}
<1> DEFINE gpu == scenario.machine.gpu
           mask == DeviceMask(args, Params)
           r == readers.gpu
           t == effective_readings_type(Gpu!CommonTypes(gpu, mask))
<1>1. r = Gpu!GpuReaderOf(gpu, {effective_readings_type(Gpu!Support(gpu, mask))}, mask) /\ r.error = Fine
  BY ReadersMade DEF create_gpu_reader, Params
<1>2. gpu.vendor # "none"
  <2> HIDE DEF gpu, mask
  <2> QED BY <1>1 DEF Gpu!GpuReaderOf
<1> HIDE DEF gpu, mask, r
<1>3. /\ r.vendor = gpu.vendor
      /\ Gpu!SupportError(gpu, mask) = Fine
      /\ t \in Gpu!CommonTypes(gpu, mask)
      /\ r.events = Gpu!Chosen(gpu, mask) \X {t}
  BY <1>1, <1>2, GpuReaderFound
<1> QED BY <1>2, <1>3 DEF gpu, mask, r

(* What the events of the GPUs are: all of one type, the energy only where *)
(* there are such readings.                                                *)
LEMMA GpuEvent ==
  ASSUME ReadersInv, readers # Nothing, NEW e \in readers.gpu.events
  PROVE  /\ e = <<e[1], e[2]>> /\ e[1] \in 0..(Gpu!MaxDevices - 1) /\ e[2] \in Gpu!ReadingTypes
         /\ \A f \in readers.gpu.events : f[2] = e[2]
         /\ e[2] = "energy" => readers.gpu.vendor = "nvidia"
<1> DEFINE gpu == scenario.machine.gpu
           mask == DeviceMask(args, Params)
           D == Gpu!Chosen(gpu, mask)
           types == Gpu!CommonTypes(gpu, mask)
           t == effective_readings_type(types)
           events == readers.gpu.events
<1>1. readers.gpu.vendor # "none"
  <2> SUFFICES ASSUME readers.gpu.vendor = "none" PROVE FALSE
    OBVIOUS
  <2> DEFINE r == readers.gpu
  <2>1. r = Gpu!GpuReaderOf(gpu, {effective_readings_type(Gpu!Support(gpu, mask))}, mask)
    BY ReadersMade DEF create_gpu_reader, Params
  <2> HIDE DEF gpu, mask
  <2>2. r.events = {}
    BY <2>1 DEF Gpu!GpuReaderOf
  <2> QED BY <2>2
<1>2. /\ readers.gpu.vendor = gpu.vendor /\ t \in types /\ events = D \X {t}
  BY <1>1, GpuReaderOfMachine
<1>3. D \subseteq 0..(Gpu!MaxDevices - 1)
  <2>1. D \subseteq mask
    BY DEF Gpu!Chosen
  <2> QED BY <2>1, DevicesOfMask
<1>4. \A d \in D : t \in Gpu!DeviceTypes(gpu, d)
  <2> HIDE DEF t, D
  <2> QED BY <1>2 DEF Gpu!CommonTypes, D
<1>5. t \in Gpu!ReadingTypes
  <2> HIDE DEF t
  <2> QED BY <1>2 DEF Gpu!CommonTypes
<1> HIDE DEF t, types, D, events, gpu
<1>6. e = <<e[1], e[2]>> /\ e[1] \in D /\ e[2] = t /\ \A f \in events : f[2] = t
  BY <1>2 DEF events
<1>7. t = "energy" => gpu.vendor = "nvidia"
  BY <1>4, <1>6 DEF Gpu!DeviceTypes, Gpu!Asked
<1> QED BY <1>2, <1>3, <1>5, <1>6, <1>7 DEF events

(* What the sensors of the GPUs show.                                      *)
LEMMA GpuSensorsShow ==
  ASSUME NEW level \in Nat, NEW d \in 0..(Gpu!MaxDevices - 1), NEW t \in Gpu!ReadingTypes
  PROVE  /\ GpuSensors(level)[<<d, t>>] = GpuSensor(level, d, t)
         /\ GpuSensor(level, d, t) \in Nat
         /\ GpuSensor(level, d, t) # 0 <=> level # 0
<1> DEFINE D == (0..(Gpu!MaxDevices - 1)) \X Gpu!ReadingTypes
           f == [x \in D |-> GpuSensor(level, x[1], x[2])]
<1>1. <<d, t>> \in D
  OBVIOUS
<1>2. GpuSensors(level) = f
  BY DEF GpuSensors
<1>3. f[<<d, t>>] = GpuSensor(level, <<d, t>>[1], <<d, t>>[2])
  <2> HIDE DEF D
  <2> QED BY <1>1
<1>4. d \in Nat
  BY DevicesOfMask
<1>5. GpuSensor(level, d, t) = IF level = 0 THEN 0 ELSE 100 * level + 10 * d + (IF t = "power" THEN 1 ELSE 2)
  BY DEF GpuSensor
<1>6. GpuSensor(level, d, t) \in Nat /\ (GpuSensor(level, d, t) # 0 <=> level # 0)
  <2> DEFINE k == IF t = "power" THEN 1 ELSE 2
  <2>1. k \in Nat /\ k # 0
    OBVIOUS
  <2> HIDE DEF k
  <2>2. level # 0 => 100 * level + 10 * d + k \in Nat /\ 100 * level + 10 * d + k # 0
    BY <1>4, <2>1
  <2> QED BY <1>5, <2>2 DEF k
<1> QED BY <1>2, <1>3, <1>6

(* A sample has the reading of each event of the GPUs, if it is of them.   *)
LEMMA GpuSample ==
  ASSUME ReadersInv, readers # Nothing,
         NEW e \in readers.gpu.events, NEW level \in Nat, NEW devices, "gpu" \in ToSet(devices),
         NEW x, x = Read(readers, devices, CpuSensors(level), GpuSensors(level))
  PROVE  LET r == readers.gpu
             energy == Gpu!HasBoardEnergy(r, x.gpu, e[1])
         IN  /\ energy \/ Gpu!HasBoardPower(r, x.gpu, e[1]) <=> level # 0
             /\ level # 0 =>
                   (IF energy THEN Gpu!BoardEnergy(x.gpu, e[1]) ELSE Gpu!BoardPower(x.gpu, e[1])) =
                   IF e[2] = "energy" THEN GpuSensor(level, e[1], e[2]) % 2^EnergyBits
                   ELSE GpuSensor(level, e[1], e[2])
<1> DEFINE r == readers.gpu
           d == e[1]
           t == e[2]
           gpu == GpuSensors(level)
           sample == ReadGpu(readers, gpu)
           shown == GpuSensor(level, d, t)
<1>1. x.gpu = sample
  BY DEF Read
<1>2. /\ e = <<d, t>> /\ d \in 0..(Gpu!MaxDevices - 1) /\ t \in Gpu!ReadingTypes
      /\ \A f \in r.events : f[2] = t
      /\ t = "energy" => r.vendor = "nvidia"
  BY GpuEvent
<1>3. t = "energy" \/ t = "power"
  BY <1>2 DEF Gpu!ReadingTypes
<1>4. sample[e] = shown /\ (shown # 0 <=> level # 0)
  <2>1. sample[e] = gpu[e]
    BY DEF ReadGpu
  <2>2. gpu[<<d, t>>] = shown /\ (shown # 0 <=> level # 0)
    <3> HIDE DEF d, t
    <3> QED BY <1>2, GpuSensorsShow
  <2> HIDE DEF d, t, gpu, sample, shown
  <2> QED BY <1>2, <2>1, <2>2
<1>5. \A k : <<d, k>> \in r.events <=> k = t
  <2> SUFFICES ASSUME NEW k PROVE <<d, k>> \in r.events <=> k = t
    OBVIOUS
  <2>1. <<d, k>>[2] = k
    OBVIOUS
  <2>2. <<d, t>> \in r.events
    BY <1>2
  <2> HIDE DEF d, t, r
  <2> QED BY <1>2, <2>1, <2>2
<1> HIDE DEF d, t, r, sample, shown
<1>6. CASE t = "energy"
  <2>1. Gpu!HasBoardEnergy(r, sample, d) <=> level # 0
    BY <1>2, <1>4, <1>5, <1>6 DEF Gpu!HasBoardEnergy, Gpu!HasReading
  <2>2. ~Gpu!HasBoardPower(r, sample, d)
    BY <1>5, <1>6 DEF Gpu!HasBoardPower, Gpu!HasReading
  <2>3. Gpu!BoardEnergy(sample, d) = shown % 2^EnergyBits
    BY <1>2, <1>4, <1>6 DEF Gpu!BoardEnergy
  <2> QED BY <1>1, <1>6, <2>1, <2>2, <2>3 DEF d, t, r, shown
<1>7. CASE t = "power"
  <2>1. ~Gpu!HasBoardEnergy(r, sample, d)
    BY <1>5, <1>7 DEF Gpu!HasBoardEnergy, Gpu!HasReading
  <2>2. Gpu!HasBoardPower(r, sample, d) <=> level # 0
    BY <1>2, <1>4, <1>5, <1>7 DEF Gpu!HasBoardPower, Gpu!HasReading
  <2>3. Gpu!BoardPower(sample, d) = shown
    BY <1>2, <1>4, <1>7 DEF Gpu!BoardPower
  <2> QED BY <1>1, <1>7, <2>1, <2>2, <2>3 DEF d, t, r, shown
<1> QED BY <1>3, <1>6, <1>7

(* The list of a device has the readings of all samples but those of 0.    *)
LEMMA BoardListComplete ==
  ASSUME scenario \in Scenarios, ReadersInv, readers # Nothing,
         NEW e \in readers.gpu.events, NEW devices, "gpu" \in ToSet(devices)
  PROVE  BoardList(readers, Samples(devices), e[1]) =
             [i \in DOMAIN NotZero |->
                 IF e[2] = "energy" THEN GpuSensor(NotZero[i], e[1], e[2]) % 2^EnergyBits
                 ELSE GpuSensor(NotZero[i], e[1], e[2])]
<1> DEFINE levels == scenario.levels
           samples == Samples(devices)
           energy(x) == Gpu!HasBoardEnergy(readers.gpu, x.gpu, e[1])
           Has(x) == energy(x) \/ Gpu!HasBoardPower(readers.gpu, x.gpu, e[1])
           val(x) == IF energy(x) THEN Gpu!BoardEnergy(x.gpu, e[1]) ELSE Gpu!BoardPower(x.gpu, e[1])
           shown(level) == IF e[2] = "energy" THEN GpuSensor(level, e[1], e[2]) % 2^EnergyBits
                           ELSE GpuSensor(level, e[1], e[2])
           I == {i \in DOMAIN samples : Has(samples[i])}
           J == {i \in DOMAIN levels : levels[i] # 0}
           n == Len(levels)
           with == Having(samples, Has)
<1>1. n \in Nat /\ DOMAIN levels = 1..n /\ \A i \in DOMAIN levels : levels[i] \in Nat
  BY LevelsOf
<1>2. DOMAIN samples = DOMAIN levels
      /\ \A i \in DOMAIN levels :
            samples[i] = Read(readers, devices, CpuSensors(levels[i]), GpuSensors(levels[i]))
  BY DEF Samples
<1>3. ASSUME NEW i \in DOMAIN levels
      PROVE  (Has(samples[i]) <=> levels[i] # 0) /\ (levels[i] # 0 => val(samples[i]) = shown(levels[i]))
  <2> DEFINE x == samples[i]
             level == levels[i]
  <2>1. level \in Nat /\ x = Read(readers, devices, CpuSensors(level), GpuSensors(level))
    BY <1>1, <1>2
  <2> HIDE DEF x, level
  <2>2. /\ Has(x) <=> level # 0
        /\ level # 0 => val(x) = shown(level)
    BY <2>1, GpuSample
  <2> QED BY <2>2 DEF x, level
<1>5. I = J
  <2> HIDE DEF Has, samples, levels
  <2> QED BY <1>2, <1>3
<1>6. with = Picked(samples, J) /\ NotZero = Picked(levels, J)
  <2>1. with = Picked(samples, I)
    BY DEF Having
  <2>2. NotZero = Picked(levels, J)
    BY DEF NotZero, Having
  <2> HIDE DEF with, I, J
  <2> QED BY <1>5, <2>1, <2>2
<1>7. J \in SUBSET (1..n)
  BY <1>1
<1>8. /\ DOMAIN with = 1..Cardinality(J) /\ DOMAIN NotZero = 1..Cardinality(J)
      /\ \A k \in 1..Cardinality(J) : Nth(J, k) \in J /\ with[k] = samples[Nth(J, k)] /\ NotZero[k] = levels[Nth(J, k)]
  <2> HIDE DEF with, J, samples, levels, n
  <2>1. /\ DOMAIN Picked(samples, J) = 1..Cardinality(J)
        /\ \A k \in DOMAIN Picked(samples, J) : Nth(J, k) \in J /\ Picked(samples, J)[k] = samples[Nth(J, k)]
    BY <1>1, <1>7, PickedFacts
  <2>2. /\ DOMAIN Picked(levels, J) = 1..Cardinality(J)
        /\ \A k \in DOMAIN Picked(levels, J) : Nth(J, k) \in J /\ Picked(levels, J)[k] = levels[Nth(J, k)]
    BY <1>1, <1>7, PickedFacts
  <2> QED BY <1>6, <2>1, <2>2
<1>9. \A k \in 1..Cardinality(J) : val(with[k]) = shown(NotZero[k])
  <2>1. \A i \in J : i \in DOMAIN levels /\ levels[i] # 0
    OBVIOUS
  <2> HIDE DEF with, J, samples, levels, val, shown
  <2> QED BY <1>3, <1>8, <2>1
<1>10. BoardList(readers, samples, e[1]) = [i \in DOMAIN with |-> val(with[i])]
  BY DEF BoardList
<1>11. [i \in DOMAIN with |-> val(with[i])] = [i \in DOMAIN NotZero |-> shown(NotZero[i])]
  <2> HIDE DEF with, J, samples, levels, val, shown
  <2> QED BY <1>8, <1>9
<1> HIDE DEF with, J, levels, val
<1> QED BY <1>10, <1>11

(* The output of an execution that is measured by the GPUs has all their   *)
(* readings.                                                               *)
LEMMA GpuOutputComplete ==
  ASSUME scenario \in Scenarios, ReadersInv, readers # Nothing, NotZero # <<>>,
         NEW devices, "gpu" \in ToSet(devices), NEW read, "gpu" \in ToSet(read)
  PROVE  GpuComplete(ReadingsOutput(readers, devices, Samples(read)))
<1> DEFINE samples == Samples(read)
           out == ReadingsOutput(readers, devices, samples)
           row(d) == [device |-> d, board |-> BoardList(readers, samples, d)]
<1>1. out.gpu = {row(d) : d \in {k \in 0..(Gpu!MaxDevices - 1) : BoardList(readers, samples, k) # <<>>}}
  BY DEF ReadingsOutput, GpuOutput
<1>2. ASSUME NEW e \in readers.gpu.events
      PROVE  \E r \in out.gpu : r.device = e[1] /\ r.board =
            [i \in DOMAIN NotZero |->
                IF e[2] = "energy" THEN GpuSensor(NotZero[i], e[1], e[2]) % 2^EnergyBits
                ELSE GpuSensor(NotZero[i], e[1], e[2])]
  <2> DEFINE list == [i \in DOMAIN NotZero |->
                IF e[2] = "energy" THEN GpuSensor(NotZero[i], e[1], e[2]) % 2^EnergyBits
                ELSE GpuSensor(NotZero[i], e[1], e[2])]
  <2>1. BoardList(readers, samples, e[1]) = list
    BY BoardListComplete
  <2>2. list # <<>>
    <3>1. DOMAIN list = DOMAIN NotZero
      OBVIOUS
    <3> HIDE DEF list
    <3> QED BY <3>1, SomeNotZero
  <2>3. e[1] \in 0..(Gpu!MaxDevices - 1)
    BY GpuEvent
  <2> DEFINE r == row(e[1])
  <2>4. r.device = e[1] /\ r.board = list
    <3> HIDE DEF list
    <3> QED BY <2>1, <2>3
  <2>5. r \in out.gpu
    <3> HIDE DEF row, out, list
    <3> QED BY <1>1, <2>1, <2>2, <2>3
  <2> HIDE DEF r, out, list
  <2> QED BY <2>4, <2>5 DEF list
<1> HIDE DEF out
<1> QED BY <1>2 DEF GpuComplete, out

(* The format names the readings, if the mask leaves no device out.        *)
LEMMA FormatOfReadings ==
  ASSUME scenario \in Scenarios, ReadersInv, readers # Nothing, readers.gpu.vendor # "none",
         Gpu!Chosen(scenario.machine.gpu, DeviceMask(args, Params)) = 0..(Len(scenario.machine.gpu.devices) - 1),
         NEW e \in readers.gpu.events
  PROVE  e[2] = GpuFormat(scenario.machine)
<1> DEFINE gpu == scenario.machine.gpu
           mask == DeviceMask(args, Params)
           all == 0..(Gpu!MaxDevices - 1)
           D == Gpu!Chosen(gpu, mask)
           types == Gpu!CommonTypes(gpu, mask)
           t == effective_readings_type(types)
<1>1. /\ gpu.vendor # "none" /\ Gpu!SupportError(gpu, mask) = Fine /\ t \in types
      /\ readers.gpu.events = D \X {t}
  BY GpuReaderOfMachine
<1>2. Len(gpu.devices) \in Nat
  <2> DEFINE s == gpu.devices
  <2>1. s \in Seq(ToSet(s))
    BY ProfilerAssumption DEF IsSequence
  <2> HIDE DEF s
  <2>2. Len(s) \in Nat
    BY <2>1
  <2> QED BY <2>2 DEF s
<1>3. Gpu!Chosen(gpu, all) = D
  <2>1. mask \subseteq all
    BY DevicesOfMask
  <2>2. D = {d \in mask : d < Len(gpu.devices)} /\ Gpu!Chosen(gpu, all) = {d \in all : d < Len(gpu.devices)}
    BY DEF Gpu!Chosen
  <2>3. D = 0..(Len(gpu.devices) - 1)
    OBVIOUS
  <2>4. \A d \in all : d \in Nat
    BY DevicesOfMask
  <2> DEFINE m == Len(gpu.devices)
  <2>5. \A d \in Nat : d < m => d \in 0..(m - 1)
    <3> HIDE DEF m
    <3>1. m \in Nat
      BY <1>2 DEF m
    <3> QED BY <3>1
  <2> HIDE DEF mask, all, D, gpu
  <2> QED BY <2>1, <2>2, <2>3, <2>4, <2>5
<1>4. Gpu!CommonTypes(gpu, all) = types
  BY <1>3 DEF Gpu!CommonTypes
<1>5. Gpu!SupportError(gpu, all) = Fine
  <2> DEFINE others(m) == <<Gpu!Check(m = {}, "invalid_device_mask"),
                      Gpu!lib_handle(gpu),
                      Gpu!get_device_count(gpu),
                      Gpu!Check(\E d \in Gpu!Chosen(gpu, m) : Gpu!DeviceFails(gpu, d), "library"),
                      Gpu!Check(Gpu!CommonTypes(gpu, m) = {}, "readings_not_supported")>>
  <2>1. Gpu!SupportError(gpu, mask) = Gpu!FirstError(others(mask))
        /\ Gpu!SupportError(gpu, all) = Gpu!FirstError(others(all))
    <3> HIDE DEF gpu, mask, all
    <3> QED BY <1>1 DEF Gpu!SupportError
  <2>2. FirstError(others(mask)) = Fine
    <3> HIDE DEF others
    <3> QED BY <1>1, <2>1 DEF Gpu!FirstError, FirstError, Gpu!Fine, Fine
  <2>3. DOMAIN others(mask) \subseteq Nat /\ 1 \in DOMAIN others(mask)
    OBVIOUS
  <2>4. others(mask)[1] = Fine
    <3> HIDE DEF others
    <3> QED BY <2>2, <2>3, FirstErrorFine
  <2>5. mask # {}
    BY <2>4 DEF Gpu!Check, Fine
  <2>6. all # {}
    BY DEF Gpu!MaxDevices
  <2>7. others(all) = others(mask)
    <3> HIDE DEF gpu, mask, all, D, types
    <3> QED BY <1>3, <1>4, <2>5, <2>6 DEF D, types
  <2> HIDE DEF others
  <2> QED BY <1>1, <2>1, <2>7
<1>6. types \subseteq {"energy", "power"}
  BY DEF Gpu!CommonTypes, Gpu!ReadingTypes
<1>7. Gpu!Support(gpu, all) = types
  <2> HIDE DEF gpu, all, types
  <2> QED BY <1>1, <1>4 DEF Gpu!Support
<1>8. GpuFormat(scenario.machine) = t
  <2>1. GpuFormat(scenario.machine) =
            IF "energy" \in types THEN "energy" ELSE IF "power" \in types THEN "power" ELSE "none"
    <3> HIDE DEF gpu, types
    <3> QED BY <1>5, <1>7 DEF GpuFormat, gpu
  <2> HIDE DEF types, gpu
  <2> QED BY <1>1, <1>6, <2>1 DEF effective_readings_type
<1>9. e[2] = t
  <2> HIDE DEF D, t
  <2> QED BY <1>1
<1> QED BY <1>8, <1>9

-----------------------------------------------------------------------------
(* What is read, from the traps to the output.                             *)

(* Each section has targets, of those there are.                           *)
TargetsGood ==
    \A g \in DOMAIN config.groups : \A s \in DOMAIN Sections(g) :
        Sections(g)[s].targets # {} /\ Sections(g)[s].targets \subseteq {"cpu", "gpu"}

(* Devices are those of a section's targets.                               *)
ReadFor(devices, section) == ToSet(devices) = section.targets

(* An entry of the output has the devices of the section it is for.        *)
Entered(label, e) ==
    \A g \in DOMAIN config.groups : \A s \in DOMAIN Sections(g) :
        config.groups[g].label = label /\ Sections(g)[s].label = e.label => ReadFor(e.devices, Sections(g)[s])

(* The start traps and the entries of the output have their devices, and   *)
(* an execution has the samples of those of its trap.                      *)
Devised(t) ==
    /\ \A a \in DOMAIN t.starts : ReadFor(t.starts[a].devices, t.starts[a].section)
    /\ \A g \in DOMAIN t.groups : \A s \in DOMAIN t.groups[g].sections :
          LET e == t.groups[g].sections[s] IN
          /\ Entered(t.groups[g].label, e)
          /\ \A i \in DOMAIN e.executions :
                e.executions[i].samples = Samples(t.starts[e.executions[i].range].devices)

(* So do the idle times and the results not yet collected.                 *)
SamplesInv ==
    /\ \A i \in DOMAIN idle :
          idle[i].device \in {"cpu", "gpu"} /\ idle[i].samples = Samples(<<idle[i].device>>)
    /\ \A i \in DOMAIN results :
          results[i].samples = Samples(table.starts[results[i].start].devices)

(* What is printed is made of the tables, by readers that were made for    *)
(* sections with targets.                                                  *)
OutputInv ==
    /\ config # Nothing => TargetsGood
    /\ stage \notin Started \cup {"readers"} \cup Ended => readers # Nothing
    /\ stage \in Started \cup Followed => idle = <<>>
    /\ Devised(table)
    /\ SamplesInv
    /\ printed # Nothing =>
          /\ readers # Nothing
          /\ printed = ResultsOutput(scenario.machine, readers, idle, table.groups)

(* A section without error has targets.                                    *)
LEMMA SectionAccepted ==
  ASSUME NEW n, NEW c, Cfg!SectionError(n, c) = Fine
  PROVE  LET T == Cfg!SectionValue(n, c).targets IN T # {} /\ T \subseteq {"cpu", "gpu"}
<1> DEFINE errors == <<Cfg!MiscError(n, c), Cfg!BoundsError(n.bounds),
                       Cfg!Check(n.label = Cfg!Empty, "sec_invalid_label"),
                       Cfg!Check(n.extra = Cfg!Empty, "sec_invalid_extra"),
                       IF n.targets = <<>> THEN Fine ELSE Cfg!TargetsError(n.targets)>>
           T == IF n.targets = <<>> THEN {"cpu"} ELSE Cfg!TargetsValue(n.targets)
<1>1. Cfg!FirstError(errors) = Fine
  BY DEF Cfg!SectionError, Cfg!Fine, Fine
<1>2. DOMAIN errors \subseteq Nat /\ 5 \in DOMAIN errors
  OBVIOUS
<1>3. errors[5] = Fine
  <2> HIDE DEF errors
  <2> QED BY <1>1, <1>2, ConfigErrors
<1>4. n.targets = <<>> \/ Cfg!TargetsError(n.targets) = Fine
  BY <1>3
<1>5. T # {} /\ T \subseteq {"cpu", "gpu"}
  BY <1>4 DEF Cfg!TargetsError, Cfg!Check, Cfg!Fine, Fine
<1>6. Cfg!SectionValue(n, c).targets = T
  BY DEF Cfg!SectionValue
<1> QED BY <1>5, <1>6

(* The sections of a group without error have.                             *)
LEMMA GroupTargets ==
  ASSUME NEW n, NEW c, IsSequence(n.sections), Cfg!GroupError(n, c) = Fine
  PROVE  \A i \in DOMAIN n.sections : Cfg!SectionError(n.sections[i], c) = Fine
<1> DEFINE two(i) == <<Cfg!SectionError(n.sections[i], c),
                       Cfg!Check(Cfg!LabelTaken(Cfg!LabelsOf(n.sections), i), "sec_label_already_exists")>>
           sections == [i \in DOMAIN n.sections |-> Cfg!FirstError(two(i))]
           errors == <<Cfg!Check(n.label = Cfg!Empty, "group_invalid_label"),
                       Cfg!Check(n.extra = Cfg!Empty, "group_invalid_extra"),
                       Cfg!FirstError(sections), Cfg!Check(n.sections = <<>>, "group_empty")>>
<1>1. Cfg!FirstError(errors) = Fine
  BY DEF Cfg!GroupError
<1>2. errors[3] = Fine
  <2>1. DOMAIN errors \subseteq Nat /\ 3 \in DOMAIN errors
    OBVIOUS
  <2> HIDE DEF errors
  <2> QED BY <1>1, <2>1, ConfigErrors
<1>3. \A i \in DOMAIN n.sections : sections[i] = Fine
  <2>1. DOMAIN sections = DOMAIN n.sections /\ DOMAIN sections \subseteq Nat /\ Cfg!FirstError(sections) = Fine
    BY <1>2, SequenceFacts
  <2> HIDE DEF sections
  <2> QED BY <2>1, ConfigErrors
<1>4. ASSUME NEW i \in DOMAIN n.sections PROVE two(i)[1] = Fine
  <2>1. Cfg!FirstError(two(i)) = Fine
    BY <1>3
  <2>2. DOMAIN two(i) \subseteq Nat /\ 1 \in DOMAIN two(i)
    OBVIOUS
  <2> HIDE DEF two
  <2> QED BY <2>1, <2>2, ConfigErrors
<1> QED BY <1>4

(* The sections of a configuration without error have targets.             *)
LEMMA TargetsAccepted ==
  ASSUME NEW doc, NEW c, IsSequence(doc.groups), \A g \in ToSet(doc.groups) : IsSequence(g.sections),
         Cfg!ConfigError(doc, c) = Fine, config' = Cfg!ConfigValue(doc, c)
  PROVE  TargetsGood'
<1> DEFINE two(i) == <<Cfg!GroupError(doc.groups[i], c),
                       Cfg!Check(Cfg!LabelTaken(Cfg!LabelsOf(doc.groups), i), "group_label_already_exists")>>
           groups == [i \in DOMAIN doc.groups |-> Cfg!FirstError(two(i))]
           errors == <<Cfg!ParseError(doc.status), Cfg!Check(~doc.hasConfig, "config_no_config"),
                       Cfg!ParamsError(doc.params), Cfg!FirstError(groups)>>
<1>1. Cfg!FirstError(errors) = Fine
  BY DEF Cfg!ConfigError
<1>2. errors[4] = Fine
  <2>1. DOMAIN errors \subseteq Nat /\ 4 \in DOMAIN errors
    OBVIOUS
  <2> HIDE DEF errors
  <2> QED BY <1>1, <2>1, ConfigErrors
<1>3. \A i \in DOMAIN doc.groups : groups[i] = Fine
  <2>1. DOMAIN groups = DOMAIN doc.groups /\ DOMAIN groups \subseteq Nat /\ Cfg!FirstError(groups) = Fine
    BY <1>2, SequenceFacts
  <2> HIDE DEF groups
  <2> QED BY <2>1, ConfigErrors
<1>4. ASSUME NEW i \in DOMAIN doc.groups PROVE Cfg!GroupError(doc.groups[i], c) = Fine
  <2>1. Cfg!FirstError(two(i)) = Fine
    BY <1>3
  <2>2. DOMAIN two(i) \subseteq Nat /\ 1 \in DOMAIN two(i)
    OBVIOUS
  <2>3. two(i)[1] = Fine
    <3> HIDE DEF two
    <3> QED BY <2>1, <2>2, ConfigErrors
  <2> QED BY <2>3
<1>5. config'.groups = [i \in DOMAIN doc.groups |-> Cfg!GroupValue(doc.groups[i], c)]
  BY DEF Cfg!ConfigValue
<1>6. ASSUME NEW g \in DOMAIN config'.groups, NEW s \in DOMAIN Sections(g)'
      PROVE  Sections(g)'[s].targets # {} /\ Sections(g)'[s].targets \subseteq {"cpu", "gpu"}
  <2> DEFINE n == doc.groups[g]
  <2>1. g \in DOMAIN doc.groups /\ config'.groups[g] = Cfg!GroupValue(n, c)
    BY <1>5
  <2>2. Sections(g)' = [i \in DOMAIN n.sections |-> Cfg!SectionValue(n.sections[i], c)]
    BY <2>1 DEF Cfg!GroupValue, Sections
  <2>3. s \in DOMAIN n.sections /\ Sections(g)'[s] = Cfg!SectionValue(n.sections[s], c)
    BY <2>2
  <2>4. IsSequence(n.sections) /\ Cfg!GroupError(n, c) = Fine
    BY <1>4, <2>1, SequenceFacts
  <2>5. Cfg!SectionError(n.sections[s], c) = Fine
    <3> HIDE DEF n
    <3> QED BY <2>3, <2>4, GroupTargets
  <2>6. LET T == Cfg!SectionValue(n.sections[s], c).targets IN T # {} /\ T \subseteq {"cpu", "gpu"}
    BY <2>5, SectionAccepted
  <2> QED BY <2>3, <2>6
<1> QED BY <1>6 DEF TargetsGood

(* The reader of a section reads its targets.                              *)
LEMMA FindsTargets ==
  ASSUME ReadersInv, readers # Nothing, NEW g \in DOMAIN config.groups, NEW s \in DOMAIN Sections(g),
         Sections(g)[s].targets # {}, Sections(g)[s].targets \subseteq {"cpu", "gpu"},
         IsSequence(config.groups), IsSequence(Sections(g))
  PROVE  ReadFor(find(readers, Sections(g)[s].targets), Sections(g)[s])
<1> DEFINE section == Sections(g)[s]
           T == section.targets
           all == UNION {ToSet(x.sections) : x \in ToSet(config.groups)}
           H == {x \in all : {"cpu", "gpu"} \subseteq x.targets}
<1>1. CASE T = {"cpu"} \/ T = {"gpu"}
  <2>1. ToSet(<<"cpu">>) = {"cpu"} /\ ToSet(<<"gpu">>) = {"gpu"}
    BY DEF ToSet
  <2> HIDE DEF T
  <2>2. ToSet(find(readers, T)) = T
    BY <1>1, <2>1 DEF find
  <2> QED BY <2>2 DEF ReadFor, T
<1>2. CASE T # {"cpu"} /\ T # {"gpu"}
  <2>1. T = {"cpu", "gpu"}
    <3> HIDE DEF T
    <3>1. T # {} /\ T \subseteq {"cpu", "gpu"}
      BY DEF T
    <3> QED BY <1>2, <3>1
  <2>2. section \in H
    <3>1. config.groups[g] \in ToSet(config.groups) /\ section \in ToSet(config.groups[g].sections)
      BY SequenceFacts DEF Sections
    <3>2. section \in all
      BY <3>1
    <3>3. {"cpu", "gpu"} \subseteq section.targets
      BY <2>1
    <3> HIDE DEF all, section
    <3> QED BY <3>2, <3>3
  <2>3. readers.hybrids = {[targets |-> x.targets, readers |-> TargetSeq(x.targets)] : x \in H}
    <3>1. readers.hybrids = hybrids(config)
      BY DEF ReadersInv, ReadersOf
    <3> QED BY <3>1 DEF hybrids
  <2> DEFINE h == CHOOSE x \in readers.hybrids : x.targets = T
  <2> HIDE DEF H, section
  <2>4. h \in readers.hybrids /\ h.targets = T
    <3> DEFINE w == [targets |-> section.targets, readers |-> TargetSeq(section.targets)]
    <3>1. w \in readers.hybrids
      BY <2>2, <2>3
    <3>2. w.targets = T
      OBVIOUS
    <3> HIDE DEF w, T
    <3> QED BY <3>1, <3>2
  <2>5. h.readers = TargetSeq(T)
    <3> HIDE DEF h, T
    <3> QED BY <2>3, <2>4
  <2>6. find(readers, T) = h.readers
    <3> HIDE DEF T
    <3> QED BY <1>2 DEF find
  <2>7. ToSet(find(readers, T)) = T
    <3> HIDE DEF T, h
    <3> QED BY <2>1, <2>5, <2>6, DevicesOf
  <2> QED BY <2>7 DEF ReadFor, section
<1> QED BY <1>1, <1>2

(* A table and one after it: what is new in that one is of a trap.         *)
Grows(t, r, trap) ==
    /\ Kept(t, r)
    /\ \A a \in DOMAIN r.starts :
          \/ a \in DOMAIN t.starts
          \/ r.starts[a].section = trap.section /\ r.starts[a].devices = trap.devices
    /\ \A g \in DOMAIN r.groups : \A s \in DOMAIN r.groups[g].sections :
          \/ /\ g \in DOMAIN t.groups /\ s \in DOMAIN t.groups[g].sections
             /\ r.groups[g].label = t.groups[g].label
             /\ r.groups[g].sections[s] = t.groups[g].sections[s]
          \/ /\ r.groups[g].label = trap.group.label
             /\ r.groups[g].sections[s] = SectionEntry(trap.section, trap.devices)

(* Nothing is new in a table with the same start traps and output.         *)
LEMMA GrowsSame ==
  ASSUME NEW t, NEW r, r.starts = t.starts, r.groups = t.groups, NEW trap
  PROVE  Grows(t, r, trap)
BY DEF Grows, Kept

(* One table after the other.                                              *)
LEMMA GrowsThen ==
  ASSUME NEW t, NEW u, NEW r, NEW trap, Grows(t, u, trap), Grows(u, r, trap)
  PROVE  Grows(t, r, trap)
<1>1. Kept(t, r)
  BY DEF Grows, Kept
<1>2. ASSUME NEW a \in DOMAIN r.starts, a \notin DOMAIN t.starts
      PROVE  r.starts[a].section = trap.section /\ r.starts[a].devices = trap.devices
  <2>1. CASE a \in DOMAIN u.starts
    <3>1. r.starts[a] = u.starts[a]
      BY <2>1 DEF Grows, Kept
    <3> QED BY <1>2, <2>1, <3>1 DEF Grows
  <2>2. CASE a \notin DOMAIN u.starts
    BY <2>2 DEF Grows
  <2> QED BY <2>1, <2>2
<1>3. ASSUME NEW g \in DOMAIN r.groups, NEW s \in DOMAIN r.groups[g].sections
      PROVE  \/ /\ g \in DOMAIN t.groups /\ s \in DOMAIN t.groups[g].sections
                /\ r.groups[g].label = t.groups[g].label
                /\ r.groups[g].sections[s] = t.groups[g].sections[s]
             \/ /\ r.groups[g].label = trap.group.label
                /\ r.groups[g].sections[s] = SectionEntry(trap.section, trap.devices)
  <2>1. CASE /\ g \in DOMAIN u.groups /\ s \in DOMAIN u.groups[g].sections
             /\ r.groups[g].label = u.groups[g].label
             /\ r.groups[g].sections[s] = u.groups[g].sections[s]
    <3>1. \/ /\ g \in DOMAIN t.groups /\ s \in DOMAIN t.groups[g].sections
             /\ u.groups[g].label = t.groups[g].label
             /\ u.groups[g].sections[s] = t.groups[g].sections[s]
          \/ /\ u.groups[g].label = trap.group.label
             /\ u.groups[g].sections[s] = SectionEntry(trap.section, trap.devices)
      BY <2>1 DEF Grows
    <3> QED BY <2>1, <3>1
  <2> QED BY <2>1 DEF Grows
<1> QED BY <1>1, <1>2, <1>3 DEF Grows

(* With a start trap.                                                      *)
LEMMA GrowsStart ==
  ASSUME NEW t, NEW r, NEW a, NEW trap, StartAdded(t, r, a, trap)
  PROVE  Grows(t, r, trap)
<1>1. CASE r.error # Fine
  BY <1>1, GrowsSame DEF StartAdded
<1>2. CASE r.error = Fine
  <2>1. r.starts = With(t.starts, a, trap) /\ a \notin DOMAIN t.starts /\ r.groups = t.groups
    BY <1>2 DEF StartAdded
  <2>2. /\ DOMAIN r.starts = DOMAIN t.starts \cup {a} /\ r.starts[a] = trap
        /\ \A x \in DOMAIN t.starts : r.starts[x] = t.starts[x]
    BY <2>1 DEF With
  <2> QED BY <2>1, <2>2 DEF Grows, Kept
<1> QED BY <1>1, <1>2

(* With an output entry.                                                   *)
LEMMA GrowsOutput ==
  ASSUME NEW t, IsTable(t), NEW o, NEW offset, NEW trap
  PROVE  Grows(t, InsertOutput(t, o, offset, trap.group, trap.section, trap.devices), trap)
<1> DEFINE a == o.base + offset
           r == InsertOutput(t, o, offset, trap.group, trap.section, trap.devices)
           grown == GrownOutput(t.groups, trap.group, trap.section, trap.devices)
           p == PlaceIn(t.groups, trap.group, trap.section)
           w == IF a \in DOMAIN t.places THEN t.places ELSE With(t.places, a, p)
           e == Check(a \in DOMAIN t.places, "trap_exists")
<1>1. CASE t.error # Fine
  <2>1. r = t
    BY <1>1 DEF InsertOutput
  <2> SUFFICES Grows(t, r, trap)
    OBVIOUS
  <2> HIDE DEF r
  <2> QED BY <2>1, GrowsSame
<1>2. CASE t.error = Fine
  <2>1. r = [t EXCEPT !.groups = grown, !.places = w, !.error = e]
    BY <1>2 DEF InsertOutput, GrownOutput, PlaceIn, GroupEntry, SectionEntry
  <2>2. IsOutput(t.groups)
    BY DEF IsTable
  <2>3. /\ \A h \in DOMAIN t.groups : /\ h \in DOMAIN grown /\ grown[h].label = t.groups[h].label
                                      /\ \A s \in DOMAIN t.groups[h].sections :
                                            /\ s \in DOMAIN grown[h].sections
                                            /\ grown[h].sections[s] = t.groups[h].sections[s]
        /\ \A h \in DOMAIN grown : \A s \in DOMAIN grown[h].sections :
              \/ h \in DOMAIN t.groups /\ s \in DOMAIN t.groups[h].sections
              \/ grown[h].label = trap.group.label
                 /\ grown[h].sections[s] = SectionEntry(trap.section, trap.devices)
    BY <2>2, GrownSections
  <2> HIDE DEF a, r, grown, p, w, e
  <2>4. r.starts = t.starts /\ r.groups = grown
    <3>1. r = [error |-> e, armed |-> t.armed, starts |-> t.starts, ends |-> t.ends, groups |-> grown,
               places |-> w]
      BY <2>1 DEF IsTable
    <3> QED BY <3>1
  <2>5. Kept(t, r)
    BY <2>4 DEF Kept
  <2>6. ASSUME NEW h \in DOMAIN r.groups, NEW s \in DOMAIN r.groups[h].sections
        PROVE  \/ /\ h \in DOMAIN t.groups /\ s \in DOMAIN t.groups[h].sections
                  /\ r.groups[h].label = t.groups[h].label
                  /\ r.groups[h].sections[s] = t.groups[h].sections[s]
               \/ /\ r.groups[h].label = trap.group.label
                  /\ r.groups[h].sections[s] = SectionEntry(trap.section, trap.devices)
    BY <2>3, <2>4
  <2>7. Grows(t, r, trap)
    BY <2>4, <2>5, <2>6 DEF Grows
  <2> QED BY <2>7 DEF r
<1> QED BY <1>1, <1>2

(* The traps of a range, and what there is of them after an error.         *)
LEMMA RangeGrows ==
  ASSUME NEW t, IsTable(t), NEW o, NEW start, NEW end, NEW trap
  PROVE  /\ IsTable(InsertStart(t, o, start, trap))
         /\ Grows(t, InsertStart(t, o, start, trap), trap)
         /\ Grows(t, InsertOutput(InsertStart(t, o, start, trap), o, start,
                                  trap.group, trap.section, trap.devices), trap)
         /\ Grows(t, InsertOutput(InsertEnd(InsertStart(t, o, start, trap), o, end, start), o, start,
                                  trap.group, trap.section, trap.devices), trap)
<1> DEFINE t1 == InsertStart(t, o, start, trap)
           t2 == InsertEnd(t1, o, end, start)
           Out(u) == InsertOutput(u, o, start, trap.group, trap.section, trap.devices)
<1>1. StartAdded(t, t1, o.base + start, trap)
  BY StartStep
<1> HIDE DEF t1
<1>2. IsTable(t1) /\ Grows(t, t1, trap)
  BY <1>1, GrowsStart DEF StartAdded
<1>3. EndAdded(t1, t2, o.base + end, o.base + start)
  BY <1>2, EndStep
<1> HIDE DEF t2
<1>4. IsTable(t2) /\ Grows(t1, t2, trap)
  BY <1>3, GrowsSame DEF EndAdded
<1>5. Grows(t, t2, trap)
  BY <1>2, <1>4, GrowsThen
<1>6. Grows(t1, Out(t1), trap)
  BY <1>2, GrowsOutput
<1>7. Grows(t2, Out(t2), trap)
  BY <1>4, GrowsOutput
<1>8. Grows(t, Out(t1), trap)
  <2> HIDE DEF Out
  <2> QED BY <1>2, <1>6, GrowsThen
<1>9. Grows(t, Out(t2), trap)
  <2> HIDE DEF Out
  <2> QED BY <1>5, <1>7, GrowsThen
<1> QED BY <1>2, <1>8, <1>9 DEF t1, t2

(* The traps of a section given by bounds.                                 *)
LEMMA BoundsGrow ==
  ASSUME NEW t, IsTable(t), NEW o, NEW trap
  PROVE  Grows(t, InsertBounds(t, o, trap), trap)
<1> DEFINE bounds == trap.section.bounds
           start == FoundLine(o, bounds.start)
           end == FoundLine(o, bounds.end)
           started == InsertStart(t, o, start.value[4], trap)
           ended == InsertOutput(InsertEnd(started, o, end.value[4], start.value[4]),
                                 o, start.value[4], trap.group, trap.section, trap.devices)
<1>1. CASE bounds.kind = "positions"
  <2>1. IsTable(started) /\ Grows(t, started, trap) /\ Grows(t, ended, trap)
    BY RangeGrows
  <2>2. InsertBounds(t, o, trap) =
            IF start.error # Fine THEN Fails(t, start.error)
            ELSE IF started.error # Fine THEN started
            ELSE IF end.error # Fine THEN Fails(started, end.error)
            ELSE ended
    BY <1>1 DEF InsertBounds, InsertPositions
  <2> HIDE DEF started, ended, start, end
  <2>3. \A e : Grows(t, Fails(t, e), trap)
    <3> TAKE e
    <3>1. Fails(t, e).starts = t.starts /\ Fails(t, e).groups = t.groups
      BY DEF Fails, IsTable
    <3> QED BY <3>1, GrowsSame
  <2>4. \A e : Grows(t, Fails(started, e), trap)
    <3> TAKE e
    <3>1. Fails(started, e).starts = started.starts /\ Fails(started, e).groups = started.groups
      BY <2>1 DEF Fails, IsTable
    <3>2. Grows(started, Fails(started, e), trap)
      BY <3>1, GrowsSame
    <3> QED BY <2>1, <3>2, GrowsThen
  <2> QED BY <2>1, <2>2, <2>3, <2>4
<1>2. CASE bounds.kind # "positions"
  <2>1. InsertBounds(t, o, trap) = InsertRange(t, o, trap, bounds.start, bounds.end)
    BY <1>2 DEF InsertBounds
  <2> QED BY <2>1, RangeGrows DEF InsertRange
<1> QED BY <1>1, <1>2

(* Those of a function's calls.                                            *)
LEMMA CallsGrow ==
  ASSUME NEW t, IsTable(t), NEW o, NEW trap, NEW symbol,
         trap = [group |-> trap.group, section |-> trap.section, devices |-> trap.devices, symbol |-> trap.symbol]
  PROVE  Grows(t, InsertCalls(t, o, trap, symbol), trap)
<1> DEFINE named == [trap EXCEPT !.symbol = symbol]
<1>1. named.group = trap.group /\ named.section = trap.section /\ named.devices = trap.devices
  OBVIOUS
<1>2. InsertCalls(t, o, trap, symbol) = IF symbol = None THEN t ELSE InsertCall(t, o, named, symbol.entrypoint)
  BY DEF InsertCalls
<1> HIDE DEF named
<1>3. Grows(t, InsertCall(t, o, named, symbol.entrypoint), named)
  BY RangeGrows DEF InsertCall
<1>4. Grows(t, InsertCall(t, o, named, symbol.entrypoint), trap)
  BY <1>1, <1>3 DEF Grows
<1>5. Grows(t, t, trap)
  BY GrowsSame
<1> QED BY <1>2, <1>4, <1>5

(* And of its inlined instances.                                           *)
LEMMA InstanceGrows ==
  ASSUME NEW t, IsTable(t), NEW o, NEW trap, NEW instance
  PROVE  Grows(t, InsertInstance(t, o, trap, instance), trap)
<1>1. Grows(t, t, trap)
  BY GrowsSame
<1>2. \A start, end : Grows(t, InsertRange(t, o, trap, start, end), trap)
  BY RangeGrows DEF InsertRange
<1> QED BY <1>1, <1>2 DEF InsertInstance

(* What is new has the devices of its section, if the trap has them.       *)
LEMMA GrowsDevised ==
  ASSUME NEW t, Devised(t), Placed(t), NEW r, NEW trap, Grows(t, r, trap),
         ReadFor(trap.devices, trap.section), OfConfig(trap), ConfigGood
  PROVE  Devised(r)
<1>1. ASSUME NEW a \in DOMAIN r.starts
      PROVE  ReadFor(r.starts[a].devices, r.starts[a].section)
  <2>1. CASE a \in DOMAIN t.starts
    <3>1. r.starts[a] = t.starts[a]
      BY <2>1 DEF Grows, Kept
    <3> QED BY <2>1, <3>1 DEF Devised
  <2>2. CASE a \notin DOMAIN t.starts
    BY <2>2 DEF Grows
  <2> QED BY <2>1, <2>2
<1>2. Entered(trap.group.label, SectionEntry(trap.section, trap.devices))
  <2>1. PICK h \in DOMAIN config.groups : \E k \in DOMAIN Sections(h) :
           trap.group = config.groups[h] /\ trap.section = Sections(h)[k]
    BY DEF OfConfig
  <2>2. PICK k \in DOMAIN Sections(h) : trap.group = config.groups[h] /\ trap.section = Sections(h)[k]
    BY <2>1
  <2> SUFFICES ASSUME NEW g \in DOMAIN config.groups, NEW s \in DOMAIN Sections(g),
                      config.groups[g].label = trap.group.label,
                      Sections(g)[s].label = SectionEntry(trap.section, trap.devices).label
               PROVE  ReadFor(SectionEntry(trap.section, trap.devices).devices, Sections(g)[s])
    BY DEF Entered
  <2>3. SectionEntry(trap.section, trap.devices).label = trap.section.label
        /\ SectionEntry(trap.section, trap.devices).devices = trap.devices
    BY DEF SectionEntry
  <2>4. g = h
    BY <2>2 DEF ConfigGood
  <2>5. s = k
    BY <2>2, <2>3, <2>4 DEF ConfigGood
  <2> QED BY <2>2, <2>3, <2>4, <2>5
<1>3. ASSUME NEW g \in DOMAIN r.groups, NEW s \in DOMAIN r.groups[g].sections
      PROVE  LET e == r.groups[g].sections[s] IN
             /\ Entered(r.groups[g].label, e)
             /\ \A i \in DOMAIN e.executions :
                   e.executions[i].samples = Samples(r.starts[e.executions[i].range].devices)
  <2>1. CASE /\ g \in DOMAIN t.groups /\ s \in DOMAIN t.groups[g].sections
             /\ r.groups[g].label = t.groups[g].label
             /\ r.groups[g].sections[s] = t.groups[g].sections[s]
    <3> DEFINE e == t.groups[g].sections[s]
    <3>1. /\ Entered(t.groups[g].label, e)
          /\ \A i \in DOMAIN e.executions :
                e.executions[i].samples = Samples(t.starts[e.executions[i].range].devices)
      BY <2>1 DEF Devised
    <3>2. \A i \in DOMAIN e.executions : e.executions[i].range \in DOMAIN t.starts
      BY <2>1 DEF Placed
    <3>3. \A i \in DOMAIN e.executions : r.starts[e.executions[i].range] = t.starts[e.executions[i].range]
      BY <3>2 DEF Grows, Kept
    <3> HIDE DEF e
    <3>4. \A i \in DOMAIN e.executions : e.executions[i].samples = Samples(r.starts[e.executions[i].range].devices)
      BY <3>1, <3>3
    <3> QED BY <2>1, <3>1, <3>4 DEF e
  <2>2. CASE /\ r.groups[g].label = trap.group.label
             /\ r.groups[g].sections[s] = SectionEntry(trap.section, trap.devices)
    <3>1. DOMAIN r.groups[g].sections[s].executions = {}
      BY <2>2 DEF SectionEntry
    <3> QED BY <1>2, <2>2, <3>1
  <2> QED BY <2>1, <2>2 DEF Grows
<1> QED BY <1>1, <1>3 DEF Devised

(* A result brings the samples of the devices of its trap.                 *)
LEMMA CollectDevised ==
  ASSUME NEW t, IsTable(t), Placed(t), Devised(t), NEW r, r.start \in DOMAIN t.places,
         r.samples = Samples(t.starts[r.start].devices)
  PROVE  Devised(WithRun(t, r))
<1> DEFINE u == WithRun(t, r)
           run == [range |-> r.start, samples |-> r.samples]
<1>1. /\ u.starts = t.starts
      /\ \A g \in DOMAIN u.groups : u.groups[g].label = t.groups[g].label
      /\ \A g \in DOMAIN u.groups : \A s \in DOMAIN u.groups[g].sections :
            RunAdded(t, r, g, s, u.groups[g].sections[s])
  BY WithRunStep
<1> HIDE DEF u
<1>2. \A a \in DOMAIN u.starts : ReadFor(u.starts[a].devices, u.starts[a].section)
  BY <1>1 DEF Devised
<1>3. ASSUME NEW g \in DOMAIN u.groups, NEW s \in DOMAIN u.groups[g].sections
      PROVE  LET e == u.groups[g].sections[s] IN
             /\ Entered(u.groups[g].label, e)
             /\ \A i \in DOMAIN e.executions :
                   e.executions[i].samples = Samples(u.starts[e.executions[i].range].devices)
  <2> DEFINE e == u.groups[g].sections[s]
             old == t.groups[g].sections[s]
  <2>1. /\ g \in DOMAIN t.groups /\ s \in DOMAIN t.groups[g].sections
        /\ e.label = old.label /\ e.devices = old.devices
        /\ \A i \in DOMAIN e.executions :
              \/ e.executions[i] = run
              \/ i \in DOMAIN old.executions /\ e.executions[i] = old.executions[i]
    BY <1>1 DEF RunAdded
  <2>2. /\ Entered(t.groups[g].label, old)
        /\ \A i \in DOMAIN old.executions :
              old.executions[i].samples = Samples(t.starts[old.executions[i].range].devices)
    BY <2>1 DEF Devised
  <2>3. run.range = r.start /\ run.samples = r.samples
    OBVIOUS
  <2> HIDE DEF e, old, run
  <2>4. Entered(u.groups[g].label, e)
    BY <1>1, <2>1, <2>2 DEF Entered
  <2>5. \A i \in DOMAIN e.executions : e.executions[i].samples = Samples(u.starts[e.executions[i].range].devices)
    BY <1>1, <2>1, <2>2, <2>3
  <2> QED BY <2>4, <2>5 DEF e
<1>4. Devised(u)
  BY <1>2, <1>3 DEF Devised
<1> QED BY <1>4 DEF u

(* What was read does not change with the readers of a run.                *)
LEMMA SamplesSame ==
  ASSUME UNCHANGED <<scenario, readers, config>>
  PROVE  /\ \A d : Samples(d)' = Samples(d)
         /\ Devised(table)' <=> Devised(table')
<1>1. \A d : Samples(d)' = Samples(d)
  BY DEF Samples
<1>2. Devised(table)' <=> Devised(table')
  BY <1>1 DEF Devised, Entered, Sections
<1> QED BY <1>1, <1>2

(* An empty table has no trap and no output.                               *)
LEMMA NothingDevised ==
  ASSUME NEW t, t = EmptyTable
  PROVE  DOMAIN t.starts = {} /\ DOMAIN t.groups = {}
BY DEF EmptyTable, NoTraps

(* Readers that are made are something.                                    *)
LEMMA SomeReaders == \A machine, a, c : ReadersOf(machine, a, c) # Nothing
<1> TAKE machine, a, c
<1> DEFINE r == ReadersOf(machine, a, c)
<1>1. "arch" \in DOMAIN r
  BY DEF ReadersOf
<1>2. "arch" \notin DOMAIN Nothing
  BY DEF Nothing
<1> QED BY <1>1, <1>2

(* The configuration that is loaded has targets.                           *)
LEMMA TargetsStep ==
  ASSUME scenario \in Scenarios, config # Nothing => TargetsGood, [Next]_vars
  PROVE  config' # Nothing => TargetsGood'
<1>1. CASE config' = config
  BY <1>1 DEF TargetsGood, Sections
<1>2. CASE config' # config
  <2>1. Main
    BY <1>2, OtherSteps DEF loaded
  <2>2. stage = "config"
    BY <1>2, <2>1, MainFlow
  <2>3. LoadConfig
    BY <2>1, <2>2 DEF Main, ParseArguments, LoadObjects, Fork, CreateReaders, AwaitFirst, FirstWait, AwaitOptions,
       AwaitResume, AwaitCall, AwaitOther, AwaitContinue, RunWait, ObtainIdle, Registers, SetOptions, InsertSection,
       InsertFunction, InsertInlined, FunctionInserted, TraceEnds, TraceFails, Collect, WriteResults, Leave,
       Request, Goto
  <2>4. Cfg!ConfigError(scenario.doc, clamped) = Fine /\ config' = Cfg!ConfigValue(scenario.doc, clamped)
    BY <1>2, <2>3 DEF LoadConfig, Fail, loaded
  <2>5. IsSequence(scenario.doc.groups) /\ \A g \in ToSet(scenario.doc.groups) : IsSequence(g.sections)
    BY ScenarioFacts
  <2>6. TargetsGood'
    BY <2>4, <2>5, TargetsAccepted
  <2> QED BY <2>6
<1> QED BY <1>1, <1>2

(* From the readers' creation on there are readers.                        *)
LEMMA MadeReadersStep ==
  ASSUME TypeOK, stage \notin Started \cup {"readers"} \cup Ended => readers # Nothing, [Next]_vars
  PROVE  stage' \notin Started \cup {"readers"} \cup Ended => readers' # Nothing
<1> USE DEF Started, Ended, Flow
<1>1. CASE CreateReaders
  <2>1. stage' = "leave" \/ readers' = ReadersOf(scenario.machine, args, config)
    BY <1>1 DEF CreateReaders, Fail
  <2> QED BY <2>1, SomeReaders
<1>2. CASE Main /\ ~CreateReaders
  <2>1. stage # "readers"
    BY <1>2 DEF Main, ParseArguments, LoadObjects, LoadConfig, Fork, AwaitFirst, FirstWait, AwaitOptions,
       AwaitResume, AwaitCall, AwaitOther, AwaitContinue, RunWait, ObtainIdle, Registers, SetOptions, InsertSection,
       InsertFunction, InsertInlined, FunctionInserted, TraceEnds, TraceFails, Collect, WriteResults, Leave,
       Request, Goto
  <2>2. readers' = readers /\ (stage' = "leave" \/ <<stage, stage'>> \in Flow)
    BY <1>2, <2>1, MainFlow
  <2> QED BY <2>1, <2>2
<1>3. CASE ~Main
  BY <1>3, OtherSteps DEF loaded
<1> QED BY <1>1, <1>2, <1>3

(* The traps that are inserted, and what is collected, have the devices of *)
(* their sections.                                                         *)
LEMMA DevisedStep ==
  ASSUME SInv, OutputInv, [Next]_vars
  PROVE  Devised(table)'
<1> USE DEF Started, Followed, Ready, Inserting, Ended, Flow
<1>0. TypeOK /\ ConfigInv /\ TodoInv /\ TableInv /\ ResultsInv /\ ReadersInv /\ Devised(table) /\ SamplesInv
      /\ IsTable(table) /\ Placed(table)
  BY DEF SInv, IInv, OutputInv, TableInv, GoodTable
<1>1. CASE stage \in Started \cup Followed
  <2>1. table' = EmptyTable
    <3>1. table = EmptyTable
      BY <1>0, <1>1 DEF ConfigInv
    <3>2. CASE Main
      BY <1>1, <3>1, <3>2, MainFlow
    <3>3. CASE ~Main
      BY <3>1, <3>3, OtherSteps DEF made
    <3> QED BY <3>2, <3>3
  <2>2. DOMAIN table'.starts = {} /\ DOMAIN table'.groups = {}
    BY <2>1, NothingDevised
  <2> QED BY <2>2 DEF Devised
<1>2. CASE Main /\ stage \in Inserting
  <2>1. UNCHANGED <<scenario, readers, config>>
    BY <1>2, MainFlow DEF static
  <2>2. CASE TraceEnds \/ TraceFails
    <3>1. table' = table
      BY <2>2 DEF TraceEnds, TraceFails, Fail
    <3> QED BY <1>0, <2>1, <3>1, SamplesSame
  <2>3. CASE InsertSection \/ InsertFunction \/ InsertInlined \/ FunctionInserted
    <3>1. ~AllInserted
      BY <1>0, <2>3 DEF InsertSection, InsertFunction, InsertInlined, FunctionInserted, TodoInv
    <3>2. /\ OfConfig(Trap) /\ Trap.section = Sections(todo.group)[todo.section]
          /\ Trap = [group |-> Trap.group, section |-> Trap.section, devices |-> Trap.devices,
                     symbol |-> Trap.symbol]
      BY <1>0, <1>2, <3>1, TrapOfConfig
    <3>3. Grows(table, table', Trap)
      <4>1. Grows(table, table, Trap)
        BY GrowsSame
      <4>2. \/ table' = table
            \/ table' = InsertBounds(table, Target, Trap)
            \/ \E symbol : table' = InsertCalls(table, Target, Trap, symbol)
            \/ \E instance : table' = InsertInstance(table, Target, Trap, instance)
        BY <2>3 DEF InsertSection, InsertFunction, InsertInlined, FunctionInserted, Inserted, Fail
      <4>3. Grows(table, InsertBounds(table, Target, Trap), Trap)
        BY <1>0, BoundsGrow
      <4>4. \A symbol : Grows(table, InsertCalls(table, Target, Trap, symbol), Trap)
        BY <1>0, <3>2, CallsGrow
      <4>5. \A instance : Grows(table, InsertInstance(table, Target, Trap, instance), Trap)
        BY <1>0, InstanceGrows
      <4> QED BY <4>1, <4>2, <4>3, <4>4, <4>5
    <3>4. ConfigGood /\ TargetsGood /\ readers # Nothing
      BY <1>0, <1>2 DEF ConfigInv, OutputInv, TypeOK
    <3>5. ReadFor(Trap.devices, Trap.section)
      <4>1. todo.group \in DOMAIN config.groups /\ todo.section \in DOMAIN Sections(todo.group)
        BY <1>0, <1>2, <3>1 DEF TodoInv
      <4>2. ReadFor(find(readers, Sections(todo.group)[todo.section].targets), Sections(todo.group)[todo.section])
        BY <1>0, <3>4, <4>1, FindsTargets DEF TargetsGood, ConfigGood
      <4>3. Trap.devices = find(readers, Sections(todo.group)[todo.section].targets)
        BY DEF Trap, TrapOf
      <4> QED BY <3>2, <4>2, <4>3
    <3>6. Devised(table')
      BY <1>0, <3>2, <3>3, <3>4, <3>5, GrowsDevised
    <3> QED BY <2>1, <3>6, SamplesSame
  <2> QED BY <1>0, <1>2, <2>2, <2>3, InsertionSteps
<1>3. CASE Collect
  <2>1. UNCHANGED <<scenario, readers, config>>
    BY <1>3 DEF Collect, static, loaded
  <2>2. \/ table' = table
        \/ table' = WithRun(table, Head(results)) /\ Head(results).start \in DOMAIN table.places
    BY <1>0, <1>3, CollectStep
  <2>3. \A r \in ToSet(results) : r.samples = Samples(table.starts[r.start].devices)
    BY <1>0 DEF SamplesInv, ToSet
  <2>4. Head(results) \in ToSet(results)
    BY <1>0, <1>3, SequenceTail DEF Collect, ResultsInv
  <2>5. Devised(table')
    BY <1>0, <2>2, <2>3, <2>4, CollectDevised
  <2> QED BY <2>1, <2>5, SamplesSame
<1>4. CASE Main /\ ~Collect /\ stage \notin Started \cup Followed \cup Inserting
  <2>1. UNCHANGED <<scenario, readers, config>>
    BY <1>4, MainFlow DEF static
  <2>2. table' = table
    <3>1. CASE stage = "collect"
      <4>1. WriteResults
        BY <1>4, <3>1 DEF Main, ParseArguments, LoadObjects, LoadConfig, Fork, CreateReaders, AwaitFirst, FirstWait,
           AwaitOptions, AwaitResume, AwaitCall, AwaitOther, AwaitContinue, RunWait, ObtainIdle, Registers,
           SetOptions, InsertSection, InsertFunction, InsertInlined, FunctionInserted, TraceEnds, TraceFails,
           Leave, Request, Goto
      <4> QED BY <4>1 DEF WriteResults
    <3>2. CASE stage # "collect"
      BY <1>4, <3>2, MainFlow
    <3> QED BY <3>1, <3>2
  <2> QED BY <1>0, <2>1, <2>2, SamplesSame
<1>5. CASE ~Main
  <2>1. UNCHANGED <<scenario, readers, config, table>>
    BY <1>5, OtherSteps DEF static, loaded, made
  <2> QED BY <1>0, <2>1, SamplesSame
<1> QED BY <1>1, <1>2, <1>3, <1>4, <1>5

(* The idle times are those of the targets there are.                      *)
LEMMA IdleStep ==
  ASSUME SInv, OutputInv, [Next]_vars
  PROVE  /\ \A i \in DOMAIN idle' :
               idle'[i].device \in {"cpu", "gpu"} /\ idle'[i].samples = Samples(<<idle[i].device>>)'
         /\ stage' \in Started \cup Followed => idle' = <<>>
<1> USE DEF Started, Followed, Ended, Flow
<1>0. SamplesInv /\ TypeOK
  BY DEF SInv, IInv, OutputInv
<1>1. CASE ObtainIdle /\ idle' # idle
  <2> DEFINE both == <<"cpu", "gpu">>
             I == {i \in DOMAIN both : Targeted(both[i])}
             devices == Having(both, Targeted)
  <2>1. /\ idle' = [i \in DOMAIN devices |-> [device |-> devices[i], samples |-> Samples(<<devices[i]>>)]]
        /\ stage' = "registers" /\ UNCHANGED <<scenario, readers, config>>
    BY <1>1 DEF ObtainIdle, Goto, Fail, static, loaded
  <2>2. devices = Picked(both, I)
    BY DEF Having
  <2>3. I \in SUBSET (1..2)
    OBVIOUS
  <2>4. \A k \in DOMAIN Picked(both, I) : Nth(I, k) \in I /\ Picked(both, I)[k] = both[Nth(I, k)]
    <3> HIDE DEF both, I
    <3> QED BY <2>3, PickedFacts
  <2>5. \A i \in I : both[i] \in {"cpu", "gpu"}
    <3>1. \A i \in 1..2 : i = 1 \/ i = 2
      OBVIOUS
    <3>2. both[1] = "cpu" /\ both[2] = "gpu"
      OBVIOUS
    <3> HIDE DEF both, I
    <3> QED BY <2>3, <3>1, <3>2
  <2> HIDE DEF both, I, devices
  <2>6. \A i \in DOMAIN devices : devices[i] \in {"cpu", "gpu"}
    BY <2>2, <2>4, <2>5
  <2>7. \A d : Samples(d)' = Samples(d)
    BY <2>1, SamplesSame
  <2>8. \A i \in DOMAIN idle' : /\ i \in DOMAIN devices /\ idle'[i].device = devices[i]
                                /\ idle'[i].samples = Samples(<<devices[i]>>)
    BY <2>1
  <2>9. ASSUME NEW i \in DOMAIN idle'
        PROVE  idle'[i].device \in {"cpu", "gpu"} /\ idle'[i].samples = Samples(<<idle[i].device>>)'
    <3>1. i \in DOMAIN devices /\ idle'[i].device = devices[i] /\ idle'[i].samples = Samples(<<devices[i]>>)
      BY <2>8
    <3>2. Samples(<<devices[i]>>) = Samples(<<idle[i].device>>)'
      BY <2>7, <3>1
    <3> QED BY <2>6, <3>1, <3>2
  <2> QED BY <2>1, <2>9
<1>2. CASE idle' = idle
  <2>1. CASE stage' \in Started \cup Followed
    <3>1. stage \in Started \cup Followed
      <4>1. CASE Main
        BY <2>1, <4>1, MainFlow
      <4>2. CASE ~Main
        BY <2>1, <4>2, OtherSteps
      <4> QED BY <4>1, <4>2
    <3>2. idle' = <<>>
      BY <1>2, <3>1 DEF OutputInv
    <3>3. DOMAIN idle' = {}
      BY <3>2
    <3> QED BY <3>2, <3>3
  <2>2. CASE stage' \notin Started \cup Followed
    <3>1. CASE stage \in Started \cup {"readers"}
      <4>1. idle' = <<>>
        BY <1>2, <3>1 DEF OutputInv
      <4>2. DOMAIN idle' = {}
        BY <4>1
      <4> QED BY <2>2, <4>2
    <3>2. CASE stage \notin Started \cup {"readers"}
      <4>1. UNCHANGED <<scenario, readers, config>>
        <5>1. CASE Main
          BY <3>2, <5>1, MainFlow DEF static
        <5>2. CASE ~Main
          BY <5>2, OtherSteps DEF static, loaded
        <5> QED BY <5>1, <5>2
      <4>2. \A d : Samples(d)' = Samples(d)
        BY <4>1, SamplesSame
      <4>3. ASSUME NEW i \in DOMAIN idle'
            PROVE  idle'[i].device \in {"cpu", "gpu"} /\ idle'[i].samples = Samples(<<idle[i].device>>)'
        <5>1. idle[i].device \in {"cpu", "gpu"} /\ idle[i].samples = Samples(<<idle[i].device>>)
          BY <1>0, <1>2, <4>3 DEF SamplesInv
        <5>2. Samples(<<idle[i].device>>) = Samples(<<idle[i].device>>)'
          BY <1>2, <4>2
        <5> QED BY <1>2, <5>1, <5>2
      <4> QED BY <2>2, <4>3
    <3> QED BY <3>1, <3>2
  <2> QED BY <2>1, <2>2
<1>3. idle' = idle \/ ObtainIdle
  <2>1. CASE Main /\ stage = "idle"
    BY <2>1 DEF Main, ParseArguments, LoadObjects, LoadConfig, Fork, CreateReaders, AwaitFirst, FirstWait,
       AwaitOptions, AwaitResume, AwaitCall, AwaitOther, AwaitContinue, RunWait, Registers, SetOptions, InsertSection,
       InsertFunction, InsertInlined, FunctionInserted, TraceEnds, TraceFails, Collect, WriteResults, Leave,
       Request, Goto
  <2>2. CASE Main /\ stage # "idle"
    BY <2>2, MainFlow
  <2>3. CASE ~Main
    BY <2>3, OtherSteps DEF made
  <2> QED BY <2>1, <2>2, <2>3
<1> QED BY <1>1, <1>2, <1>3

(* The results are those of the start traps that were hit.                 *)
LEMMA ResultsSampled ==
  ASSUME SInv, OutputInv, [Next]_vars
  PROVE  \A i \in DOMAIN results' : results'[i].samples = Samples(table.starts[results[i].start].devices)'
<1> USE DEF Started, Followed, Inserting, Ended, Flow
<1>0. SamplesInv /\ TypeOK /\ TableInv /\ ResultsInv
  BY DEF SInv, IInv, OutputInv
<1>1. CASE TraceEnds
  <2>1. table' = table /\ UNCHANGED <<scenario, readers, config>>
    BY <1>1 DEF TraceEnds, static, loaded
  <2>2. PICK n \in 0..MaxExecutions :
           \E starts \in [1..n -> DOMAIN table.starts], fine \in [1..n -> BOOLEAN] :
              results' = [i \in 1..n |->
                             [start |-> starts[i], fine |-> fine[i],
                              samples |-> Samples(table.starts[starts[i]].devices)]]
    BY <1>1 DEF TraceEnds
  <2>3. PICK starts \in [1..n -> DOMAIN table.starts], fine \in [1..n -> BOOLEAN] :
              results' = [i \in 1..n |->
                             [start |-> starts[i], fine |-> fine[i],
                              samples |-> Samples(table.starts[starts[i]].devices)]]
    BY <2>2
  <2>4. \A d : Samples(d)' = Samples(d)
    BY <2>1, SamplesSame
  <2>5. ASSUME NEW i \in DOMAIN results'
        PROVE  results'[i].samples = Samples(table.starts[results[i].start].devices)'
    <3>1. results'[i].start = starts[i] /\ results'[i].samples = Samples(table.starts[starts[i]].devices)
      BY <2>3
    <3> QED BY <2>1, <2>4, <3>1
  <2> QED BY <2>5
<1>2. CASE Collect
  <2>1. /\ table'.starts = table.starts /\ results' = Tail(results) /\ results # <<>>
        /\ UNCHANGED <<scenario, readers, config>>
    BY <1>0, <1>2, CollectStep DEF Collect, static, loaded
  <2>2. \A r \in ToSet(results) : r.samples = Samples(table.starts[r.start].devices)
    BY <1>0 DEF SamplesInv, ToSet
  <2>3. ToSet(Tail(results)) \subseteq ToSet(results) /\ IsSequence(Tail(results))
    BY <1>0, <2>1, SequenceTail DEF ResultsInv
  <2>4. \A i \in DOMAIN results' : results'[i] \in ToSet(results)
    BY <2>1, <2>3, SequenceFacts
  <2>5. \A d : Samples(d)' = Samples(d)
    BY <2>1, SamplesSame
  <2>6. ASSUME NEW i \in DOMAIN results'
        PROVE  results'[i].samples = Samples(table.starts[results[i].start].devices)'
    <3>1. results'[i].samples = Samples(table.starts[results'[i].start].devices)
      BY <2>2, <2>4
    <3> QED BY <2>1, <2>5, <3>1
  <2> QED BY <2>6
<1>3. CASE ~TraceEnds /\ ~Collect
  <2>1. CASE results' = <<>>
    <3>1. DOMAIN results' = {}
      BY <2>1
    <3> QED BY <3>1
  <2>2. CASE results' # <<>>
    <3>1. results' = results
      <4>1. CASE Main
        <5>1. CASE stage \in Inserting
          <6>1. TraceFails \/ InsertSection \/ InsertFunction \/ InsertInlined \/ FunctionInserted
            BY <1>0, <1>3, <4>1, <5>1, InsertionSteps
          <6> QED BY <6>1 DEF TraceFails, InsertSection, InsertFunction, InsertInlined, FunctionInserted, Inserted, Fail
        <5>2. CASE stage = "collect"
          <6>1. WriteResults
            BY <1>3, <4>1, <5>2 DEF Main, ParseArguments, LoadObjects, LoadConfig, Fork, CreateReaders, AwaitFirst,
               FirstWait, AwaitOptions, AwaitResume, AwaitCall, AwaitOther, AwaitContinue, RunWait, ObtainIdle,
               Registers, SetOptions, InsertSection, InsertFunction, InsertInlined, FunctionInserted, TraceFails,
               Leave, Request, Goto
          <6> QED BY <6>1 DEF WriteResults
        <5>3. CASE stage \notin Inserting \cup {"collect"}
          BY <4>1, <5>3, MainFlow
        <5> QED BY <5>1, <5>2, <5>3
      <4>2. CASE ~Main
        BY <4>2, OtherSteps DEF made
      <4> QED BY <4>1, <4>2
    <3>2. stage = "collect"
      BY <1>0, <2>2, <3>1 DEF TypeOK
    <3>3. UNCHANGED <<scenario, readers, config, table>>
      <4>1. CASE Main
        <5>1. WriteResults
          BY <1>3, <4>1, <3>2 DEF Main, ParseArguments, LoadObjects, LoadConfig, Fork, CreateReaders, AwaitFirst,
             FirstWait, AwaitOptions, AwaitResume, AwaitCall, AwaitOther, AwaitContinue, RunWait, ObtainIdle,
             Registers, SetOptions, InsertSection, InsertFunction, InsertInlined, FunctionInserted, TraceFails,
             Leave, Request, Goto
        <5> QED BY <5>1 DEF WriteResults, static, loaded
      <4>2. CASE ~Main
        BY <4>2, OtherSteps DEF static, loaded, made
      <4> QED BY <4>1, <4>2
    <3>4. \A d : Samples(d)' = Samples(d)
      BY <3>3, SamplesSame
    <3>5. ASSUME NEW i \in DOMAIN results'
          PROVE  results'[i].samples = Samples(table.starts[results[i].start].devices)'
      <4>1. results[i].samples = Samples(table.starts[results[i].start].devices)
        BY <1>0, <3>1, <3>5 DEF SamplesInv
      <4> QED BY <3>1, <3>3, <3>4, <4>1
    <3> QED BY <3>5
  <2> QED BY <2>1, <2>2
<1> QED BY <1>1, <1>2, <1>3

(* What is printed is made of what was there, and stays.                   *)
LEMMA PrintedStep ==
  ASSUME SInv, OutputInv, [Next]_vars, printed' # Nothing
  PROVE  /\ readers' # Nothing
         /\ printed' = ResultsOutput(scenario'.machine, readers', idle', table'.groups)
<1> USE DEF Started, Followed, Inserting, Ended, Flow
<1>0. TypeOK
  BY DEF SInv, IInv
<1>1. CASE WriteResults
  <2>1. /\ stage = "collect" /\ printed' = ResultsOutput(scenario.machine, readers, idle, table.groups)
        /\ UNCHANGED <<scenario, readers, idle, table>>
    BY <1>1 DEF WriteResults, Goto, static, loaded
  <2>2. readers # Nothing
    BY <2>1 DEF OutputInv
  <2> QED BY <2>1, <2>2
<1>2. CASE ~WriteResults
  <2>1. printed' = printed
    <3>1. CASE Main /\ stage = "collect"
      <4>1. Collect
        BY <1>2, <3>1 DEF Main, ParseArguments, LoadObjects, LoadConfig, Fork, CreateReaders, AwaitFirst,
           FirstWait, AwaitOptions, AwaitResume, AwaitCall, AwaitOther, AwaitContinue, RunWait, ObtainIdle,
           Registers, SetOptions, InsertSection, InsertFunction, InsertInlined, FunctionInserted, TraceEnds,
           TraceFails, Leave, Request, Goto
      <4> QED BY <4>1 DEF Collect
    <3>2. CASE Main /\ stage # "collect"
      BY <3>2, MainFlow
    <3>3. CASE ~Main
      BY <3>3, OtherSteps DEF made
    <3> QED BY <3>1, <3>2, <3>3
  <2>2. stage \in Ended /\ readers # Nothing
        /\ printed = ResultsOutput(scenario.machine, readers, idle, table.groups)
    BY <1>0, <2>1 DEF TypeOK, OutputInv
  <2>3. UNCHANGED <<scenario, readers, idle, table>>
    <3>1. CASE Main
      BY <2>2, <3>1, MainFlow DEF static
    <3>2. CASE ~Main
      BY <3>2, OtherSteps DEF static, loaded, made
    <3> QED BY <3>1, <3>2
  <2> QED BY <2>1, <2>2, <2>3
<1> QED BY <1>1, <1>2

(* Every step keeps what is read.                                          *)
LEMMA OutputKept == SInv /\ OutputInv /\ [Next]_vars => OutputInv'
<1> SUFFICES ASSUME SInv, OutputInv, [Next]_vars PROVE OutputInv'
  OBVIOUS
<1>1. config' # Nothing => TargetsGood'
  BY TargetsStep DEF SInv, OutputInv
<1>2. stage' \notin Started \cup {"readers"} \cup Ended => readers' # Nothing
  BY MadeReadersStep DEF SInv, IInv, OutputInv
<1>3. Devised(table)'
  BY DevisedStep
<1>4. SamplesInv'
  BY IdleStep, ResultsSampled DEF SamplesInv
<1>5. stage' \in Started \cup Followed => idle' = <<>>
  BY IdleStep
<1>6. printed' # Nothing =>
         /\ readers' # Nothing
         /\ printed' = ResultsOutput(scenario'.machine, readers', idle', table'.groups)
  BY PrintedStep
<1> QED BY <1>1, <1>2, <1>3, <1>4, <1>5, <1>6 DEF OutputInv, Started, Followed, Ended

(* It holds initially.                                                     *)
LEMMA OutputInitially == Init => OutputInv
<1> SUFFICES ASSUME Init PROVE OutputInv
  OBVIOUS
<1>1. /\ stage = "arguments" /\ config = Nothing /\ idle = <<>> /\ results = <<>> /\ printed = Nothing
      /\ table = EmptyTable
  BY DEF Init
<1>2. DOMAIN table.starts = {} /\ DOMAIN table.groups = {}
  BY <1>1, NothingDevised
<1>3. DOMAIN idle = {} /\ DOMAIN results = {}
  BY <1>1
<1>4. Devised(table) /\ SamplesInv
  BY <1>2, <1>3 DEF Devised, SamplesInv
<1> QED BY <1>1, <1>4 DEF OutputInv, Started

(* Every reachable state has both invariants.                              *)
LEMMA OutputInvariant == Spec => [](SInv /\ OutputInv)
<1>1. Init => SInv /\ OutputInv
  BY Initially, OutputInitially DEF SInv, Init
<1>2. (SInv /\ OutputInv) /\ [Next]_vars => (SInv /\ OutputInv)'
  BY Inductive, OutputKept
<1> QED BY <1>1, <1>2, PTL DEF Spec

(* The entry of the output under which an execution is has the targets of  *)
(* the section of its trap.                                                *)
LEMMA EntryRead ==
  ASSUME SInv, OutputInv, NEW g \in DOMAIN table.groups, NEW s \in DOMAIN table.groups[g].sections,
         NEW i \in DOMAIN table.groups[g].sections[s].executions
  PROVE  LET e == table.groups[g].sections[s]
             trap == table.starts[e.executions[i].range]
         IN  /\ ToSet(e.devices) = trap.section.targets
             /\ ToSet(trap.devices) = trap.section.targets
             /\ e.executions[i].samples = Samples(trap.devices)
<1> DEFINE e == table.groups[g].sections[s]
           a == e.executions[i].range
           trap == table.starts[a]
<1>1. Placed(table) /\ Configured(table) /\ Devised(table)
  BY DEF SInv, IInv, TableInv, GoodTable, OutputInv
<1>2. a \in DOMAIN table.starts
  BY <1>1 DEF Placed
<1>3. Entered(table.groups[g].label, e) /\ e.executions[i].samples = Samples(trap.devices)
      /\ ReadFor(trap.devices, trap.section)
  BY <1>1, <1>2 DEF Devised
<1>4. trap.group.label = table.groups[g].label /\ trap.section.label = e.label
  BY OwnSection DEF ResultsUnderOwnSection
<1>5. OfConfig(trap)
  BY <1>1, <1>2 DEF Configured
<1> HIDE DEF e, trap
<1>6. ReadFor(e.devices, trap.section)
  BY <1>3, <1>4, <1>5 DEF Entered, OfConfig
<1> QED BY <1>3, <1>6 DEF ReadFor, e, trap

(* What is printed of the executions and of the idle times.                *)
LEMMA OutputPrinted ==
  ASSUME OutputInv, printed # Nothing
  PROVE  /\ \A i \in DOMAIN idle :
               printed.idle[i] = ReadingsOutput(readers, <<idle[i].device>>, idle[i].samples)
         /\ \A g \in DOMAIN table.groups : \A s \in DOMAIN table.groups[g].sections :
               LET e == table.groups[g].sections[s] IN
               \A i \in DOMAIN e.executions :
                  printed.groups[g].sections[s].executions[i].readings =
                      ReadingsOutput(readers, e.devices, e.executions[i].samples)
         /\ printed.format = GpuFormat(scenario.machine)
<1>1. printed = ResultsOutput(scenario.machine, readers, idle, table.groups)
  BY DEF OutputInv
<1>2. /\ \A i \in DOMAIN idle :
               printed.idle[i] = ReadingsOutput(readers, <<idle[i].device>>, idle[i].samples)
      /\ \A g \in DOMAIN table.groups : printed.groups[g] = GroupOutput(readers, table.groups[g])
      /\ printed.format = GpuFormat(scenario.machine)
  BY <1>1 DEF ResultsOutput
<1>3. ASSUME NEW g \in DOMAIN table.groups, NEW s \in DOMAIN table.groups[g].sections,
             NEW i \in DOMAIN table.groups[g].sections[s].executions
      PROVE  printed.groups[g].sections[s].executions[i].readings =
                 ReadingsOutput(readers, table.groups[g].sections[s].devices,
                                table.groups[g].sections[s].executions[i].samples)
  <2> DEFINE group == table.groups[g]
             e == group.sections[s]
  <2>1. printed.groups[g] = GroupOutput(readers, group)
    BY <1>2
  <2>2. GroupOutput(readers, group).sections[s] = SectionOutput(readers, e)
    BY DEF GroupOutput
  <2>3. SectionOutput(readers, e).executions[i].readings =
            ReadingsOutput(readers, e.devices, e.executions[i].samples)
    <3>1. i \in DOMAIN e.executions
      OBVIOUS
    <3> HIDE DEF e
    <3>2. SectionOutput(readers, e).executions =
              [j \in DOMAIN e.executions |->
                  [range |-> e.executions[j].range,
                   readings |-> ReadingsOutput(readers, e.devices, e.executions[j].samples)]]
      BY DEF SectionOutput
    <3> QED BY <3>1, <3>2
  <2>4. printed.groups[g].sections[s] = SectionOutput(readers, e)
    <3> HIDE DEF e, group
    <3> QED BY <2>1, <2>2
  <2>5. printed.groups[g].sections[s].executions[i].readings =
            ReadingsOutput(readers, e.devices, e.executions[i].samples)
    <3> HIDE DEF e
    <3> QED BY <2>3, <2>4
  <2> QED BY <2>5
<1> QED BY <1>2, <1>3

(* All readings are printed.                                               *)
LEMMA AllReadings ==
  ASSUME SInv, OutputInv
  PROVE  ReadingsComplete
<1> SUFFICES ASSUME printed # Nothing, NotZero # <<>> PROVE ReadingsComplete
  BY DEF ReadingsComplete
<1>1. scenario \in Scenarios /\ ReadersInv /\ readers # Nothing /\ OccEventsComplete
  BY OccReaderComplete DEF SInv, IInv, OutputInv
<1>2. ASSUME NEW i \in DOMAIN idle
      PROVE  IF idle[i].device = "cpu" THEN CpuComplete(printed.idle[i]) ELSE GpuComplete(printed.idle[i])
  <2> DEFINE one == <<idle[i].device>>
  <2>1. idle[i].device \in {"cpu", "gpu"} /\ idle[i].samples = Samples(one)
    BY DEF OutputInv, SamplesInv
  <2>2. printed.idle[i] = ReadingsOutput(readers, one, Samples(one))
    BY <2>1, OutputPrinted
  <2>3. idle[i].device \in ToSet(one)
    BY DEF ToSet
  <2> HIDE DEF one
  <2>4. CASE idle[i].device = "cpu"
    BY <1>1, <2>2, <2>3, <2>4, CpuOutputComplete
  <2>5. CASE idle[i].device = "gpu"
    BY <1>1, <2>2, <2>3, <2>5, GpuOutputComplete
  <2> QED BY <2>1, <2>4, <2>5
<1>3. ASSUME NEW g \in DOMAIN table.groups, NEW s \in DOMAIN table.groups[g].sections,
             NEW i \in DOMAIN table.groups[g].sections[s].executions
      PROVE  LET targets == table.starts[table.groups[g].sections[s].executions[i].range].section.targets
                 out == printed.groups[g].sections[s].executions[i].readings
             IN  ("cpu" \in targets => CpuComplete(out)) /\ ("gpu" \in targets => GpuComplete(out))
  <2> DEFINE e == table.groups[g].sections[s]
             trap == table.starts[e.executions[i].range]
             out == printed.groups[g].sections[s].executions[i].readings
  <2>1. /\ ToSet(e.devices) = trap.section.targets /\ ToSet(trap.devices) = trap.section.targets
        /\ e.executions[i].samples = Samples(trap.devices)
    BY EntryRead
  <2>2. out = ReadingsOutput(readers, e.devices, Samples(trap.devices))
    BY <2>1, OutputPrinted
  <2> HIDE DEF e, trap, out
  <2>3. ASSUME "cpu" \in trap.section.targets PROVE CpuComplete(out)
    BY <1>1, <2>1, <2>2, <2>3, CpuOutputComplete
  <2>4. ASSUME "gpu" \in trap.section.targets PROVE GpuComplete(out)
    BY <1>1, <2>1, <2>2, <2>4, GpuOutputComplete
  <2> QED BY <2>3, <2>4 DEF e, trap, out
<1> QED BY <1>2, <1>3 DEF ReadingsComplete

(* The output has all readings of all events of what was measured, and the *)
(* idle times, under the entry of the section they are of, and names the   *)
(* kind of those of the GPUs, for any machine, masks, configuration and    *)
(* executions (output.cpp, reader_container.cpp).                          *)
THEOREM ProfilerOutputComplete == Spec => []OutputComplete
<1>1. SInv /\ OutputInv => GpuFormatMatches
  BY FormatOfReadings, OutputPrinted DEF SInv, IInv, OutputInv, GpuFormatMatches
<1>2. SInv /\ OutputInv => OutputComplete
  BY <1>1, AllReadings DEF OutputComplete
<1> QED BY <1>2, OutputInvariant, PTL
=============================================================================

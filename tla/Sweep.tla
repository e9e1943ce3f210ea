-------------------------------- MODULE Sweep --------------------------------
(***************************************************************************)
(* From the flags of `slurp submit-array` to what a task of the array sees: *)
(* _parse_sweep_params and _build_configs (src/slurp/cli/submit.py) and the *)
(* parameter mapping of generate_array_wrapper (src/slurp/core/slurm.py).   *)
(* An argument is a flag "--name" or a list of values; a flag in the place  *)
(* of a value is a list of one.  Tasks count from 0, sequences from 1.      *)
(***************************************************************************)
EXTENDS Naturals, Sequences, FiniteSetsExt

CONSTANTS
    SortedKeys,   \* the names flags may have, in the order of sorted()
    Upper,        \* Upper[k]: k in capitals, the name of its shell variable
    ShellNames    \* names in capitals that bash takes for variables: BATCH-SIZE
                  \* is none

ASSUME SortedKeysAssumption ==
    \A i, j \in DOMAIN SortedKeys : SortedKeys[i] = SortedKeys[j] => i = j

Argument == [dashes : BOOLEAN, name : STRING, values : Seq(STRING) \ {<<>>}]

Flag(k)  == [dashes |-> TRUE, name |-> k, values |-> <<k>>]
List(vs) == [dashes |-> FALSE, name |-> "", values |-> vs]

\* params[k] = values, unless a later flag has given k another list.
WithEarlier(params, k, values) ==
    [l \in DOMAIN params \cup {k} |-> IF l \in DOMAIN params THEN params[l] ELSE values]

\* What the arguments from each place on give: a flag takes whatever comes next
\* as its list; a flag that is given again replaces the list; anything else is
\* skipped.
ParsedFrom(args) ==
    LET params[i \in 1 .. Len(args) + 2] ==
            IF i > Len(args) THEN <<>>
            ELSE IF args[i].dashes /\ i + 1 <= Len(args)
                   THEN WithEarlier(params[i + 2], args[i].name, args[i + 1].values)
                   ELSE params[i + 1]
    IN params

ParseSweepParams(args) == ParsedFrom(args)[1]

\* Mutant: as many tasks as the shortest list has values, as zip would.
BuildConfigsZip(params) ==
    LET count == IF DOMAIN params = {} THEN 0 ELSE Min({Len(params[k]) : k \in DOMAIN params})
    IN [i \in 1 .. count |-> [k \in DOMAIN params |-> params[k][i]]]

\* One configuration per value of the longest list; shorter ones repeat their
\* last value.
BuildConfigs(params) ==
    LET count == IF DOMAIN params = {} THEN 0 ELSE Max({Len(params[k]) : k \in DOMAIN params})
    IN [i \in 1 .. count |->
           [k \in DOMAIN params |-> params[k][Min({i, Len(params[k])})]]]

\* The shell arrays of the script: of two keys with one name in capitals the
\* later declaration counts.  A value stands between double quotes and is not
\* escaped: values are taken to have no ", $, ` or \ in them.
ArrayWrapper(configs) ==
    LET keys == UNION {DOMAIN configs[i] : i \in DOMAIN configs}
        Declared(variable) ==
            CHOOSE k \in keys :
                /\ Upper[k] = variable
                /\ \A i, j \in DOMAIN SortedKeys :
                      SortedKeys[j] = k /\ SortedKeys[i] \in keys
                      /\ Upper[SortedKeys[i]] = variable => i <= j
    IN [variable \in {Upper[k] : k \in keys} |->
           [task \in 0 .. Len(configs) - 1 |->
               IF Declared(variable) \in DOMAIN configs[task + 1]
                 THEN configs[task + 1][Declared(variable)] ELSE ""]]

\* Nor is a name checked: of a script that declares BATCH-SIZE=("8" "16") bash
\* makes a syntax error, and nothing that follows is run.
Parses(arrays) == DOMAIN arrays \subseteq ShellNames

\* What stands in the command of a task for each placeholder {k}.
Command(arrays, task, keys) == [k \in keys |-> arrays[Upper[k]][task]]

----------------------------------------------------------------------------
(* The reference: flags and lists in turn, perhaps a flag left over. *)

Pairs(args) == Len(args) \div 2

WellFormed(args) ==
    /\ \A p \in 1 .. Pairs(args) : args[2 * p - 1].dashes /\ ~args[2 * p].dashes
    /\ Len(args) % 2 = 1 => args[Len(args)].dashes

\* The lists that count: of the flags of one name the last.
LastPairs(args) ==
    {p \in 1 .. Pairs(args) :
        \A q \in p + 1 .. Pairs(args) : args[2 * q - 1].name # args[2 * p - 1].name}

SweepKeys(args) == {args[2 * p - 1].name : p \in LastPairs(args)}

TaskCount(args) == Max({0} \cup {Len(args[2 * p].values) : p \in LastPairs(args)})

\* No other key is written the same in capitals.
Alone(args, k) == \A l \in SweepKeys(args) \ {k} : Upper[l] # Upper[k]

\* The value of k that task `task` is meant to run with.
MeantFor(args, task, k) ==
    LET p == CHOOSE q \in LastPairs(args) : args[2 * q - 1].name = k
        list == args[2 * p].values
    IN IF task < Len(list) THEN list[task + 1] ELSE list[Len(list)]
==============================================================================

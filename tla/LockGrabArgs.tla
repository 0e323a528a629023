---------------------------- MODULE LockGrabArgs ----------------------------
(***************************************************************************)
(* parse_args of programs/lock_grab/lock_grab.c: how -c, -L and -H and the *)
(* defaults of main become lg_num_locks, lg_min_held and lg_max_held.      *)
(* A command line is a record whose fields are NotGiven or the number      *)
(* given; the defaults are constants (100, 0 and 20 in main).              *)
(***************************************************************************)
EXTENDS Integers

CONSTANTS DefNum, DefMin, DefMax,   \* the initialisers of lgc in main
          MaxArg,                   \* bound: numbers up to MaxArg are given
          NotGiven

ArgsConstantsOK ==
    /\ DefMin \in Nat /\ DefMax \in Nat /\ DefNum \in Nat
    /\ DefMin < DefMax /\ DefMax <= DefNum

VARIABLES args,    \* the options that are still to be parsed
          lgc,     \* [num, min, max]: the fields of lg_context
          set,     \* the options seen: count_set, min_set, max_set
          ret      \* "running", "ok" or "EINVAL"

parse == <<args, lgc, set, ret>>

Given == (-1 .. MaxArg) \cup {NotGiven}
Opts == {"num", "min", "max"}

ArgsInit ==
    /\ args \in [Opts -> Given]
    /\ lgc = [num |-> DefNum, min |-> DefMin, max |-> DefMax]
    /\ set = {}
    /\ ret = "running"

\* One turn of the getopt loop: atoi gives 0 for what is not a number.
Option(o) ==
    /\ ret = "running"
    /\ args[o] # NotGiven
    /\ IF args[o] = 0
         THEN ret' = "EINVAL" /\ UNCHANGED <<args, lgc, set>>
         ELSE /\ lgc' = [lgc EXCEPT ![o] = args[o]]
              /\ set' = set \cup {o}
              /\ args' = [args EXCEPT ![o] = NotGiven]
              /\ UNCHANGED ret

\* "First verify the stupid errors."
StupidErrors == lgc.num < 1 \/ lgc.min < 0 \/ lgc.max < 1

\* "Now cleanup any defaults that don't match user input": three assignments,
\* each seeing the result of the one before.
Cleanup1(l) == IF "min" \in set /\ "max" \notin set /\ l.min > l.max
               THEN [l EXCEPT !.max = l.min + 1] ELSE l

Cleanup2(l) == IF "num" \in set /\ "max" \notin set /\ l.max > l.num
               THEN [l EXCEPT !.max = l.num] ELSE l

\* Mutant of Cleanup3: count_set is not looked at.
Cleanup3Always(l) == IF l.max > l.num THEN [l EXCEPT !.num = l.max] ELSE l

Cleanup3(l) == IF "num" \notin set /\ l.max > l.num
               THEN [l EXCEPT !.num = l.max] ELSE l

\* Mutant of Senseless: equal water marks are let through.
SenselessStrict(l) == l.max < l.min \/ l.min >= l.num \/ l.max > l.num

\* "Finally, verify that user input makes sense."
Senseless(l) == l.max <= l.min \/ l.min >= l.num \/ l.max > l.num

Verify ==
    /\ ret = "running"
    /\ \A o \in Opts : args[o] = NotGiven
    /\ IF StupidErrors
         THEN ret' = "EINVAL" /\ UNCHANGED lgc
         ELSE LET l == Cleanup3(Cleanup2(Cleanup1(lgc)))
              IN  lgc' = l /\ ret' = IF Senseless(l) THEN "EINVAL" ELSE "ok"
    /\ UNCHANGED <<args, set>>

ParseEnded == ret # "running" /\ UNCHANGED parse

ArgsNext == (\E o \in Opts : Option(o)) \/ Verify \/ ParseEnded

ArgsSpec == ArgsInit /\ [][ArgsNext]_parse

-----------------------------------------------------------------------------
\* A lower mark alone (-L n) is refused only when it is negative or just the
\* default high-water mark: the clean-up makes room for every other value, in
\* all three orders of n, the default mark and the default number of locks.
LowMarkAlone ==
    set = {"min"} /\ ret # "running" /\ (\A o \in Opts : args[o] = NotGiven)
        => (ret = "EINVAL" <=> lgc.min < 0 \/ lgc.min = DefMax)

\* Whatever is accepted is what run relies on (ConstantsOK of LockGrab): the
\* water marks are apart and both within the lock space; and too little is not
\* accepted either.
AcceptedArgsAreSane ==
    /\ ret = "ok" => /\ 0 <= lgc.min
                     /\ lgc.min < lgc.max
                     /\ lgc.max <= lgc.num
    /\ LowMarkAlone

\* A number the user gave is never replaced by the clean-up.
UserInputIsKept ==
    [][\A o \in set : lgc'[o] = lgc[o]]_parse
=============================================================================

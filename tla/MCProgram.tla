----------------------------- MODULE MCProgram -----------------------------
(* Programs for ProgramRun: each is small and nests what is hard to nest.    *)
EXTENDS ProgramRun, TLC

CONSTANTS r1, r2, desk, phone, pad

Act == [op |-> "act", waits |-> "no"]
Wait == [op |-> "act", waits |-> "wait"]
Watch == [op |-> "act", waits |-> "checks"]
In_(target, body) == [op |-> "scope", target |-> target, body |-> body]
Signal(op) == [op |-> op]
CallOf(function) == [op |-> "call", function |-> function]
Loops(loop, body) == [op |-> "loop", loop |-> loop, rounds |-> 2, body |-> body]
Listen(handler) == [op |-> "listen", handler |-> handler]

Programs ==
    ("nothing" :> <<>>) @@ ("acts" :> <<Act>>) @@ ("waits" :> <<Wait>>) @@
    \* A region with a retry, two catches and a final branch around a scope.
    ("guarded" :> <<[op |-> "try", body |-> "phone scope", retries |-> 1, transient_only |-> TRUE,
                     catches |-> <<[errors |-> {"transient"}, body |-> "acts"],
                                   [errors |-> {}, body |-> "fails"]>>,
                     final |-> "acts"], Act>>) @@
    ("phone scope" :> <<In_(phone, "acts")>>) @@ ("fails" :> <<Signal("fail")>>) @@
    \* The loops, left by break, continue and return through a scope.
    ("rounds" :> <<Loops("while", "turns"), Loops("repeat", "acts")>>) @@
    ("turns" :> <<[op |-> "if", branches |-> {"breaks", "continues", "returns"}]>>) @@
    ("breaks" :> <<In_(phone, "break")>>) @@ ("break" :> <<Signal("break")>>) @@
    ("continues" :> <<Signal("continue")>>) @@
    ("returns" :> <<CallOf("returning"), In_(phone, "return")>>) @@ ("return" :> <<Signal("return")>>) @@
    ("returning" :> <<Signal("return")>>) @@
    \* Scopes in scopes, tried twice: the outer target is used again.
    ("nested" :> <<[op |-> "retry", count |-> 2, body |-> "outer"]>>) @@
    ("outer" :> <<In_(phone, "middle")>>) @@ ("middle" :> <<In_(desk, "inner")>>) @@
    ("inner" :> <<In_(phone, "innermost")>>) @@ ("innermost" :> <<In_(phone, "nothing")>>) @@
    \* A function that calls itself, and a target the program does not have.
    ("deep" :> <<CallOf("deep"), In_(NoTarget, "nothing")>>) @@
    \* A listener whose handler enters a scope, beside a wait in a scope.
    ("listening" :> <<Listen("handles"), [op |-> "try", body |-> "pad scope", retries |-> 1,
                      transient_only |-> FALSE, catches |-> <<>>, final |-> "nothing"]>>) @@
    ("handles" :> <<In_(phone, "acts")>>) @@ ("pad scope" :> <<In_(pad, "watches")>>) @@
    ("watches" :> <<Watch, Wait>>) @@
    \* What the second run does beside them.
    ("borrows" :> <<In_(phone, "nothing")>>) @@
    ("reading" :> <<Loops("for_each_map", "acts"), Loops("for_each", "nothing")>>)

AllPrograms == {"guarded", "rounds", "nested", "deep", "listening", "reading"}

TwoRuns == (r1 :> AllPrograms) @@ (r2 :> {"borrows"})
Homes == (r1 :> desk) @@ (r2 :> NoTarget)
============================================================================

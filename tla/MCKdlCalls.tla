----------------------------- MODULE MCKdlCalls ----------------------------
(***************************************************************************)
(* Goroutines and types for model-checking KdlCalls: a type that contains  *)
(* itself and another, whose name a third one has too.                     *)
(***************************************************************************)
EXTENDS KdlCalls, TLC

CONSTANTS g1, g2, g3, Outer, Inner, Alias

MCGoroutines == {g1, g2, g3}
MCTypes == {Outer, Inner, Alias}
MCNames == {"pkg.Outer", "pkg.Inner"}
MCName == Outer :> "pkg.Outer" @@ Inner :> "pkg.Inner" @@ Alias :> "pkg.Inner"
MCElements == Outer :> <<Outer, Inner, Alias>> @@ Inner :> <<>> @@ Alias :> <<>>
MCKinds == <<"Unmarshaler", "ValueUnmarshaler">>

Good == [all |-> {"V2"}, prefix |-> {}, fails |-> "never"]

Adds == {[op |-> "add", key |-> Key(k, t, p)] :
            k \in {"Unmarshaler", "ValueUnmarshaler"}, t \in {Inner, Alias}, p \in BOOLEAN}

Decode(v, input, t) == [op |-> "unmarshal", version |-> v, input |-> input, type |-> t]

\* Registrations and calls at once, and every input in every version.
MCPrograms ==
    {g1 :> x @@ g2 :> y @@ g3 :> Decode("Auto", Good, Outer) :
        x \in Adds, y \in Adds \cup {Decode("V2", Good, Inner)}}
    \cup {g1 :> Decode(v, i, Inner) @@ g2 :> NoCall @@ g3 :> NoCall :
             v \in Versions \cup {"Auto"}, i \in Inputs}
============================================================================

----------------------------- MODULE MCScriptCalls -----------------------------
(***************************************************************************)
(* Values for ScriptCalls: times around Now = 50 and a span of time of 30, *)
(* numbers at the limits of intervals, groups and records, and values of   *)
(* the wrong type.                                                         *)
(***************************************************************************)
EXTENDS ScriptCalls

Times == {-1, 0, 10, 45, 60}
Values ==
    {Number(t) : t \in {-1, 0, 10, 45, 60, 1000, 1001}}
    \cup {String("a"), String(""), Function, Object}
Last == {Number(1001), Number(7), Function, Object}
MCArgvs ==
    {<<>>} \cup {<<v>> : v \in Values} \cup {<<v, w>> : v, w \in Values}
    \cup {<<v, w, x>> : v, w \in Values, x \in Last}
    \cup {<<Number(n), Number(s), Number(e), x>> :
            n \in {-1, 0, 4, 5}, s, e \in {10, 45, 60}, x \in {Function, Object}}
    \cup {<<Number(n), Number(s), Number(e)>> : n \in {-1, 0, 4, 5}, s, e \in {10, 45, 60}}

MCIdlArgs ==
    [name : {"a", ""}, begin : {0, 10, 45, 60}, end : {10, 45}, num : {0, 4, 5, 10, 1001}]

Options == [bundle : {String("a"), Undefined}, user : {Undefined, Number(0)},
            interval : {Number(3), Number(4)}, begin : {Number(10), Number(0)},
            end : {Number(45)}, max : {Number(1), Number(1001)}, days : {Number(7), Number(14)},
            help : {FALSE}]
MCCommandLines == Options \cup {[CHOOSE o \in Options : TRUE EXCEPT !.help = TRUE]}

Hap == [token |-> "hap", system |-> TRUE, permitted |-> TRUE, name |-> "a", account |-> 100]
MCCallers ==
    {Hap, [Hap EXCEPT !.system = FALSE], [Hap EXCEPT !.permitted = FALSE],
     [Hap EXCEPT !.token = "native", !.system = FALSE, !.name = ""],
     [Hap EXCEPT !.account = AccountFails]}

\* Bundle a has an application, uid 1, its clone, uid 2, and two uids that were removed.
MCAppIndex == <<0, 1, -1, -1>>
Row(uid, day) == [bundle |-> "a", uid |-> uid, day |-> day, front |-> uid + day]
MCWanted == {<<<<"a", 0>>>>, <<<<"a", 0>>, <<"a", 1>>>>, <<<<"a", 1>>, <<"a", 1>>>>, <<<<"a", -1>>>>}
MCFindings ==
    {{}, {Row(1, 1), Row(1, 2)}, {Row(1, 1), Row(2, 1)}, {Row(1, 1), Row(3, 1), Row(4, 1)}}
=============================================================================

---------------------------------- MODULE MCJSON ----------------------------------
(***************************************************************************)
(* JSONProcessor on documents of up to four containers, with callbacks that  *)
(* convert, replace, remove, insert, fail, break off and change hashes.       *)
(***************************************************************************)
EXTENDS JSONProcessor

MCKind == [root |-> "dict", list |-> "list", tuple |-> "tuple", model |-> "model", other |-> "model",
           spare |-> "dict", text |-> "str"]
MCObjects == DOMAIN MCKind

\* A bool is an int; everything else is only itself.
MCSupers == [t \in {"int", "bool", "float", "str", "dict", "list", "tuple", "model"} |->
                IF t = "bool" THEN {"bool", "int"} ELSE {t}]

Empty == [o \in MCObjects |-> <<>>]
Base == [Empty EXCEPT !["spare"] = [k |-> "int"], !["text"] = <<"text">>]

\* Every model is equal to itself alone, or the two are equal.
Distinct == [model |-> [hash |-> 0, key |-> "model"], other |-> [hash |-> 9, key |-> "other"]]
Equals == [m \in {"model", "other"} |-> [hash |-> 0, key |-> "model"]]

Input(container, holds, digests) ==
    [root |-> container, content |-> [Base EXCEPT !["root"] = holds.root,
        !["list"] = holds.list, !["tuple"] = holds.tuple,
        !["model"] = holds.model, !["other"] = holds.other], digest |-> digests]
Nothing == [o \in {"root", "list", "tuple", "model", "other"} |-> <<>>]

MCInputs == {
    \* a list in a dictionary
    Input("root", [Nothing EXCEPT !.root = [a |-> "list", b |-> "bool"],
                                  !.list = <<"int", "int">>], Distinct),
    \* models that refer to themselves and to each other, and one that is shared
    Input("model", [Nothing EXCEPT !.model = [a |-> "list", b |-> "other"],
                                   !.list = <<"model", "int">>,
                                   !.other = [a |-> "other", b |-> "model"]], Distinct),
    Input("list", [Nothing EXCEPT !.list = <<"model", "root">>,
                                  !.root = [a |-> "model"],
                                  !.model = [a |-> "root"]], Distinct),
    \* a model that contains itself, behind a value that is in its hash
    Input("model", [Nothing EXCEPT !.model = [a |-> "list"],
                                   !.list = <<"int", "model">>], Distinct),
    \* two models that are equal, the first within a list of the second
    Input("other", [Nothing EXCEPT !.other = [a |-> "list"],
                                   !.list = <<"int", "model">>,
                                   !.model = [a |-> "int"]], Equals),
    \* a tuple, and a string
    Input("root", [Nothing EXCEPT !.root = [a |-> "tuple", b |-> "text"],
                                  !.tuple = <<"int">>], Distinct),
    \* a dictionary that contains itself
    Input("root", [Nothing EXCEPT !.root = [a |-> "root"]], Distinct)}

Def(c, t, tolerant, filtered) ==
    [callback |-> c, type |-> t, tolerant |-> tolerant, filtered |-> filtered]

\* Conversions lead from int to bool, float and on to str or dict, and never back.
MCDefinitions == {
    Def("convert", "int", FALSE, FALSE), Def("convert", "int", TRUE, TRUE),
    Def("remove", "int", TRUE, FALSE), Def("replace", "float", FALSE, FALSE),
    Def("fail", "float", FALSE, FALSE), Def("insert", "int", FALSE, FALSE),
    Def("rehash", "int", FALSE, FALSE), Def("undecorated", "str", FALSE, FALSE)}
MCDecorated == {"convert", "remove", "replace", "fail", "insert", "rehash"}

Outcomes(returns, may) ==
    [returns |-> returns, may |-> may, inserts |-> {}, digests |-> {<<>>}]
MCDoes == [convert |-> Outcomes({"bool", "float"}, {"observes"}),
           remove |-> Outcomes({}, {"removes", "observes"}),
           replace |-> Outcomes({"spare", "text"}, {"breaks"}),
           fail |-> Outcomes({}, {"fails", "misdefined", "observes"}),
           insert |-> [Outcomes({}, {"observes"}) EXCEPT !.inserts = {"bool"}],
           rehash |-> [Outcomes({}, {"observes"}) EXCEPT
                !.digests = {[model |-> [hash |-> h, key |-> "model"]] : h \in 0..3}]]
MCConfigs == {c \in [subclasses : BOOLEAN, typeChanges : BOOLEAN, ignores : BOOLEAN] :
                /\ c.ignores => c.subclasses /\ c.typeChanges
                /\ ~c.subclasses => c.typeChanges}
===================================================================================

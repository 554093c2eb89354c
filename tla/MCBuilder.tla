----------------------------- MODULE MCBuilder -----------------------------
(***************************************************************************)
(* Instances of Builder: values of every type by two allocators, and dicts *)
(* filled in every order.                                                  *)
(***************************************************************************)
EXTENDS Builder

MixedValues ==
  { <<"int_new", "libc", <<>>>>, <<"string_new", "arena", <<98>>>>,
    <<"list_new", "arena", <<>>>>, <<"dict_new", "libc", <<>>>>,
    <<"parse", "libc", <<98>>>> }
MixedKeys == { <<97>> }

DictValues ==
  { <<"string_new", "libc", <<>>>>, <<"dict_new", "libc", <<>>>>,
    <<"list_new", "partial", <<>>>> }
DictKeys == { <<>>, <<97>>, <<97, 97>> }

============================================================================

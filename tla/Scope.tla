------------------------------- MODULE Scope -------------------------------
(***************************************************************************)
(* The scope of SentryCpp (src/scope.cpp) as operators on its fields: the  *)
(* breadcrumbs, the tags, the extras, the release and the level that are   *)
(* attached to every event.  Hub keeps the fields and calls the operators. *)
(*                                                                         *)
(* A JSON object from keys to strings is a total function in which "" says *)
(* that the key is absent: the code never stores an empty string.          *)
(***************************************************************************)
EXTENDS Integers, Sequences

uint16_t == {n \in Nat : n < 65536}

\* setMaxBreadcrumbs takes a uint16_t, Hub::init casts an int to it.
uint16(n) == n % 65536

\* Mutant of PushBreadcrumb: >= in place of >.
PushBreadcrumbEarly(crumbs, crumb, max) ==
  LET pushed == Append(crumbs, crumb)
  IN  IF Len(pushed) >= max THEN Tail(pushed) ELSE pushed

\* addBreadcrumb: push_back, and one pop_front if there are now too many.
PushBreadcrumb(crumbs, crumb, max) ==
  LET pushed == Append(crumbs, crumb)
  IN  IF Len(pushed) > max THEN Tail(pushed) ELSE pushed

\* json::emplace leaves a key that is there as it is.
setValueMap(map, key, value) ==
  [map EXCEPT ![key] = IF value = "" \/ @ = "" THEN value ELSE @]

\* Mutant of InsertField: the scope's value takes precedence.
OverwriteField(own, value) == IF value # "" THEN value ELSE own

\* applyToEvent inserts a field with json::push_back, that is with
\* std::map::insert: a field the event already has is kept.
InsertField(own, value) == IF own = "" THEN value ELSE own

\* m_level is LEVEL_INFO from the constructor on: nothing calls setLevel.
getLevelStr == "info"
=============================================================================

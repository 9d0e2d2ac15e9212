---- MODULE MCSpawns ----
(***************************************************************************)
(* An instance of Spawns for TLC: builders that collide on one subject and *)
(* one work tree.                                                          *)
(***************************************************************************)
EXTENDS Spawns

Builders   == [s \in Spawn |-> "builder"]
OneSubject == [s \in Spawn |-> "spec"]
OneTree    == [s \in Spawn |-> "tree"]
====

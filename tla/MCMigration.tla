---------------------------- MODULE MCMigration ----------------------------
(* A small instance of Migration, the configuration and the Docker context *)
(* for TLC: one container by itself and a project of two, the second of    *)
(* which comes from a second compose file.                                 *)
EXTENDS Migration

MCProjectOf == [c \in Containers |-> IF c = "db" THEN Standalone ELSE "web"]
MCComposeFiles == [p \in {"web"} |-> <<{"app"}, {"extra"}>>]

Budget(puts, stops, fails, ticks, touches, migrations, toggles, expiries, crashes) ==
  [puts |-> puts, stops |-> stops, fails |-> fails, ticks |-> ticks, touches |-> touches,
   migrations |-> migrations, toggles |-> toggles, expiries |-> expiries, crashes |-> crashes]

\* Proxies and a restart; a third request; the manager and the user; a migration among
\* settings; migrations in a row; one while the user works on; one that is cut short.
MCBudgets == {Budget(2, 1, 1, 0, 0, 0, 0, 0, 1), Budget(3, 1, 0, 0, 0, 0, 0, 0, 0),
              Budget(2, 0, 1, 1, 1, 0, 0, 0, 0),
              Budget(1, 0, 0, 0, 1, 1, 0, 0, 0), Budget(0, 0, 1, 0, 0, 2, 0, 0, 0),
              Budget(0, 0, 1, 0, 0, 1, 1, 0, 0), Budget(0, 0, 0, 0, 0, 2, 0, 1, 1)}

=============================================================================

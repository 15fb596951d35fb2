---------------------------- MODULE Configuration ----------------------------
(***************************************************************************)
(* api/config: what the environment makes of the program.  It is read once, *)
(* before main runs.                                                       *)
(***************************************************************************)

CONSTANT AppEnv         \* APP_ENV in lower case, "" if it is not set

\* cmp.Or
Or(value, default) == IF value = "" THEN default ELSE value

\* A case of a Go switch that has no statement of its own does not share those of
\* the next one: "dev", "prod" and "test" leave the switch, and "" is returned.
parseAppMode(mode) ==
    CASE mode = "development" -> "dev"
      [] mode = "production"  -> "prod"
      [] mode = "testing"     -> "test"
      [] OTHER                -> ""

Mode == Or(parseAppMode(AppEnv), "dev")

\* What depends on the mode: main opens a database in memory, and brings its
\* schema up to date; the session cookie is for HTTPS only.
InMemory == Mode = "test"
AutoMigrates == Mode \in {"dev", "test"}
SecureCookie == Mode = "prod"
=============================================================================

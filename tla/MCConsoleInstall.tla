-------------------------- MODULE MCConsoleInstall --------------------------
(* Instances of ConsoleInstall.  A new server's input file, one that names *)
(* what the server holds, and a .env with a line of the client's own.      *)
EXTENDS ConsoleInstall

IP == "HOST_PUBLIC_IP"

OneDefault == IP :> ""
OneOption == IP :> {}

(* A value with a quote in it is written with a backslash before it, and   *)
(* the backslash is read back: "escaped" is every value that has come by   *)
(* one, and comes by more.                                                 *)
MCReread == [v \in Values |-> IF v = "quoted" THEN "escaped" ELSE v]

NewServer == [env |-> IP :> "ip", pin |-> "long", password |-> TRUE]
MCInputs == {NONE, NewServer, [NewServer EXCEPT !.env = "DOMAIN" :> "ip"],
             [NewServer EXCEPT !.pin = "short"]}
MCEdits == {(IP :> "ip") @@ ("OWN" :> "quoted")}
=============================================================================

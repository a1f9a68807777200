--------------------------- MODULE MCPolicyEdits ---------------------------
(* Two invocations of any of the scripts, over a stack of one or two       *)
(* integration policies of one kind: those a script writes together.       *)
EXTENDS PolicyEdits, TLC

ClientSymmetry == Permutations(Clients)

Migrate(s) == [script |-> s, check |-> FALSE]
Check(s) == [script |-> s, check |-> TRUE]
Toggle(d, w) == [script |-> "toggle-stream", doc |-> d, want |-> w]

MCDocs == {"cef", "iptables", "media-system", "pve-system", "sonarr"}
MCOrder == <<"cef", "iptables", "media-system", "pve-system", "sonarr">>
MCPackage == [d \in MCDocs |-> CASE d \in {"cef", "iptables"} -> d
                                 [] d = "sonarr" -> "log"
                                 [] OTHER -> "system"]

\* Several settings of one policy, one often edited by hand; two policies written one
\* after the other; one policy that two migrations write.
EachKind == {{"cef"}, {"media-system", "pve-system"}, {"sonarr"}}
AnyJob == [c \in Clients |->
             {Migrate(s) : s \in Migrations} \union
             {Check("media-paths"), Toggle("sonarr", FALSE), Toggle("cef", TRUE)}]

\* Where what a script does can make work for another.
OneOfEach == {{"sonarr"}, {"cef", "iptables"}}
MigrationsOnly == [c \in Clients |-> {Migrate(s) : s \in Migrations \ {"filesystem-types"}}]
=============================================================================

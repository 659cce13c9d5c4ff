------------------------------ MODULE MCBridges -------------------------------
EXTENDS Bridges, TLC

MCKinds == {"raw", "forward", "socks", "exec"}
MCRoutes == {"libp2p", "native"}
ExecOnly == {"exec"}
ForwardOnly == {"forward"}

\* A SOCKS5 client sends two chunks before its data.
MCChunks ==
    [k \in Kinds |-> "client" :> (CASE k = "socks" -> 3 [] k = "exec" -> 1 [] OTHER -> 2) @@ "server" :> 1]
OneChunk == [k \in Kinds |-> "client" :> 1 @@ "server" :> 1]
==============================================================================

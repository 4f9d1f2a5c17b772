---------------------------- MODULE MCCertStore -----------------------------
(* init has the volume of one node and two connectors, which share a name  *)
(* with "cert sign" and with the API server.                               *)
EXTENDS CertStore, TLC

CONSTANTS root, init, sign, api,        \* processes
          making, volume, one, two, signer, server,  \* goroutines
          node, provisioner, authority

MCProcesses  == {root, init, sign, api}
MCGoroutines == {making, volume, one, two, signer, server}
MCOf   == [g \in MCGoroutines |-> CASE g = making -> root [] g = signer -> sign
                                    [] g = server -> api [] OTHER -> init]
MCWork == [g \in MCGoroutines |-> CASE g = making -> "root" [] g = signer -> "sign"
                                    [] g = server -> "load" [] g = volume -> "volume"
                                    [] OTHER -> "tls"]
MCNames  == {node, provisioner}
MCNameOf == [g \in MCGoroutines |-> IF g = volume THEN node ELSE provisioner]

MCSymmetry == Permutations({one, two})
=============================================================================

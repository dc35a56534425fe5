---------------------------- MODULE MCCsiTracing ----------------------------
(* Two calls of five: two on one connection, one on a connection whose     *)
(* packets to the server have the same identifier (ports 4 and 15 against  *)
(* 41 and 5), one on an unrelated connection with the same stream id, and  *)
(* one on an IPv6 connection.                                              *)
EXTENDS CsiTracing

MCConns == {"k1", "k2", "k3", "k6"}
End(v4, cport, sport) ==
  [v4 |-> v4, client |-> <<1>>, cport |-> cport, server |-> <<2>>, sport |-> sport]
MCEnds == [k1 |-> End(TRUE, <<4>>, <<1, 5>>), k2 |-> End(TRUE, <<4, 1>>, <<5>>),
           k3 |-> End(TRUE, <<6>>, <<1, 5>>), k6 |-> End(FALSE, <<7>>, <<1, 5>>)]
MCCalls == {[conn |-> "k1", sid |-> 1], [conn |-> "k1", sid |-> 3],
            [conn |-> "k2", sid |-> 1], [conn |-> "k3", sid |-> 1],
            [conn |-> "k6", sid |-> 1]}
MCPlain == [pkg |-> "csi.v1", service |-> "Identity", rpc |-> "Probe"]
MCPaths ==
  UNION {[pkg : {"csi.v1"}, service : {s}, rpc : Methods[s]] : s \in DOMAIN Methods}
  \cup {[pkg |-> "csi.v1", service |-> "Controller", rpc |-> "Probe"],
        [pkg |-> "csi.v0", service |-> "Identity", rpc |-> "Probe"],
        [pkg |-> "other", service |-> "Health", rpc |-> "Check"],
        [pkg |-> "short", service |-> "S", rpc |-> "M"],
        [pkg |-> "early", service |-> "S", rpc |-> "Method"]}
============================================================================

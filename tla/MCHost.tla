-------------------------------- MODULE MCHost --------------------------------
(***************************************************************************)
(* The parts of a host that run apart from the sessions: vmctl, the eBPF   *)
(* collector and its limits, the log collectors, the self-update and the   *)
(* OTLP receiver.  They share no state, so `part` says which of them a     *)
(* behaviour is of; the others stay in one of their initial states.        *)
(***************************************************************************)
EXTENDS VmctlClient, EbpfCollector, EbpfLimits, LogFollow, AgentUpgrade, OtlpReceiver

CONSTANTS k1, k2, t1, p1, p2

VARIABLE part

ebpfVars == <<kernelVars, loopVars>>

HostConfig ==
    ConfigOf([allow |-> {}, deny |-> {"muted"}, batch |-> -1, flush |-> 0],
             [token |-> "t", limit |-> 0, cidrs |-> {[address |-> 4, length |-> 1], [address |-> -1, length |-> 0]}])

Contents(service) ==
    {[trace |-> [length |-> 32, zero |-> FALSE], span |-> [length |-> 16, zero |-> FALSE],
      parent |-> [length |-> 0, zero |-> TRUE], service |-> service, kind |-> 2, start |-> 5000, end |-> 6000]}

GoodPost ==
    [traces |-> TRUE, token |-> "t", remote |-> 5, size |-> 10, encoding |-> "gzip", sound |-> TRUE,
     unpacked |-> 1024, type |-> "json", parses |-> TRUE, contents |-> Contents("shop")]

HostRequests ==
    <<GoodPost, [GoodPost EXCEPT !.encoding = ""], [GoodPost EXCEPT !.token = ""],
      [GoodPost EXCEPT !.remote = 3], [GoodPost EXCEPT !.contents = Contents("muted")]>>

MCInit ==
    /\ part \in {"vmctl", "ebpf", "limits", "logs", "upgrade", "otlp"}
    /\ VmctlInit /\ (part # "vmctl" => cmd = AnyCommand)
    /\ EbpfInit /\ (part # "ebpf" => flush = Bucket)
    /\ LimitInit /\ (part # "limits" => limit = "rate")
    /\ LogInit /\ (part # "logs" => source = "pod")
    /\ UpgradeInit /\ (part # "upgrade" => kind = "direct" /\ fit = "good" /\ staged = "new")
    /\ OtlpInit

MCNext ==
    /\ UNCHANGED part
    /\ \/ part = "vmctl" /\ VmctlNext
          /\ UNCHANGED <<ebpfVars, limitVars, logVars, upgradeVars, otlpVars>>
       \/ part = "ebpf" /\ EbpfNext
          /\ UNCHANGED <<vmctlVars, limitVars, logVars, upgradeVars, otlpVars>>
       \/ part = "limits" /\ LimitNext
          /\ UNCHANGED <<vmctlVars, ebpfVars, logVars, upgradeVars, otlpVars>>
       \/ part = "logs" /\ LogNext
          /\ UNCHANGED <<vmctlVars, ebpfVars, limitVars, upgradeVars, otlpVars>>
       \/ part = "upgrade" /\ UpgradeNext
          /\ UNCHANGED <<vmctlVars, ebpfVars, limitVars, logVars, otlpVars>>
       \/ part = "otlp" /\ OtlpNext
          /\ UNCHANGED <<vmctlVars, ebpfVars, limitVars, logVars, upgradeVars>>

MCSpec ==
    MCInit /\ [][MCNext]_<<part, vmctlVars, ebpfVars, limitVars, logVars, upgradeVars, otlpVars>>
=============================================================================

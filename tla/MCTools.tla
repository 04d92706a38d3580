------------------------------- MODULE MCTools -------------------------------
(* One of the tools at a time, the others are not started: the three         *)
(* diagnostics, the audit of the build, the search for a prompt, and the     *)
(* commands that make a quantized model.                                     *)
(* The full matrix with two repeats is met by a sound server with any one    *)
(* faulty request, and by servers that lie in each way the report can tell.  *)
EXTENDS MtpDiag, PrefixDiag, BackingCacheDiag, RocmAudit, PromptFit, Quantization

Job(profile, repeats, ref) ==
  [profile |-> profile, repeats |-> repeats, require |-> profile = "full" /\ ref = "same" /\ repeats = 2,
   ref |-> ref, log |-> TRUE, primes |-> 0, prime_n |-> 0, cap |-> NoValue]
Server(kind, from) == [kind |-> kind, at |-> from]
Sound == Server("sound", NoValue)

MCDiagCases ==
  {<<[Job("full", 2, "same") EXCEPT !.primes = 1], Sound>>}
  \cup {<<[Job("full", 2, ref) EXCEPT !.require = TRUE], Sound>> : ref \in {"none", "manifest"}}
  \cup {<<Job("greedy-n01", 2, ref), Sound>> :
          ref \in {"none", "missing", "error", "body", "notrace", "noid"}}
  \cup {<<[Job("greedy-n01", 1, "same") EXCEPT !.log = FALSE], Sound>>,
        <<Job("production-n03", 2, "same"), Sound>>,
        <<[Job("full", 1, "none") EXCEPT !.cap = 8], Server("capped", NoValue)>>,
        <<[Job("full", 1, "none") EXCEPT !.cap = 9], Server("capped", NoValue)>>,
        <<[Job("full", 2, "same") EXCEPT !.primes = 1], Server("drift", 2)>>,
        <<[Job("full", 2, "same") EXCEPT !.primes = 1, !.prime_n = 1], Server("drift", 2)>>,
        <<Job("full", 2, "none"), Server("unseeded", 2)>>}
  \cup {<<Job("full", 1, "none"), Server(kind, from)>> :
          kind \in {"draft1", "draft23"}, from \in {0, 1, 3, 4}}
  \cup {<<Job("full", 1, "same"), Server(kind, 2)>> : kind \in {"stream", "score", "bypass"}}

MCPrefixServers ==
  {"sound", "oneslot", "liar", "swaps", "leaks", "drifts", "driftsB", "nocache", "half", "mute",
   "nodraft"}
MCBackingServers ==
  {"sound", "offcaches", "ramcold", "checkpoint", "short", "prose", "nomtp", "drifts", "noids", "nocount", "over"}

\* Two generations of the tree: the kernels of the second are wrong, and it has
\* lost the fixes of the verifier and the bypass.
MCTraits ==
  LET Made(kernels, features) ==
        [dispatch |-> TRUE, archs |-> TRUE, kernels |-> kernels, features |-> features]
  IN <<Made(TRUE, Features), Made(FALSE, {"mtp", "host", "vision"})>>
MCDevices == <<"ROCm0", "ROCm1">>
MCJobs == {"first", "second", "third"}

MtpIdle ==
  /\ job = Job("full", 1, "none") /\ server = Sound /\ mpc = "idle" /\ at = 1
  /\ rows = <<>> /\ prime = <<>> /\ truth = <<>> /\ log = <<>> /\ late = <<>> /\ mark = NoValue
  /\ sound_log = TRUE /\ faults = 0 /\ report = NoReport /\ exit_code = NoValue
PrefixIdle ==
  /\ pserver = "sound" /\ ppc = "idle" /\ pstep = 1 /\ slots = [s \in {0, 1} |-> "none"]
  /\ lru = <<0, 1>> /\ prows = <<>> /\ auto = <<>> /\ did = <<>> /\ pfaults = 0
  /\ preport = {} /\ pexit = NoValue
BackingIdle ==
  /\ bkind = "sound" /\ service = FALSE /\ restore = FALSE /\ bpc = "idle" /\ arm = 1
  /\ trial = "none" /\ brows = <<>> /\ failure = FALSE /\ passed = FALSE
  /\ start_failed = FALSE /\ cut = FALSE /\ signals = 0

AuditIdle == AuditInit /\ disk = Nothing /\ audit = NoAudit
FitIdle == FitInit /\ target = 2

VARIABLE tool
tools_vars == <<tool, mtp_vars, prefix_vars, backing_vars, audit_vars, fit_vars, quant_vars>>

ToolsInit ==
  \/ tool = "mtp" /\ MtpInit /\ PrefixIdle /\ BackingIdle /\ AuditIdle /\ FitIdle /\ QuantInit
  \/ tool = "prefix" /\ MtpIdle /\ PrefixInit /\ BackingIdle /\ AuditIdle /\ FitIdle /\ QuantInit
  \/ tool = "backing" /\ MtpIdle /\ PrefixIdle /\ BackingInit /\ AuditIdle /\ FitIdle /\ QuantInit
  \/ tool = "audit" /\ MtpIdle /\ PrefixIdle /\ BackingIdle /\ AuditInit /\ FitIdle /\ QuantInit
  \/ tool = "fit" /\ MtpIdle /\ PrefixIdle /\ BackingIdle /\ AuditIdle /\ FitInit /\ QuantInit
  \/ tool = "quant" /\ MtpIdle /\ PrefixIdle /\ BackingIdle /\ AuditIdle /\ FitIdle /\ QuantInit
ToolsNext ==
  /\ UNCHANGED tool
  /\ \/ /\ tool = "mtp" /\ MtpNext
        /\ UNCHANGED <<prefix_vars, backing_vars, audit_vars, fit_vars, quant_vars>>
     \/ /\ tool = "prefix" /\ PrefixNext
        /\ UNCHANGED <<mtp_vars, backing_vars, audit_vars, fit_vars, quant_vars>>
     \/ /\ tool = "backing" /\ BackingNext
        /\ UNCHANGED <<mtp_vars, prefix_vars, audit_vars, fit_vars, quant_vars>>
     \/ /\ tool = "audit" /\ AuditNext
        /\ UNCHANGED <<mtp_vars, prefix_vars, backing_vars, fit_vars, quant_vars>>
     \/ /\ tool = "fit" /\ FitNext
        /\ UNCHANGED <<mtp_vars, prefix_vars, backing_vars, audit_vars, quant_vars>>
     \/ /\ tool = "quant" /\ QuantNext
        /\ UNCHANGED <<mtp_vars, prefix_vars, backing_vars, audit_vars, fit_vars>>
ToolsSpec == ToolsInit /\ [][ToolsNext]_tools_vars
=============================================================================

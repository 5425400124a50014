--------------------------- MODULE MCTenantStatus ---------------------------
(* Two groups of specs: one about versions, one about scopes and settings; an edit stays within its group. *)
EXTENDS TenantStatus

Off == [enabled |-> FALSE, image |-> FALSE, version |-> 0, updates |-> TRUE]
On == [Off EXCEPT !.enabled = TRUE]
Base == [group |-> "versions", publicRegistry |-> FALSE, platform |-> FALSE, registration |-> FALSE,
         monitoring |-> FALSE, logMonitoring |-> FALSE, rules |-> FALSE,
         oneAgent |-> Off, activeGate |-> Off, codeModules |-> Off]

VersionSpecs ==
    {[Base EXCEPT !.publicRegistry = p, !.oneAgent = o, !.activeGate = a, !.codeModules = IF o.enabled THEN On ELSE Off] :
        p \in BOOLEAN,
        o \in {On, [On EXCEPT !.image = TRUE], [On EXCEPT !.version = 1]}, a \in {[On EXCEPT !.updates = FALSE]}}
        \cup {Base}
SettingSpecs ==
    {[Base EXCEPT !.group = "settings", !.platform = p, !.publicRegistry = p, !.registration = r,
                  !.monitoring = r \/ l, !.logMonitoring = l, !.rules = u] :
        p, r, l \in BOOLEAN, u \in {TRUE}}
AllSpecs == VersionSpecs \cup SettingSpecs
=============================================================================

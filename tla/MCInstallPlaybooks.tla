------------------------- MODULE MCInstallPlaybooks -------------------------
(* Instances of InstallPlaybooks for TLC: playbooks that the configuration *)
(* turns on and off, one that it does not, and the two of the target ood. *)
EXTENDS InstallPlaybooks

SomePlaybooks == {"ad", "scheduler", "ood", "ood-custom"}

Conf(ad, users, on) ==
  [ad |-> ad, users |-> users, grafana |-> on, telegraf |-> on, ondemand |-> on]
NewAD == {Conf("new", "ad", TRUE)}
AllConfigs == {Conf("new", "ad", TRUE), Conf("existing", "ad", TRUE), Conf("new", "local", FALSE)}
=============================================================================

-------------------------- MODULE ProviderAdapters --------------------------
(***************************************************************************)
(* The provider service with the adapter its deployment selects:           *)
(* createProvider in apps/proxmox-provider/src/app/provider.factory.ts.    *)
(***************************************************************************)
EXTENDS ProxmoxProvider, TerraformProvider

VARIABLE adapter

adapterVars == <<terraformVars, adapter>>

AdaptersInit ==
  /\ PortInit
  /\ TerraformInit
  /\ adapter \in {"proxmox", "terraform"}

Call(s, i, m, disk) ==
  IF adapter = "proxmox"
  THEN ProxmoxCall(s, i, m, disk) /\ UNCHANGED <<tfstate, refreshing, runVars>>
  ELSE TerraformCall(s, i, m, disk)

(* The disk a call names: the Terraform adapter does not look at the one   *)
(* of a configuration.                                                     *)
DisksOf(m) ==
  IF m = "resize" \/ (m = "configure" /\ adapter = "proxmox") THEN Disks ELSE {0}

PollTask(i) ==
  IF adapter = "proxmox"
  THEN getTask(i) /\ UNCHANGED <<tfstate, refreshing, runVars>>
  ELSE getRunState(i)

AdaptersNext ==
  /\ \/ \E s \in Slots, i \in Instances, m \in Methods :
          \E disk \in DisksOf(m) : Call(s, i, m, disk)
     \/ \E i \in Instances : PollTask(i)
     \/ \E s \in Slots : IF adapter = "proxmox"
                         THEN ProxmoxHandler(s) /\ UNCHANGED <<tfstate, refreshing, runVars>>
                         ELSE TerraformHandler(s)
     \/ TerraformBackground
     \/ AdapterCrash
     \/ /\ \/ \E s \in Slots : Deliver(s)
           \/ \E i \in Instances : Abandon(i)
           \/ \E v \in Vmids : TaskEnds(v)
        /\ UNCHANGED <<tfstate, refreshing, runVars>>
  /\ UNCHANGED adapter

AdaptersSpec == AdaptersInit /\ [][AdaptersNext]_adapterVars
=============================================================================

---------------------------- MODULE DnsRefinement ----------------------------
(***************************************************************************)
(* DnsOverride implements DnsOwnership.  What is kept for the adapters is: *)
(* while the program is up, the map that a restore has taken out of        *)
(* ORIGINAL_DNS_SETTINGS, or that one itself; before and after, what       *)
(* dns_override_backup.json says.                                          *)
(***************************************************************************)
EXTENDS DnsOverrideInv

Restoring == {t \in Threads : At(t, "putback")}

Held ==
    IF phase # "up" THEN file
    ELSE IF Restoring = {} THEN orig
    ELSE th[CHOOSE t \in Restoring : TRUE].took

Ownership == INSTANCE DnsOwnership WITH
    Choices <- OwnerSettings, Addresses <- OwnAddresses \union {AnyAddr},
    Nothing <- NoEntry, kept <- Held

\* Start, set, restore, watchdog, switch, lock, exit, kill and recovery, in
\* whatever order they come: together they borrow the adapters' settings.
\* This is for the environments in which nothing needs to be lost (Lossless).
SettingsAreBorrowed == Ownership!OwnershipSpec

=============================================================================

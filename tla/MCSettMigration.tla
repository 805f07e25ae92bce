-------------------------- MODULE MCSettMigration --------------------------
\* One Sett to add and one to migrate, in campaigns of their own.
EXTENDS SettMigration

CONSTANTS ren, obtc, oldRen, newRen, newObtc

MCWant == (oldRen :> ren) @@ (newRen :> ren) @@ (newObtc :> obtc)
MCGovernance == (Native :> Timelock) @@ (Experimental :> Test)
MCAdminOwner == (oldRen :> Test) @@ (newRen :> Test) @@ (newObtc :> Timelock)
MCCampaigns == {<<<<obtc>>, <<>>>>, <<<<>>, <<ren>>>>}
=============================================================================

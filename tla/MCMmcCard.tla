----------------------------- MODULE MCMmcCard ------------------------------
(***************************************************************************)
(* MmcCard with every kind of card, on a board with four data lines.       *)
(***************************************************************************)
EXTENDS MmcCard

MCKinds == {"emmc", "mmc3", "sd1", "sd2"}
MCVendors == {"EMMC_SAMSUNG", "other"}
=============================================================================

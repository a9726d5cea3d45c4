----------------------------- MODULE SdDrivers -----------------------------
(***************************************************************************)
(* The SD card driver of either board: a firmware is built for one of the  *)
(* two, and the state of the driver that is not built stays as it was at   *)
(* the start.                                                              *)
(***************************************************************************)
EXTENDS Sdmmc

CONSTANT MaxSectors

ASSUME SectorsAssumption == MaxSectors \in Nat \ {0}

VARIABLES
  board,     \* the board the firmware is built for
  spi_card, spi_bus, spi_ctx, spi_flags, spi_task

Spi == INSTANCE SdSpi WITH
  card <- spi_card, bus <- spi_bus, ctx <- spi_ctx, flags <- spi_flags,
  task <- spi_task

spi_vars == <<spi_card, spi_bus, spi_ctx, spi_flags, spi_task>>

BoardInit == board \in {"stm32", "ra8p1"} /\ Init /\ Spi!Init

BoardNext ==
  /\ UNCHANGED board
  /\ \/ board = "stm32" /\ Next /\ UNCHANGED spi_vars
     \/ board = "ra8p1" /\ Spi!Next /\ UNCHANGED vars

BoardSpec == BoardInit /\ [][BoardNext]_<<board, vars, spi_vars>>

----------------------------------------------------------------------------
(* The properties of SdSpi; those of Sdmmc have their own names.           *)

\* The SPI driver serves the card it has brought up, wherever in initialize
\* another one was put in.
ReadyCardWasBroughtUp == Spi!ReadyCardWasBroughtUp

\* A read or write that returns OK had its card until the last of its data.
WholeOrError == Spi!WholeOrError

\* No wait for an SPI transfer is left to its timeout.
TransferNeverLost == Spi!TransferNeverLost
=============================================================================

------------------------------ MODULE Services ------------------------------
(***************************************************************************)
(* The parser, the directory of mailboxes, the event bus, the rate limit   *)
(* and the settings of the temporary mail providers, side by side.  They   *)
(* share no state, so a behaviour is one of one of them, the others        *)
(* standing still: the states are the sum of theirs, not the product.      *)
(***************************************************************************)
EXTENDS MailParser, MailboxDirectory, EventBus, RateLimit, ProviderSettings

VARIABLE part  \* the component this behaviour is one of

servicesVars == <<part, parserVars, directoryVars, busVars, rateVars, settingVars>>

ServicesInit ==
  /\ part \in {"parser", "directory", "events", "rate", "settings"}
  /\ ParserInit /\ DirectoryInit /\ EventInit /\ RateInit /\ SettingsInit
  /\ part # "parser" => priority = CHOOSE f \in [Rules -> Priorities] : TRUE

ParserPart ==
  part = "parser" /\ ParserNext /\ UNCHANGED <<part, directoryVars, busVars, rateVars, settingVars>>
DirectoryPart ==
  part = "directory" /\ DirectoryNext /\ UNCHANGED <<part, parserVars, busVars, rateVars, settingVars>>
EventPart ==
  part = "events" /\ EventNext /\ UNCHANGED <<part, parserVars, directoryVars, rateVars, settingVars>>
RatePart ==
  part = "rate" /\ RateNext /\ UNCHANGED <<part, parserVars, directoryVars, busVars, settingVars>>
SettingsPart ==
  part = "settings" /\ SettingsNext /\ UNCHANGED <<part, parserVars, directoryVars, busVars, rateVars>>

ServicesNext == ParserPart \/ DirectoryPart \/ EventPart \/ RatePart \/ SettingsPart

ServicesSpec == ServicesInit /\ [][ServicesNext]_servicesVars
=============================================================================

-------------------------- MODULE ConditionEvaluator --------------------------
(***************************************************************************)
(* app/domain/chores/condition_evaluator.py: the conditions of a chore are *)
(* evaluated one after the other, each with a call of a provider of its    *)
(* own (the cache of the endpoints is not asked), and the results put      *)
(* together.  The verdict decides whether generate_instance_for_association*)
(* goes on; ChoresService takes it as any of met, unmet and raised.        *)
(*                                                                         *)
(* Of a condition is kept what it looks at, and whether the comparison it  *)
(* asks for can be made: Condition accepts a text as the value of any      *)
(* metric, `contains` of a number, and an order between titles and a text. *)
(***************************************************************************)
EXTENDS ForecastPages

CONSTANTS
    Configs,       \* conditions of chores
    Low,           \* readings for which a comparison with the current ones holds
    Snowy,         \* days whose forecast amount satisfies the comparison
    Busy           \* days whose events satisfy it

VARIABLES
    eval,          \* the local variables of evaluate
    verdict,       \* what the last evaluation came to
    since          \* history: what there was to see since the evaluation began

world == <<today, outside>>
vars  == <<forecast, eval, verdict, since>>

(* current: temperature, wind_speed; amount: snowfall, rainfall; events:   *)
(* event_count, event_type.  never: titles are compared for equality with  *)
(* a text; clash: the comparison raises.                                   *)
Condition == [of : {"current", "amount", "events"}, test : {"sound", "never", "clash"}]

Config == [logic : {"and", "or"}, conditions : Seq(Condition)]

ASSUME ConfigAssumption ==
    /\ Configs \subseteq Config
    /\ \A c \in Configs : \A k \in 1..Len(c.conditions) :
          c.conditions[k].test = "never" => c.conditions[k].of = "events"
    /\ Low \subseteq Readings /\ Snowy \subseteq Days /\ Busy \subseteq Days

Resting == [at |-> "idle", config |-> None, results |-> <<>>, asked |-> 0]

Seen == [begun |-> today, readings |-> {outside}, blind |-> FALSE]

Doing(label) == eval.at = label

Pending == eval.config.conditions[Len(eval.results) + 1]

-------------------------------------------------------------------------------
(* evaluate: without conditions the answer is yes at once. *)
Evaluate(config) ==
    /\ Doing("idle")
    /\ IF config.conditions = <<>>
       THEN verdict' = "met" /\ UNCHANGED eval
       ELSE eval' = [Resting EXCEPT !.at = "next", !.config = config] /\ verdict' = "none"
    /\ since' = Seen
    /\ UNCHANGED forecast

(* _evaluate_weather calls the weather provider. *)
AskWeather ==
    /\ Doing("next") /\ Pending.of # "events"
    /\ GetWeather
    /\ eval' = [eval EXCEPT !.at = "weather"]
    /\ UNCHANGED <<world, verdict, since>>

(* _evaluate_calendar calls the calendar provider, for the day it is now.  *)
AskCalendar ==
    /\ Doing("next") /\ Pending.of = "events"
    /\ eval' = [eval EXCEPT !.at = "calendar", !.asked = today]
    /\ UNCHANGED <<forecast, verdict, since>>

(* Mutant (EvaluationEnds): the loop does not move on. *)
ResultsMutant(r) == eval.results

(* The results once the pending condition has come to r. *)
Results(r) == Append(eval.results, r)

Combined(config, results) ==
    IF config.logic = "and" THEN \A k \in DOMAIN results : results[k]
    ELSE \E k \in DOMAIN results : results[k]

(* The pending condition has come to r. *)
Conclude(r) ==
    IF Len(Results(r)) = Len(eval.config.conditions)
    THEN /\ verdict' = IF Combined(eval.config, Results(r)) THEN "met" ELSE "unmet"
         /\ eval' = Resting
    ELSE /\ eval' = [eval EXCEPT !.at = "next", !.results = Results(r)]
         /\ UNCHANGED verdict

(* What was to be compared is there, and satisfies the comparison or not.  *)
(* A comparison that cannot be made ends the evaluation with an exception. *)
Compare(holds) ==
    \/ Pending.test = "sound" /\ Conclude(holds)
    \/ Pending.test = "never" /\ Conclude(FALSE)
    \/ Pending.test = "clash" /\ verdict' = "raised" /\ eval' = Resting

(* Mutant (MetIsTrue): what cannot be fetched counts as satisfied. *)
WithoutDataMutant == Conclude(TRUE)

(* Without data a condition is not satisfied. *)
WithoutData == Conclude(FALSE)

(* Mutant (UnmetIsTrue): the day looked up is the one at the beginning of  *)
(* the call.                                                               *)
HasAmountMutant == \E k \in DOMAIN call.shown : call.shown[k].day = call.start

(* _extract_weather_metric finds today, by the clock of this moment. *)
HasAmount == \E k \in DOMAIN call.shown : call.shown[k].day = today

(* No fault of the evaluator: the provider raised, or sent an answer in    *)
(* which the daily timeline was lost, or ended early.                      *)
Blind ==
    \/ InCall("raised")
    \/ call.got["daily"] = None
    \/ "daily" \in call.ended
    \/ call.extra["daily"] > 0

UseWeather ==
    /\ Doing("weather")
    /\ \/ InCall("raised") /\ WithoutData
       \/ InCall("answered") /\ Pending.of = "current" /\ Compare(call.reading \in Low)
       \/ InCall("answered") /\ Pending.of = "amount" /\ HasAmount /\ Compare(today \in Snowy)
       \/ InCall("answered") /\ Pending.of = "amount" /\ ~HasAmount /\ WithoutData
    /\ since' = [since EXCEPT !.blind = @ \/ Blind]
    /\ call' = NoCall
    /\ UNCHANGED world

(* fetch_events of the Google adapter: two calls in a thread, of which the *)
(* first, for the rules of recurring events, may fail unnoticed.           *)
UseCalendar ==
    /\ Doing("calendar")
    /\ \/ Compare(eval.asked \in Busy) /\ UNCHANGED since
       \/ WithoutData /\ since' = [since EXCEPT !.blind = TRUE]
    /\ UNCHANGED forecast

-------------------------------------------------------------------------------
Init ==
    /\ ForecastInit
    /\ eval = Resting
    /\ verdict = "none"
    /\ since = Seen

Continue ==
    \/ AskWeather \/ AskCalendar \/ UseWeather \/ UseCalendar
    \/ WeatherStep /\ UNCHANGED <<eval, verdict, since>>

Next ==
    \/ \E config \in Configs : Evaluate(config)
    \/ Continue
    \/ Midnight /\ UNCHANGED <<eval, verdict, since>>
    \/ ChangeWeather /\ since' = [since EXCEPT !.readings = @ \cup {outside'}]
                     /\ UNCHANGED <<eval, verdict>>

(* Providers answer, fail or time out, and the event loop resumes whoever  *)
(* waited for them; nothing obliges anyone to evaluate.                    *)
Spec == Init /\ [][Next]_vars /\ WF_vars(Continue)

-------------------------------------------------------------------------------
(* Properties. *)

EvaluatorTypeOK ==
    /\ ForecastTypeOK
    /\ eval.at \in {"idle", "next", "weather", "calendar"}
    /\ eval.config \in Configs \cup {None}
    /\ eval.results \in Seq(BOOLEAN)
    /\ ~Doing("idle") => Len(eval.results) < Len(eval.config.conditions)
    /\ eval.asked \in Days
    /\ verdict \in {"none", "met", "unmet", "raised"}
    /\ since \in [begun : Days, readings : SUBSET Readings, blind : BOOLEAN]

(* Condition c was satisfied (x = TRUE), or was not, at some moment of the *)
(* evaluation that ends in this step.                                      *)
WasOnce(c, x) ==
    \/ c.of = "current" /\ \E r \in since.readings : (r \in Low) = x
    \/ c.of = "amount" /\ \E d \in since.begun..today : (d \in Snowy) = x
    \/ c.of = "events" /\ \E d \in since.begun..today : (d \in Busy /\ c.test = "sound") = x

(* A verdict of met is about the world: every condition (of an "and"), or  *)
(* one (of an "or"), was satisfied at a moment of the evaluation, whatever *)
(* failed and wherever midnight passed.  No chore is generated because     *)
(* something could not be fetched.                                         *)
MetIsTrue ==
    [][eval.at # "idle" /\ verdict' = "met" =>
       LET cs == eval.config.conditions
       IN  IF eval.config.logic = "and" THEN \A k \in DOMAIN cs : WasOnce(cs[k], TRUE)
           ELSE \E k \in DOMAIN cs : WasOnce(cs[k], TRUE)]_vars

(* So is a verdict of unmet, as long as every provider sent what it was    *)
(* asked for: midnight between a fetch and the use of its answer loses     *)
(* nothing.                                                                *)
UnmetIsTrue ==
    [][eval.at # "idle" /\ verdict' = "unmet" /\ ~since'.blind =>
       LET cs == eval.config.conditions
       IN  IF eval.config.logic = "and" THEN \E k \in DOMAIN cs : WasOnce(cs[k], FALSE)
           ELSE \A k \in DOMAIN cs : WasOnce(cs[k], FALSE)]_vars

(* Every evaluation comes to a verdict, however many conditions and pages  *)
(* it takes.                                                               *)
EvaluationEnds == ~Doing("idle") ~> Doing("idle")

-------------------------------------------------------------------------------
(* The inductive invariant behind them. *)

Evaluation ==
    [at: {"idle", "next", "weather", "calendar"}, config: Configs \cup {None},
     results: Seq(BOOLEAN), asked: Days]

(* A result of TRUE is about the world, and so is one of FALSE as long as  *)
(* every provider sent what it was asked for.                              *)
ResultsTrue ==
    \A k \in 1..Len(eval.results) :
        LET c == eval.config.conditions[k]
        IN  /\ eval.results[k] => WasOnce(c, TRUE)
            /\ ~eval.results[k] /\ ~since.blind => WasOnce(c, FALSE)

(* The call under way is the one the pending condition needs, and what it  *)
(* has looked at is of the time of the evaluation.                         *)
LooksOK ==
    /\ Doing("weather") <=> ~InCall("idle")
    /\ Doing("weather") => Pending.of # "events"
    /\ Doing("weather") /\ call.at \in {"timelines", "answered"} =>
          call.reading \in since.readings /\ since.begun <= call.start
    /\ Doing("calendar") => /\ Pending.of = "events"
                            /\ since.begun <= eval.asked /\ eval.asked <= today

EvaluationInv ==
    /\ ForecastInv
    /\ eval \in Evaluation
    /\ ~Doing("idle") => /\ eval.config \in Configs /\ verdict = "none"
                         /\ Len(eval.results) < Len(eval.config.conditions)
                         /\ ResultsTrue
    /\ verdict \in {"none", "met", "unmet", "raised"}
    /\ since \in [begun : Days, readings : SUBSET Readings, blind : BOOLEAN]
    /\ since.begun <= today /\ outside \in since.readings
    /\ LooksOK

===============================================================================

----------------------------- MODULE DispatchPlans -----------------------------
(***************************************************************************)
(* From a request to the mails of its event: what the form submission and  *)
(* the password reset write into the payload of an outbox event, and what  *)
(* the dispatch strategy of the event's type reads out of it.  The payload *)
(* is untyped JSON in between, so nothing but this pair of functions makes *)
(* the two ends agree.                                                     *)
(*                                                                         *)
(* A field is abstracted to what the type tests tell apart.                *)
(***************************************************************************)
EXTENDS Sequences

\* "other" is a value that is neither a string nor null.
Field == {"text", "blank", "null", "absent", "other"}
IsString(v) == v \in {"text", "blank"}

Type == {"FormSubmissionCreated", "PasswordResetRequested"}

-----------------------------------------------------------------------------
(* Writing the payload *)

\* What formsSchema lets through; a blank phone is read as none.
Request == [name: {"text"}, lastName: {"text"}, email: {"text"},
            phone: {"text", "absent"}, location: {"text", "blank", "absent"},
            decisaoPorCristo: BOOLEAN]

\* `value || undefined', written to the row, and read back from it.
Stored(v) == IF v = "text" THEN "text" ELSE "null"

\* FormsSubmissionUseCase: the payload is made of the row, without its address.
FormPayload(r) ==
    [type |-> "FormSubmissionCreated", decisaoPorCristo |-> r.decisaoPorCristo,
     name |-> r.name, lastName |-> r.lastName, email |-> r.email,
     phone |-> Stored(r.phone), location |-> Stored(r.location), ipAddress |-> "absent"]

\* ForgotPasswordUseCase: the account's name and address and the new token.
ResetPayload == [type |-> "PasswordResetRequested", name |-> "text", email |-> "text", token |-> "text"]

-----------------------------------------------------------------------------
(* Reading it: each reader names the fields it refuses, in the order it looks *)

requireStringField(form, f) == IF IsString(form[f]) THEN <<>> ELSE <<f>>

optionalStringField(form, f) == IF IsString(form[f]) \/ form[f] = "absent" THEN <<>> ELSE <<f>>

\* phone and ipAddress are never a reason to refuse.
shownField(form, f) == IF IsString(form[f]) THEN form[f] ELSE "absent"

requireSubmitterIdentity(form) ==
    requireStringField(form, "email") \o requireStringField(form, "name")

decisionStaffFields(form) ==
    requireSubmitterIdentity(form) \o requireStringField(form, "lastName")
                                   \o optionalStringField(form, "location")

extractContactStaffData(form) ==
    requireSubmitterIdentity(form) \o optionalStringField(form, "lastName")

passwordResetFields(payload) ==
    LET filled(f) == IF payload[f] = "text" THEN <<>> ELSE <<f>>
    IN  filled("name") \o filled("email") \o filled("token")

-----------------------------------------------------------------------------
(* buildDispatch: the addressees of the plan, or the field it was refused for *)

Plan(refused, to) == IF refused = <<>> THEN [to |-> to, refused |-> "none"]
                     ELSE [to |-> <<>>, refused |-> Head(refused)]

FormSubmissionDispatch(payload) ==
    Plan(requireSubmitterIdentity(payload) \o IF payload.decisaoPorCristo
                                              THEN decisionStaffFields(payload)
                                              ELSE extractContactStaffData(payload),
         <<"submitter", "staff">>)

PasswordResetDispatch(payload) == Plan(passwordResetFields(payload), <<"account">>)

\* OutboxDispatchStrategyRegistry.resolve, and the strategy it finds.
buildDispatch(payload) ==
    CASE payload.type = "FormSubmissionCreated" -> FormSubmissionDispatch(payload)
      [] payload.type = "PasswordResetRequested" -> PasswordResetDispatch(payload)
      [] OTHER -> Plan(<<"type">>, <<>>)

Refused(payload) == buildDispatch(payload).refused # "none"
================================================================================
